-------------------------- MODULE MCVoicePipeline --------------------------
(* The configurations of the runtime that VoicePipeline is checked in. *)
EXTENDS VoicePipeline

Configured(provider, realtime, indicator, beep, local) ==
    [provider |-> provider, realtime |-> realtime, indicator |-> indicator,
     beep |-> beep, local |-> local]

\* Flux with everything on; the local VAD with and without the beep; realtime,
\* and what it falls back to.
MCConfigs == {Configured(TRUE, FALSE, TRUE, TRUE, FALSE),
              Configured(FALSE, FALSE, TRUE, FALSE, FALSE),
              Configured(FALSE, FALSE, FALSE, TRUE, FALSE),
              Configured(FALSE, TRUE, FALSE, FALSE, TRUE),
              Configured(TRUE, TRUE, FALSE, TRUE, TRUE)}
=============================================================================
