----------------------------- MODULE AgentLoop -----------------------------
(***************************************************************************)
(* brain/rabbit_brain/llm/agent.py with the OpenAI provider, the body      *)
(* tools and the speaker: a transcript becomes a reply.  A turn is up to   *)
(* MaxToolRounds + 1 requests, the tools each response calls, and a reply  *)
(* that is synthesized and queued in one or two parts.                     *)
(*                                                                         *)
(* Of a message the model keeps what the provider checks: how many calls   *)
(* an assistant turn makes and how many results a tool turn carries (a     *)
(* result bears the id of the call it answers).  What the tools submit is  *)
(* BodyController's input.                                                 *)
(***************************************************************************)
EXTENDS Integers, Sequences, FiniteSets

CONSTANTS
    MaxHistoryTurns, \* max_history_turns
    MaxToolRounds,   \* max_tool_rounds
    Responses,       \* what the model may respond
    HasFallbackVoice, \* PIPER_FALLBACK_DEEPGRAM
    AgentFaults      \* what can go wrong, see below

\* provider: a request fails; voice: a voice cannot synthesize.
AgentFaultKinds == {"provider", "voice"}

\* A call of express carries the reply if spoken; motion stands for every other
\* tool without a result to read, a tool that does not exist included.
\* Arguments are whatever JSON the model sent, not always an object.
Call == [name: {"express", "motion", "informational"}, spoken: BOOLEAN, object: BOOLEAN]

Response == [text: BOOLEAN, calls: Seq(Call)]

ASSUME AgentAssumption ==
    /\ MaxHistoryTurns \in Nat
    /\ MaxToolRounds \in Nat
    /\ Responses \subseteq Response
    /\ HasFallbackVoice \in BOOLEAN
    /\ AgentFaults \subseteq AgentFaultKinds

VARIABLES
    history,  \* _history
    phase,    \* where handle() is
    round,    \* round_i
    response, \* the last result
    words,    \* result.text is not empty
    voice,    \* the voice that is synthesizing, if one is
    queued,   \* how much of the reply has been submitted
    outcome,  \* what the last turn came to
    offered,  \* history: a response of this turn had words and asked for nothing
    refused   \* history: turns in a row the provider refused for their history

agentVars == <<history, phase, round, response, words, voice, queued, outcome, offered, refused>>

Message == [kind: {"user", "assistant", "tool"}, calls: Nat]
UserTurn == [kind |-> "user", calls |-> 0]
AssistantTurn(r) == [kind |-> "assistant", calls |-> Len(r.calls)]
ToolTurn(r) == [kind |-> "tool", calls |-> Len(r.calls)]

NoResponse == [text |-> FALSE, calls |-> <<>>]

AgentInit ==
    /\ history = <<>>
    /\ phase = "idle" /\ round = 0
    /\ response = NoResponse /\ words = FALSE
    /\ voice = "none" /\ queued = "nothing"
    /\ outcome = "none" /\ offered = FALSE
    /\ refused = 0

-----------------------------------------------------------------------------
\* The history

\* The calls of message i of h have their results.
Answered(h, i) ==
    h[i].kind = "assistant" /\ h[i].calls > 0 =>
        i < Len(h) /\ h[i + 1].kind = "tool" /\ h[i + 1].calls = h[i].calls

\* The provider refuses an input with a function call that has no output.
Accepted(h) == \A i \in DOMAIN h : Answered(h, i)

UserTurns(h) == {i \in DOMAIN h : h[i].kind = "user"}

\* (mutant) the last messages, instead of the last exchanges.
TrimmedByMessages(h) ==
    IF Len(h) <= 2 * MaxHistoryTurns \/ MaxHistoryTurns = 0 THEN h
    ELSE SubSeq(h, Len(h) - 2 * MaxHistoryTurns + 1, Len(h))

\* _trim(): the last MaxHistoryTurns user turns with what follows them.  A limit
\* of 0 cuts at user_idx[-0], the first, and keeps everything.
Trimmed(h) ==
    IF Cardinality(UserTurns(h)) <= MaxHistoryTurns \/ MaxHistoryTurns = 0 THEN h
    ELSE LET cut == CHOOSE i \in UserTurns(h) :
                       Cardinality({j \in UserTurns(h) : j >= i}) = MaxHistoryTurns
         IN SubSeq(h, cut, Len(h))

\* (mutant) a turn that fails is not trimmed.
NotTrimmed(h) == h
\* The handler of a failed turn trims as well.
TrimmedOnFailure(h) == Trimmed(h)

-----------------------------------------------------------------------------
\* handle() and _run_rounds()

\* handle(): a transcript is appended and the first request sent.
Handles ==
    /\ phase = "idle"
    /\ history' = Append(history, UserTurn)
    /\ phase' = "asking"
    /\ UNCHANGED <<round, response, words, voice, queued, outcome, offered, refused>>

\* handle() is about to return.
Ends(result) ==
    /\ phase' = "over"
    /\ outcome' = result

\* It returns: the history is all that is left.
Leaves ==
    /\ phase = "over"
    /\ phase' = "idle" /\ round' = 0
    /\ response' = NoResponse /\ words' = FALSE
    /\ queued' = "nothing" /\ outcome' = "none" /\ offered' = FALSE
    /\ UNCHANGED <<history, voice, refused>>

\* (mutant) one round too many.
OutOfRoundsLate == round > MaxToolRounds
OutOfRounds == round = MaxToolRounds

\* A response is appended to the history before anything is made of it; out of
\* rounds its calls stay there.
Responds(r) ==
    /\ phase = "asking"
    /\ Accepted(history)
    /\ history' = Append(history, AssistantTurn(r))
    /\ response' = r /\ words' = r.text
    /\ phase' = IF r.calls = <<>> \/ OutOfRounds THEN "replying" ELSE "executing"
    /\ refused' = 0
    /\ UNCHANGED <<round, voice, queued, outcome, offered>>

RequestFails ==
    /\ "provider" \in AgentFaults
    /\ phase = "asking"
    /\ history' = TrimmedOnFailure(history)
    /\ Ends("failed")
    /\ UNCHANGED <<round, response, words, voice, queued, offered, refused>>

RequestRefused ==
    /\ phase = "asking"
    /\ ~Accepted(history)
    /\ history' = TrimmedOnFailure(history)
    /\ refused' = refused + 1
    /\ Ends("failed")
    /\ UNCHANGED <<round, response, words, voice, queued, offered>>

Expresses(r) == \E i \in DOMAIN r.calls : r.calls[i].name = "express"
\* The first call of express: the only one whose words are read.
Expression(r) ==
    r.calls[CHOOSE i \in DOMAIN r.calls :
        /\ r.calls[i].name = "express"
        /\ \A j \in 1..(i - 1) : r.calls[j].name # "express"]

\* (mutant) an express that comes with another call has no words.
WordsOfItsOwn(r) == r.text \/ (Expresses(r) /\ Expression(r).spoken /\ Len(r.calls) = 1)
\* The words of a response whose calls were executed, whether they succeeded or not.
Words(r) == r.text \/ (Expresses(r) /\ Expression(r).spoken)

NeedsFollowUp(r) == \E i \in DOMAIN r.calls : r.calls[i].name = "informational"

\* (history) whether a response gives the turn its reply.
Offers(r) ==
    /\ \/ r.text
       \/ \E i \in DOMAIN r.calls :
             /\ r.calls[i].name = "express" /\ r.calls[i].spoken
             /\ \A j \in 1..(i - 1) : r.calls[j].name # "express"
    /\ \A i \in DOMAIN r.calls : r.calls[i].name # "informational"

\* A tool that fails is a result like any other; reading the words of arguments
\* that are not an object raises.
Unreadable(r) == Expresses(r) /\ ~Expression(r).object

Executes ==
    /\ phase = "executing"
    /\ ~Unreadable(response)
    /\ history' = Append(history, ToolTurn(response))
    /\ words' = Words(response)
    /\ offered' = (offered \/ Offers(response))
    /\ IF Words(response) /\ ~NeedsFollowUp(response)
       THEN phase' = "replying" /\ UNCHANGED round
       ELSE phase' = "asking" /\ round' = round + 1
    /\ UNCHANGED <<response, voice, queued, outcome, refused>>

ExecutesInVain ==
    /\ phase = "executing"
    /\ Unreadable(response)
    /\ history' = TrimmedOnFailure(Append(history, ToolTurn(response)))
    /\ Ends("failed")
    /\ UNCHANGED <<round, response, words, voice, queued, offered, refused>>

-----------------------------------------------------------------------------
\* The reply: Speaker.speak() and the voices

Silent ==
    /\ phase = "replying" /\ ~words
    /\ history' = Trimmed(history)
    /\ Ends("silent")
    /\ UNCHANGED <<round, response, words, voice, queued, offered, refused>>

\* Each part is tried with the first voice.
Synthesizes ==
    /\ phase = "replying" /\ words
    /\ phase' = "speaking"
    /\ voice' = "first"
    /\ UNCHANGED <<history, round, response, words, queued, outcome, offered, refused>>

\* The first voice fails and another takes over.
VoiceFallsBack ==
    /\ "voice" \in AgentFaults
    /\ phase = "speaking" /\ voice = "first" /\ HasFallbackVoice
    /\ voice' = "fallback"
    /\ UNCHANGED <<history, phase, round, response, words, queued, outcome, offered, refused>>

\* What has been submitted is played all the same.
VoiceFails ==
    /\ "voice" \in AgentFaults
    /\ phase = "speaking"
    /\ voice = "first" => ~HasFallbackVoice
    /\ voice' = "none"
    /\ history' = Trimmed(history)
    /\ Ends("mute")
    /\ UNCHANGED <<round, response, words, queued, offered, refused>>

\* A long reply is queued in two parts, the first one while the rest is made.
FirstPartQueued ==
    /\ phase = "speaking" /\ queued = "nothing"
    /\ queued' = "first" /\ voice' = "first"
    /\ UNCHANGED <<history, phase, round, response, words, outcome, offered, refused>>

ReplyQueued ==
    /\ phase = "speaking"
    /\ queued' = "all" /\ voice' = "none"
    /\ history' = Trimmed(history)
    /\ Ends("spoken")
    /\ UNCHANGED <<round, response, words, offered, refused>>

-----------------------------------------------------------------------------
Rounds == \/ \E r \in Responses : Responds(r)
          \/ RequestFails \/ RequestRefused \/ Executes \/ ExecutesInVain

Reply == \/ Silent \/ Synthesizes \/ VoiceFallsBack \/ VoiceFails
         \/ FirstPartQueued \/ ReplyQueued

AgentStep == Rounds \/ Reply

AgentTypeOK ==
    /\ history \in Seq(Message)
    /\ phase \in {"idle", "asking", "executing", "replying", "speaking", "over"}
    /\ round \in 0..MaxToolRounds
    /\ response \in Response
    /\ words \in BOOLEAN
    /\ voice \in {"none", "first", "fallback"}
    /\ queued \in {"nothing", "first", "all"}
    /\ outcome \in {"none", "failed", "silent", "mute", "spoken"}
    /\ offered \in BOOLEAN
    /\ refused \in Nat
-----------------------------------------------------------------------------
\* Properties

\* "Counting user turns keeps whole exchanges intact" (agent.py:198): however
\* turns end and however they are trimmed, the history starts with a user's
\* turn, results follow the calls they answer, a turn that ended keeps no more
\* than the limit, and calls without results are the last of their exchange.
HistoryIsWhole ==
    /\ history # <<>> => history[1].kind = "user"
    /\ \A i \in DOMAIN history : history[i].kind = "tool" =>
           /\ history[i - 1].kind = "assistant"
           /\ history[i - 1].calls = history[i].calls
    /\ \A i \in DOMAIN history : ~Answered(history, i) /\ i < Len(history) =>
           history[i + 1].kind = "user"
    /\ phase \in {"over", "idle"} /\ MaxHistoryTurns > 0 =>
           Cardinality(UserTurns(history)) <= MaxHistoryTurns

\* A history the provider refuses is not refused for ever: what ran out of
\* rounds is trimmed away with its exchange, although every turn meanwhile
\* fails, and so a wake word is answered again after at most MaxHistoryTurns
\* that are not.
RefusedOnlySoOften == MaxHistoryTurns > 0 => refused <= MaxHistoryTurns

\* "a bad gesture/mood must not silence the reply too" (agent.py:180): a turn
\* is silent only if none of the responses that were executed had its reply,
\* in text or in its first express, alone or with other calls.
SilentOnlyIfWordless ==
    phase = "over" /\ outcome = "silent" => ~offered /\ ~response.text

\* "Every failure path stops cleanly and leaves the runtime ready for the next
\* wake word" (agent.py:6): between turns, the next request is acceptable.
ReadyForNextWake == phase = "idle" => Accepted(history)
=============================================================================
