---- MODULE ModelCalls ----
(***************************************************************************)
(* The calls of the model: the answer cache, the retry of an answer that   *)
(* does not validate, the token budget, the call log and its rows          *)
(* (llm/base.py, llm/openai_compat.py, llm/cache.py, db/cache.py).         *)
(*                                                                         *)
(* A caller is one attempt of a run or one question of the report chat; it *)
(* has a client and a call log of its own. The cache is the database's and *)
(* everybody's. A run's calls are completions, which carry a schema; the   *)
(* chat streams. A prompt stands for what the cache key is made of.        *)
(***************************************************************************)
EXTENDS Naturals, FiniteSets

CONSTANTS Attempts,    \* attempts of runs
          Questions,   \* questions of the chat
          Prompts,     \* what is asked
          Sizes,       \* tokens one send may cost
          MaxSize,     \* the largest of them
          Budget,      \* max_tokens_per_run
          MaxQuestions, \* max_questions_per_run, of one person about one run
          MaxSends     \* bound: posts one caller makes before it stops asking

Callers == Attempts \cup Questions

ASSUME CallsAssumption ==
    /\ Attempts \cap Questions = {}
    /\ MaxSize \in Nat /\ Budget \in Nat \ {0} /\ MaxQuestions \in Nat /\ MaxSends \in Nat
    /\ Sizes \subseteq 0 .. MaxSize

MAX_RETRIES == 1

VARIABLES answer, \* llm_cache: what is kept for a prompt and a kind of caller
          call,   \* what each caller is doing
          log,    \* its CallLog, and how often it posted to the endpoint
          rows    \* llm_calls rows of each caller

callsVars == <<answer, call, log, rows>>

NewLog == [posts |-> 0, records |-> 0, tokens |-> 0, refused |-> FALSE, served |-> FALSE]

KindOf(c) == IF c \in Attempts THEN "completion" ELSE "stream"
Keys == Prompts \X {"completion", "stream"}
KeyOf(c, p) == <<p, KindOf(c)>>

CallsInit ==
    /\ answer = [k \in Keys |-> "none"]
    /\ call = [c \in Callers |-> [phase |-> "idle"]]
    /\ log = [c \in Callers |-> NewLog]
    /\ rows = [c \in Callers |-> 0]

\* execute_run: a log of its own for every attempt.
OpenAttempt(c) ==
    /\ c \in Attempts /\ call[c].phase = "idle"
    /\ call' = [call EXCEPT ![c] = [phase |-> "open"]]
    /\ UNCHANGED <<answer, log, rows>>

\* chat_answer: the rows of earlier questions are counted, this one's come at its end.
OpenQuestion(c) ==
    /\ c \in Questions /\ call[c].phase = "idle"
    /\ Cardinality({q \in Questions : rows[q] > 0}) < MaxQuestions
    /\ call' = [call EXCEPT ![c] = [phase |-> "open"]]
    /\ UNCHANGED <<answer, log, rows>>

\* _check_budget, which asks before a call and not between its sends.
MayAsk(c) == log[c].tokens < Budget

\* A run asks stage by stage; a question is one stream (answer_turn).
MayTurn(c) ==
    /\ call[c].phase = "open"
    /\ c \in Questions => log[c].records = 0 /\ ~log[c].served

(* complete and stream: a kept answer is free, and anything else starts    *)
(* with the budget. An attempt that is refused has failed.                 *)
Ask(c, p) ==
    /\ MayTurn(c) /\ log[c].posts < MaxSends
    /\ answer[KeyOf(c, p)] = "none"
    /\ call' = [call EXCEPT ![c] =
           IF MayAsk(c) THEN [phase |-> "sending", prompt |-> p, attempt |-> 0]
           ELSE [phase |-> "over budget"]]
    /\ UNCHANGED <<answer, log, rows>>

Served(c, p) ==
    /\ MayTurn(c)
    /\ answer[KeyOf(c, p)] # "none"
    /\ log' = [log EXCEPT ![c].served = TRUE]
    /\ UNCHANGED <<answer, call, rows>>

\* A send as the log has it: one record, and the posts it took. The first guided request
\* an endpoint refuses is posted again without the schema, and none is guided after it.
Logged(c, size, refusal) ==
    [posts   |-> log[c].posts + (IF refusal THEN 2 ELSE 1),
     records |-> log[c].records + 1,
     tokens  |-> log[c].tokens + size,
     refused |-> log[c].refused \/ refusal,
     served  |-> log[c].served]

Sending(c, kind, refusal) ==
    /\ call[c].phase = "sending" /\ KindOf(c) = kind
    /\ refusal => kind = "completion" /\ ~log[c].refused

\* The cache is written in a transaction of its own; a write that fails is forgiven.
Stored(c, what) ==
    answer' \in {answer, [answer EXCEPT ![KeyOf(c, call[c].prompt)] = what]}

Back(c) == call' = [call EXCEPT ![c] = [phase |-> "open"]]

(* _send_with_retry: an answer that validates.                             *)
Answered(c, size, refusal) ==
    /\ Sending(c, "completion", refusal)
    /\ log' = [log EXCEPT ![c] = Logged(c, size, refusal)]
    /\ Stored(c, "whole")
    /\ Back(c)
    /\ UNCHANGED rows

(* An answer that does not: asked once more, then an error.                *)
Rejected(c, size, refusal) ==
    /\ Sending(c, "completion", refusal)
    /\ log' = [log EXCEPT ![c] = Logged(c, size, refusal)]
    /\ IF call[c].attempt < MAX_RETRIES
       THEN call' = [call EXCEPT ![c].attempt = call[c].attempt + 1]
       ELSE Back(c)
    /\ UNCHANGED <<answer, rows>>

(* The endpoint failed or timed out: recorded without tokens, not retried. *)
SendFails(c, refusal) ==
    /\ Sending(c, "completion", refusal)
    /\ log' = [log EXCEPT ![c] = Logged(c, 0, refusal)]
    /\ Back(c)
    /\ UNCHANGED <<answer, rows>>

(* stream: read to its end, and only then kept.                            *)
Streamed(c, size) ==
    /\ Sending(c, "stream", FALSE)
    /\ log' = [log EXCEPT ![c] = Logged(c, size, FALSE)]
    /\ Stored(c, "whole")
    /\ Back(c)
    /\ UNCHANGED rows

\* Faulty variant: a stream nobody read to its end leaves no record.
ReaderLeavesUnrecorded(c, size) ==
    /\ Sending(c, "stream", FALSE)
    /\ log' = [log EXCEPT ![c].posts = log[c].posts + 1, ![c].tokens = log[c].tokens + size]
    /\ Back(c)
    /\ UNCHANGED <<answer, rows>>

(* stream: the endpoint fails, or the reader leaves, after some pieces.    *)
ReaderLeaves(c, size) ==
    /\ Sending(c, "stream", FALSE)
    /\ log' = [log EXCEPT ![c] = Logged(c, size, FALSE)]
    /\ Back(c)
    /\ UNCHANGED <<answer, rows>>

----------------------------------------------------------------------------
(* record_calls: with the run's last transaction, failed or not, and when  *)
(* the chat's stream is closed, however it is closed.                      *)
RecordCalls(c) ==
    /\ call[c].phase \in {"open", "over budget"}
    /\ call' = [call EXCEPT ![c] = [phase |-> "closed"]]
    /\ rows' = [rows EXCEPT ![c] = log[c].records + (IF log[c].served THEN 1 ELSE 0)]
    /\ UNCHANGED <<answer, log>>

\* The process dies: what was kept is kept, and the log is lost.
Dies(c) ==
    /\ call[c].phase \in {"open", "sending", "over budget"}
    /\ call' = [call EXCEPT ![c] = [phase |-> "lost"]]
    /\ UNCHANGED <<answer, log, rows>>

CallsNext ==
    \E c \in Callers :
        \/ OpenAttempt(c) \/ OpenQuestion(c)
        \/ \E p \in Prompts : Ask(c, p) \/ Served(c, p)
        \/ \E size \in Sizes :
               \/ \E refusal \in BOOLEAN : Answered(c, size, refusal) \/ Rejected(c, size, refusal)
               \/ Streamed(c, size) \/ ReaderLeaves(c, size)
        \/ \E refusal \in BOOLEAN : SendFails(c, refusal)
        \/ RecordCalls(c) \/ Dies(c)

CallsSpec == CallsInit /\ [][CallsNext]_callsVars

----------------------------------------------------------------------------
Phases == {"idle", "open", "over budget", "closed", "lost"}
ACall == [phase : Phases]
         \cup [phase : {"sending"}, prompt : Prompts, attempt : 0 .. MAX_RETRIES]
ALog == [posts : Nat, records : Nat, tokens : Nat, refused : BOOLEAN, served : BOOLEAN]

\* The types of the cache, the calls, the logs and the rows.
CallsTypeOK ==
    /\ answer \in [Keys -> {"none", "whole"}]
    /\ call \in [Callers -> ACall]
    /\ log \in [Callers -> ALog]
    /\ rows \in [Callers -> Nat]

\* What a caller spends is on its log and within the budget: every post to the endpoint
\* has its record, the abandoned and the rejected ones included, but for the one a
\* guided request may waste; and the budget is overrun by less than the sends of one
\* call, since it is asked about before a call only.
SpendIsOnTheLog ==
    \A c \in Callers :
        /\ log[c].posts = log[c].records + (IF log[c].refused THEN 1 ELSE 0)
        /\ log[c].tokens < Budget + (MAX_RETRIES + 1) * MaxSize
====
