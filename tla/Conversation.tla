---------------------------- MODULE Conversation ----------------------------
(***************************************************************************)
(* How the conversation of a run is kept inside its context budget         *)
(* (hudson-core/context.rs, hudson-harness/context.rs): large results      *)
(* become artifacts, and the oldest complete exchanges move to an archive  *)
(* whose index the model sees.                                             *)
(*                                                                         *)
(* An exchange is a batch of tool calls with all its results, named by its *)
(* number in the conversation; sizes are in units of the budget, and the   *)
(* instructions, the task, an archive index and a reference to an artifact *)
(* take one each.  The digest that names an artifact is its content.       *)
(***************************************************************************)
EXTENDS Naturals, Sequences, SequencesExt

CONSTANTS
    Window,        \* max_context_bytes
    OffloadSize,   \* offload_bytes: the largest result the model sees whole
    Recent         \* recent_exchanges: complete exchanges never archived

ASSUME ConversationAssumption ==
    /\ Window \in Nat
    /\ OffloadSize \in Nat
    /\ Recent \in Nat

NoArchive == [kind |-> "none"]

ToolOutput(n) == [kind |-> "tool_output", value |-> n]

\* offload: what a history keeps of an exchange, and the artifacts it leaves.
Offloaded(exchange) ==
    IF exchange.size > OffloadSize
    THEN [n |-> exchange.n, size |-> 1, artifact |-> TRUE]
    ELSE [n |-> exchange.n, size |-> exchange.size, artifact |-> FALSE]

Outputs(exchange) ==
    IF exchange.size > OffloadSize THEN {ToolOutput(exchange.n)} ELSE {}

\* The artifact of an archived exchange links to what was archived before it.
Exchange(previous, exchange) ==
    [kind |-> "conversation_exchange", previous |-> previous, exchange |-> exchange]

\* The archive before the first exchange, and after each.
Chain(archive, exchanges) ==
    LET chain[i \in 0..Len(exchanges)] ==
            IF i = 0 THEN archive ELSE Exchange(chain[i - 1], exchanges[i])
    IN chain

Archived(archive, exchanges) == Chain(archive, exchanges)[Len(exchanges)]

Weight(history) == FoldLeft(LAMBDA sum, exchange : sum + exchange.size, 0, history)

\* The request the model gets: instructions with the evidence of the run, task,
\* archive index, exchanges, and the results it has just got.
Fits(evidence, archive, history) ==
    2 + evidence + (IF archive = NoArchive THEN 0 ELSE 1) + Weight(history) <= Window

\* History once its k oldest exchanges are archived, and the new ones appended.
Shortened(archive, history, new, k) ==
    [archive |-> Archived(archive, SubSeq(history, 1, k)),
     history |-> SubSeq(history, k + 1, Len(history)) \o new]

\* context::advance: the fewest exchanges are archived that make the request
\* fit, and the recent ones stay.  The new ones are not complete before it.
Enough(evidence, archive, history, new) ==
    {k \in 0..Len(history) :
        /\ k = 0 \/ Len(history) - k >= Recent
        /\ LET s == Shortened(archive, history, new, k)
           IN Fits(evidence, s.archive, s.history)}

Fewest(counts) == CHOOSE k \in counts : \A l \in counts : k <= l

\* Every archive on the way from one archive to another.
Between(archive, history, k) ==
    {Archived(archive, SubSeq(history, 1, i)) : i \in 1..k}

=============================================================================
