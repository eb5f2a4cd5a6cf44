---------------------------- MODULE HarnessLoop ----------------------------
(***************************************************************************)
(* The portable agent loop of hudson-harness: model -> tools -> model ->   *)
(* verify -> complete (crates/hudson-harness/src/agent_loop.rs), and the   *)
(* engine that accepts one transition per checkpoint step (engine.rs).     *)
(*                                                                         *)
(* The loop performs no effect: given the phase stored in the checkpoint   *)
(* and the input the runtime collected, it returns the next phase and the  *)
(* action it proposes, or an error.  Messages, arguments and tool names    *)
(* are abstracted: a batch of tool calls is its length, a final answer is  *)
(* a member of Outputs.                                                    *)
(***************************************************************************)
EXTENDS Naturals

CONSTANTS
    Outputs,         \* final answers a model can give
    NoOutput,        \* stands for the absent answer
    CallCounts,      \* the batch lengths a model can ask for
    AllowUserInput   \* Config::allow_user_input, pinned with the agent

ASSUME OutputsAssumption == NoOutput \notin Outputs
ASSUME CallCountsAssumption == CallCounts \subseteq Nat \ {0}
ASSUME AllowUserInputAssumption == AllowUserInput \in BOOLEAN

MaybeOutput == Outputs \cup {NoOutput}

(***************************************************************************)
(* Input.  The model's response is split by what the loop does with it:    *)
(* "calls" is a batch of n well-formed calls to advertised tools, "ask" is *)
(* ask_user alone, "badcalls" is every batch that the loop or the commit   *)
(* of the step refuses (empty or duplicate ids, ask_user with companions,  *)
(* an unregistered tool, arguments that fail the tool's schema).           *)
(***************************************************************************)
InputKinds == {"none", "start", "calls", "badcalls", "ask", "final",
               "tools", "passed", "rejected", "user"}
Input == [kind : InputKinds, n : Nat, out : MaybeOutput]

InputOf(kind, n, out) == [kind |-> kind, n |-> n, out |-> out]
NoInput == InputOf("none", 0, NoOutput)

ModelResponses ==
    {InputOf("calls", n, NoOutput) : n \in CallCounts}
        \cup {InputOf("final", 0, o) : o \in Outputs}
        \cup {InputOf("badcalls", 0, NoOutput), InputOf("ask", 0, NoOutput)}

(***************************************************************************)
(* Phase: the part of the checkpoint payload that is not history.          *)
(***************************************************************************)
PhaseNames == {"start", "model", "tools", "user", "verification", "done"}
Phase == [at : PhaseNames, n : Nat, out : MaybeOutput]

PhaseOf(at, n, out) == [at |-> at, n |-> n, out |-> out]
StartPhase == PhaseOf("start", 0, NoOutput)
ModelPhase == PhaseOf("model", 0, NoOutput)

ActionKinds == {"call_model", "execute_tools", "verify", "wait", "complete",
                "error"}
Transition == [phase : Phase, action : ActionKinds]

Moves(phase, action) == [phase |-> phase, action |-> action]

(***************************************************************************)
(* AgentLoop::advance.  Every pair the match does not list is the error    *)
(* "input does not match the pending loop action"; the phase it carries is *)
(* never stored.                                                           *)
(***************************************************************************)
Advance(phase, input) ==
    CASE phase.at = "start" /\ input.kind = "start" ->
            Moves(ModelPhase, "call_model")
      [] phase.at = "model" /\ input.kind = "calls" ->
            Moves(PhaseOf("tools", input.n, NoOutput), "execute_tools")
      [] phase.at = "model" /\ input.kind = "ask" /\ AllowUserInput ->
            Moves(PhaseOf("user", 0, NoOutput), "wait")
      [] phase.at = "user" /\ input.kind = "user" ->
            Moves(ModelPhase, "call_model")
      [] phase.at = "tools" /\ input.kind = "tools" /\ input.n = phase.n ->
            Moves(ModelPhase, "call_model")
      [] phase.at = "model" /\ input.kind = "final" ->
            Moves(PhaseOf("verification", 0, input.out), "verify")
      [] phase.at = "verification" /\ input.kind = "passed" ->
            Moves(PhaseOf("done", 0, phase.out), "complete")
      [] phase.at = "verification" /\ input.kind = "rejected" ->
            Moves(ModelPhase, "call_model")
      [] OTHER -> Moves(phase, "error")

(***************************************************************************)
(* The inputs that some arm of the match takes in a phase: the protocol    *)
(* between the loop and its host.                                          *)
(***************************************************************************)
Expects(phase, input) ==
    \/ phase.at = "start" /\ input.kind = "start"
    \/ phase.at = "model" /\ input.kind \in {"calls", "badcalls", "ask", "final"}
    \/ phase.at = "user" /\ input.kind = "user"
    \/ phase.at = "tools" /\ input.kind = "tools" /\ input.n = phase.n
    \/ phase.at = "verification" /\ input.kind \in {"passed", "rejected"}
=============================================================================
