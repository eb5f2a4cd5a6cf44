--------------------------- MODULE MCPublication ---------------------------
(***************************************************************************)
(* Values of the constants of Publication for TLC: two hosts with the same *)
(* connection and different defaults, a customer whose agent is sent to    *)
(* both, and an operator whose configuration and whose trusted host use an *)
(* agent of the same name.                                                 *)
(***************************************************************************)
EXTENDS Publication

CONSTANTS h1, h2, lookup, first, retry, other

Crm == [effect |-> "write", approval |-> TRUE, transport |-> "http", endpoint |-> "crm"]
HostCatalog(limits) ==
    [models |-> [m \in {"mini"} |-> "openai"],
     connections |-> [c \in {"crm"} |-> Crm],
     limits |-> limits,
     calls |-> 2]
TwoHosts == [h \in {h1, h2} |-> HostCatalog(IF h = h1 THEN 2 ELSE 3)]

Lookup ==
    [name |-> "lookup", alias |-> "lookup", connection |-> "crm", effect |-> "write",
     approval |-> "required", outputSchema |-> TRUE]

CustomerNode(text, tools, kids, context) ==
    [text |-> text, model |-> "mini", tools |-> tools, kids |-> kids, memory |-> FALSE,
     context |-> context, limits |-> 0, budget |-> 0]
Desk ==
    [root |-> "desk",
     nodes |-> [n \in {"desk", "helper"} |->
        IF n = "desk" THEN CustomerNode("answer", {"lookup"}, {"helper"}, FALSE)
        ELSE CustomerNode("help", {}, {}, TRUE)]]

HostNode(text, memory) ==
    [text |-> text, model |-> "openai", limits |-> 2, memory |-> memory, context |-> FALSE,
     kids |-> {}, tools |-> {}]
Trust(root, text, limit) ==
    [root |-> root, source |-> NoSource, group |-> <<"host", root>>, calls |-> limit,
     nodes |-> [n \in {root} |-> HostNode(text, root = "intake")]]
Intake == Trust("intake", "sort", 1)
HelperAlone == Trust("helper", "help", 2)

Asking(kind, key, definition) == [kind |-> kind, key |-> key, definition |-> definition]
SameOrChanged(kind, key, definition, changed) ==
    {Asking(kind, key, definition), Asking(kind, key, changed)}
Changed(agent) == [agent EXCEPT !.nodes["desk"].text = "changed"]
AllBodies ==
    [r \in {lookup, first, retry, other} |->
        CASE r = lookup -> {Asking("tool", "t", Lookup)}
          [] r = first -> {Asking("agent", "a", Desk)}
          [] r = retry -> SameOrChanged("agent", "a", Desk, Changed(Desk))
          [] r = other ->
                SameOrChanged("tool", "t", Lookup, [Lookup EXCEPT !.outputSchema = FALSE])
                \cup {Asking("configuration", "c", Intake)}]

TwoRuns == {[ref |-> "desk", key |-> "q1"], [ref |-> "intake", key |-> "q2"]}
LookupPolicy == {PolicyKey("desk", "lookup")}

\* Bounds of the model.  At most two requests, activities and startup builds are
\* under way at once; and once there are runs, at most two of: a run, a request
\* without a receipt, a host that does not serve, an unfinished startup, a death.
UnderWay ==
    Cardinality({r \in Requests : request[r].host # "none"})
    + Cardinality({x \in Executors : executor[x].pc # "idle"})
    + (IF startup = "building" /\ ensured # {} THEN 1 ELSE 0)
Unsettled ==
    Cardinality({r \in Requests : request[r].pc # "published"})
    + Cardinality(Hosts \ serving)
    + (IF startup = "building" THEN 1 ELSE 0)
TwoAtOnce ==
    /\ UnderWay <= 2
    /\ runs # EmptyMap => Cardinality(DOMAIN runs) + Unsettled + deaths <= 2
=============================================================================
