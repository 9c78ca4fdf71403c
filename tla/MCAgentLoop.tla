---------------------------- MODULE MCAgentLoop ----------------------------
(* Instances of AgentLoop for TLC: the calls the model may make, and the   *)
(* descriptions of the plan, one of them written with a leading space.     *)
EXTENDS AgentLoop

Verb(name, valid, goals) ==
    [name |-> name, valid |-> valid, tool |-> UnknownTool, goals |-> goals, iterable |-> TRUE]

LoadCall(t, valid) == [Verb(LOAD, valid, {}) EXCEPT !.tool = t]

ToolUses == {Verb(t, TRUE, {}) : t \in Tools \cup {UnknownTool}}

(* Discovery: searches, loads that succeed, fail, or are malformed, and    *)
(* tools called with or without having been loaded.                        *)
DiscoveryCalls ==
    {Verb(SEARCH, valid, {}) : valid \in BOOLEAN}
        \cup {LoadCall(t, TRUE) : t \in Tools \cup {UnknownTool}}
        \cup {LoadCall(t, FALSE) : t \in Tools}
        \cup ToolUses

(* The plan and the end of the run: verbs accepted, and verbs the registry *)
(* rejects although they carry sub-goals, or nothing a `for` can walk.     *)
PlanCalls ==
    {Verb(PLANADD, valid, {g}) : valid \in BOOLEAN, g \in Goals}
        \cup {Verb(PLANADD, TRUE, Goals), Verb(PLANADD, FALSE, {})}
        \cup {[Verb(PLANADD, FALSE, {}) EXCEPT !.iterable = FALSE]}
        \cup {Verb(PLANRESOLVE, valid, {g}) : valid \in BOOLEAN, g \in Goals}
        \cup {Verb(PLANRESOLVE, TRUE, {})}

FinishCalls == {Verb(FINISH, valid, {}) : valid \in BOOLEAN}

AllCalls == DiscoveryCalls \cup PlanCalls \cup FinishCalls
MemoryCalls == ToolUses \cup {Verb(PLANADD, TRUE, Goals), Verb(FINISH, TRUE, {})}

(* " fix" is "fix" written with a leading space.                           *)
StripSpace(g) == IF g = " fix" THEN "fix" ELSE g
=============================================================================
