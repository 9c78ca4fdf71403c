---------------------------- MODULE ToolRegistry ----------------------------
(***************************************************************************)
(* Dynamic tool loading, tools/registry.py: the tools registered, those    *)
(* loaded into the model's view, and the flag behind the research-retry    *)
(* debt tag.  `dispatch` routes one tool call to a core verb or to a       *)
(* loaded tool; its verdict is "ok", the class of the ToolError the loop   *)
(* folds back, or "escape" for an exception that is not a ToolError.       *)
(* A call's arguments are abstracted to whether they satisfy the verb's    *)
(* request schema (valid), the tool a load_tool names, and the sub-goals a *)
(* plan verb carries, which a rejected call may carry as well.  The name   *)
(* of a registered tool stands for both its canonical and its OpenAI-safe  *)
(* form: with one dot per name (tools/base.py:177) the two correspond      *)
(* one to one on the catalogue.                                            *)
(***************************************************************************)
EXTENDS FiniteSets, Naturals

CONSTANTS
    Tools,            \* every tool of the namespace catalogues
    UnknownTool       \* a name no tool has

SEARCH == "search_tools"
LOAD == "load_tool"
PLANADD == "plan_add"
PLANRESOLVE == "plan_resolve"
FINISH == "finish"
CoreNames == {SEARCH, LOAD, PLANADD, PLANRESOLVE, FINISH}
ProtocolNames == {PLANADD, PLANRESOLVE, FINISH}

VARIABLES
    tools,            \* _tools
    loaded,           \* _loaded
    lastWasSearch     \* _last_was_search

vars == <<tools, loaded, lastWasSearch>>

Verdicts == {"ok", "MalformedInputError", "NotFoundError", "ToolError", "escape"}

-----------------------------------------------------------------------------
(* A core verb whose arguments fail their schema: _coerce raises before    *)
(* anything is changed.                                                    *)
Malformed(valid, verdict) ==
    /\ ~valid
    /\ verdict = "MalformedInputError"
    /\ UNCHANGED vars

(* search: ranking is a pure function of the catalogue, and changes        *)
(* nothing but the flag.                                                   *)
Search(valid, verdict) ==
    \/ Malformed(valid, verdict)
    \/ /\ valid
       /\ verdict = "ok"
       /\ lastWasSearch' = TRUE
       /\ UNCHANGED <<tools, loaded>>

(* load: an unknown name is reported before anything changes.              *)
Load(t, valid, verdict) ==
    \/ Malformed(valid, verdict)
    \/ /\ valid
       /\ t \notin tools
       /\ verdict = "NotFoundError"
       /\ UNCHANGED vars
    \/ /\ valid
       /\ t \in tools
       /\ verdict = "ok"
       /\ loaded' = loaded \cup {t}
       /\ lastWasSearch' = FALSE
       /\ UNCHANGED tools

(* plan_add, plan_resolve and finish only acknowledge.                     *)
Acknowledge(valid, verdict) ==
    \/ Malformed(valid, verdict)
    \/ /\ valid
       /\ verdict = "ok"
       /\ lastWasSearch' = FALSE
       /\ UNCHANGED <<tools, loaded>>

(* Faulty variant: a tool is found whether or not it was loaded.           *)
InvokeUnloaded(t, verdict) ==
    /\ IF t \in tools THEN verdict \in {"ok", "MalformedInputError", "ToolError", "escape"}
                      ELSE verdict = "NotFoundError"
    /\ UNCHANGED vars

(* _loaded_tool(name).invoke(...): the tool's own validation and its run   *)
(* end in a result, a ToolError, or another exception.                     *)
Invoke(t, verdict) ==
    /\ IF t \in loaded THEN verdict \in {"ok", "MalformedInputError", "ToolError", "escape"}
                       ELSE verdict = "NotFoundError"
    /\ UNCHANGED vars

Dispatch(call, verdict) ==
    \/ call.name = SEARCH /\ Search(call.valid, verdict)
    \/ call.name = LOAD /\ Load(call.tool, call.valid, verdict)
    \/ call.name \in ProtocolNames /\ Acknowledge(call.valid, verdict)
    \/ call.name \notin CoreNames /\ Invoke(call.name, verdict)
=============================================================================
