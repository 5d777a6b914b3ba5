---------------------------- MODULE FuzzHarness ----------------------------
(***************************************************************************)
(* One execution of a D1 action sequence: the harness of the api under     *)
(* test (update_hook or create_scalar_function) applies the actions to a   *)
(* connection and to the objects a callback captures, stops at the first   *)
(* one that is not possible, cleans up, and has the events judged by the   *)
(* oracle.  Besides it, the corpus audit, which looks at a sequence only.  *)
(*                                                                         *)
(* An Option of the code is a sequence of length 0 or 1.  An instance id   *)
(* is its site with the position of the event that introduces it.          *)
(* Checkpoints and the opening and closing of the trace are left out.      *)
(***************************************************************************)
EXTENDS Naturals, Sequences, FiniteSets

ApiKinds == {"update_hook", "create_scalar_function"}
SqlOps == {"insert", "update", "delete", "select_scalar"}

\* FuzzAction: a kind and what it is applied to.
Action(kind, arg) == [kind |-> kind, arg |-> arg]
FuzzActions ==
    {Action(k, "none") : k \in {"open_connection", "create_table", "create_borrowed_state",
                                "end_owner_scope", "close_connection"}}
    \cup {Action(k, api) : k \in {"register_borrowed", "register_owned", "unregister"}, api \in ApiKinds}
    \cup {Action("execute_sql", op) : op \in SqlOps}

Event(kind, site, id) == [kind |-> kind, site |-> site, id |-> id]

\* The harness and the wrapper of the connection (UpdateHookConnection or
\* ScalarFunctionConnection) as `new' makes them.
NewHarness ==
    [owner     |-> <<>>,  \* the open connection, in SQLite and in the wrapper
     table     |-> FALSE,
     borrowed  |-> <<>>,  \* borrowed_state
     owned     |-> <<>>,  \* owned_state
     retained  |-> <<>>,  \* the callback the wrapper retains
     token     |-> <<>>,  \* current_token
     installed |-> <<>>,  \* the callback SQLite calls
     stopped   |-> FALSE, \* an action was refused
     trace     |-> <<>>]

Emit(h, events) == [h EXCEPT !.trace = @ \o events]
NextId(h) == Len(h.trace) + 1
Each(kind, site, ids) == [i \in DOMAIN ids |-> Event(kind, site, ids[i])]

\* What SQLite runs the installed callback for; the update of a row and its
\* deletion insert it first, which is the same call once more.
Calls(api, op) ==
    IF api = "update_hook" THEN op \in {"insert", "update", "delete"} ELSE op = "select_scalar"

\* Tracked::new
Track(h, site) ==
    [Emit(h, <<Event("create", site, NextId(h))>>) EXCEPT ![site] = <<NextId(h)>>]

\* Register with the wrapper, which releases the callback it retains, bind the
\* object of `site', install the callback in SQLite.
Register(h, site) ==
    LET released == Emit(h, Each("unregister", "owner", h.retained))
        c == NextId(released)
        bind == [kind |-> "bind", site |-> site, id |-> c, object |-> Head(h[site])]
    IN [Emit(released, <<Event("register", "owner", c), bind>>)
           EXCEPT !.retained = <<c>>, !.token = <<c>>, !.installed = <<c>>]

Close(h) ==
    [Emit(h, Each("unregister", "owner", h.retained) \o Each("drop", "owner", h.owner))
        EXCEPT !.owner = <<>>, !.retained = <<>>, !.token = <<>>, !.installed = <<>>, !.table = FALSE]

DropState(h) ==
    [Emit(h, Each("drop", "borrowed", h.borrowed) \o Each("drop", "owned", h.owned))
        EXCEPT !.borrowed = <<>>, !.owned = <<>>]

\* The early returns of the operations, none of which has changed anything yet.
Possible(api, h, a) ==
    CASE a.kind = "open_connection"       -> h.owner = <<>>
      [] a.kind = "create_table"          -> h.owner # <<>> /\ ~h.table
      [] a.kind = "create_borrowed_state" -> h.borrowed = <<>>
      [] a.kind = "register_borrowed"     -> a.arg = api /\ h.owner # <<>> /\ h.borrowed # <<>>
      [] a.kind = "register_owned"        -> a.arg = api /\ h.owner # <<>>
      [] a.kind = "unregister"            -> a.arg = api /\ h.owner # <<>> /\ h.token # <<>>
      [] a.kind = "end_owner_scope"       -> h.borrowed # <<>> \/ h.owned # <<>>
      [] a.kind = "execute_sql"           ->
             /\ h.owner # <<>>
             /\ IF api = "update_hook" THEN h.table ELSE Calls(api, a.arg) /\ h.installed # <<>>
      [] a.kind = "close_connection"      -> h.owner # <<>>

Effect(api, h, a) ==
    CASE a.kind = "open_connection"       -> Track(h, "owner")
      [] a.kind = "create_table"          -> [h EXCEPT !.table = TRUE]
      [] a.kind = "create_borrowed_state" -> Track(h, "borrowed")
      [] a.kind = "register_borrowed"     -> Register(h, "borrowed")
      [] a.kind = "register_owned"        ->
             Register(IF h.owned = <<>> THEN Track(h, "owned") ELSE h, "owned")
      [] a.kind = "unregister"            ->
             LET c == IF api = "update_hook" THEN h.token ELSE h.retained
             IN [Emit(h, Each("unregister", "owner", c))
                    EXCEPT !.token = <<>>, !.installed = <<>>,
                           !.retained = IF @ = c THEN <<>> ELSE @]
      [] a.kind = "end_owner_scope"       -> DropState(h)
      [] a.kind = "execute_sql"           ->
             IF Calls(api, a.arg) THEN Emit(h, Each("invoke", "owner", h.installed)) ELSE h
      [] a.kind = "close_connection"      -> Close(h)

Apply(api, h, a) ==
    IF h.stopped THEN h
    ELSE IF Possible(api, h, a) THEN Effect(api, h, a)
    ELSE [h EXCEPT !.stopped = TRUE]

\* The harness after each number of actions.
Harnesses(api, actions) ==
    LET after[n \in 0..Len(actions)] ==
            IF n = 0 THEN NewHarness ELSE Apply(api, after[n - 1], actions[n])
    IN after

\* effective_actions, what is reported of them: those before one is refused.
EffectiveActions(api, actions) ==
    Cardinality({n \in 1..Len(actions) : ~Harnesses(api, actions)[n].stopped})

\* run_update_hook_sequence and run_scalar_function_sequence.
Execute(api, actions) == DropState(Close(Harnesses(api, actions)[Len(actions)]))

-----------------------------------------------------------------------------
(* The objective.  The harness drops an object once, under a complete      *)
(* contract, and emits neither uses nor frees: what OracleTrace expects of *)
(* such a trace is LIFE-002 for an invocation after the end of a borrow,   *)
(* the one primary finding, always with the same signature for an api.     *)

IsPrimary(trace) ==
    \E b \in DOMAIN trace :
        /\ trace[b].kind = "bind" /\ trace[b].site = "borrowed"
        /\ \E e \in DOMAIN trace :
              /\ b < e /\ trace[e] = Event("drop", "borrowed", trace[b].object)
              /\ \E i \in DOMAIN trace : e < i /\ trace[i] = Event("invoke", "owner", trace[b].id)

\* Every call is of a callback that has not been released: invoke on a released
\* one is an error, which the installed closure turns into a panic.
CallsRetained(trace) ==
    \A i, j \in DOMAIN trace :
        trace[i].kind = "unregister" /\ trace[j].kind = "invoke" /\ i < j => trace[i].id # trace[j].id

\* MinimizationTarget::matches on what the evaluator of the api returns.
Reproduces(api, actions) == IsPrimary(Execute(api, actions).trace)

-----------------------------------------------------------------------------
(* CorpusPolicy::audit_sequence *)

TriggersApi(op, api) ==
    \/ op \in {"insert", "update", "delete"} /\ api = "update_hook"
    \/ op = "select_scalar" /\ api = "create_scalar_function"

Forget(api, kept) == IF kept = api THEN "none" ELSE kept

NewAudit == [retained |-> "none", ended |-> "none", rejected |-> FALSE]

\* Mutant: a new borrowed state is taken for the one the callback captured.
AuditActionRevived(s, a) ==
    CASE a.kind = "register_borrowed"     -> [s EXCEPT !.retained = a.arg, !.ended = "none"]
      [] a.kind = "create_borrowed_state" -> [s EXCEPT !.ended = "none"]
      [] a.kind = "unregister"            -> [s EXCEPT !.retained = Forget(a.arg, @), !.ended = Forget(a.arg, @)]
      [] a.kind = "end_owner_scope" /\ s.retained # "none" -> [s EXCEPT !.ended = s.retained]
      [] a.kind = "execute_sql" /\ TriggersApi(a.arg, s.ended) -> [s EXCEPT !.rejected = TRUE]
      [] a.kind = "close_connection"      -> [s EXCEPT !.retained = "none", !.ended = "none"]
      [] OTHER -> s

AuditAction(s, a) ==
    CASE a.kind = "register_borrowed" -> [s EXCEPT !.retained = a.arg, !.ended = "none"]
      [] a.kind = "unregister"        -> [s EXCEPT !.retained = Forget(a.arg, @), !.ended = Forget(a.arg, @)]
      [] a.kind = "end_owner_scope" /\ s.retained # "none" -> [s EXCEPT !.ended = s.retained]
      [] a.kind = "execute_sql" /\ TriggersApi(a.arg, s.ended) -> [s EXCEPT !.rejected = TRUE]
      [] a.kind = "close_connection"  -> [s EXCEPT !.retained = "none", !.ended = "none"]
      [] OTHER -> s

\* The audit after each number of actions.
Audits(actions) ==
    LET after[n \in 0..Len(actions)] ==
            IF n = 0 THEN NewAudit ELSE AuditAction(after[n - 1], actions[n])
    IN after

Audit(actions) == Audits(actions)[Len(actions)]
=============================================================================
