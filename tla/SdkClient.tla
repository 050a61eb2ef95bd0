----------------------------- MODULE SdkClient ------------------------------
(***************************************************************************)
(* The SDK between the application and its transport: the module-level     *)
(* API, the exception hooks a client installs and the scopes kept in a     *)
(* context variable (nirikshan_sdk/client.py), with the ASGI middleware    *)
(* (integrations/asgi.py).                                                 *)
(*                                                                         *)
(* One thread opens and closes clients, the others capture what they like  *)
(* and die of uncaught exceptions; requests are asyncio tasks.  A scope is *)
(* an object that contexts refer to: a task starts with a copy of its      *)
(* parent's context and so with the same scope, a thread with none.  A     *)
(* context makes one scope at most, which is named for it.  Breadcrumbs,   *)
(* tags and users are kept in the same way; a breadcrumb is told apart by  *)
(* the context that left it.                                               *)
(***************************************************************************)
EXTENDS SequencesExt, FiniteSetsExt

CONSTANTS Requests,       \* tasks that handle a request
          Threads,        \* threads of the application
          MaxClients,     \* bound on clients
          MaxBreadcrumbs, \* max_breadcrumbs
          MaxEvents       \* bound on events
ASSUME SdkAssumption == MaxClients \in Nat /\ MaxBreadcrumbs \in Nat \ {0} /\ MaxEvents \in Nat

Main == "main"
Contexts == {Main} \cup Requests \cup Threads \* a scope is named for the context that made it
Hook == {"sys", "thread"} \* sys.excepthook and threading.excepthook
None == 0                 \* no client, no hook
NoScope == "no scope"
Application == -1         \* the hook the application has itself
Nobody == -2              \* no hook is called any more

VARIABLES client,         \* _client
          clients,        \* all there were: open or not, and what they restore
          hooks,          \* the hooks installed, the application's own at first
          opener,         \* where the thread in init or close is
          scope,          \* the context variable of every context
          scopes,         \* the breadcrumbs of every scope object
          running,        \* what a context is doing
          events          \* what was submitted

clientVars == <<client, clients, hooks, opener, scope, scopes, running, events>>

Ready == [at |-> "ready", client |-> None]
Clients == DOMAIN clients

ClientInit ==
  /\ client = None /\ clients = <<>> /\ hooks = [k \in Hook |-> Application]
  /\ opener = "ready"
  /\ scope = [c \in Contexts |-> NoScope] /\ scopes = [c \in Contexts |-> <<>>]
  /\ running = [c \in Contexts |-> IF c \in Requests THEN [Ready EXCEPT !.at = "unborn"] ELSE Ready]
  /\ events = <<>>

\* --------------------------- opening and closing clients ---------------------------
\* Whoever is in a hook now goes on with the hooks of a moment ago.
Disturbed ==
  [c \in Contexts |-> IF running[c].at \in {"hook", "captured"}
                      THEN [running[c] EXCEPT !.disturbed = TRUE] ELSE running[c]]

\* Deviation: threading.excepthook is left as it is.
Uninstall_Sys(c) ==
  /\ hooks' = [hooks EXCEPT !["sys"] = clients[c].orig["sys"]]
  /\ clients' = [clients EXCEPT ![c] = [open |-> FALSE, orig |-> [k \in Hook |-> None]]]
  /\ running' = Disturbed

\* _uninstall_hooks, of a client that has installed them.
Uninstall(c) ==
  /\ hooks' = [k \in Hook |-> IF clients[c].orig[k] = None THEN hooks[k] ELSE clients[c].orig[k]]
  /\ clients' = [clients EXCEPT ![c] = [open |-> FALSE, orig |-> [k \in Hook |-> None]]]
  /\ running' = Disturbed

\* Deviation: init leaves the client there is alone.
Supersedes_Leaves(c) == UNCHANGED <<hooks, clients, running>>

\* init closes the client there is.
Supersedes(c) == Uninstall(c)

InitBegins ==
  /\ opener = "ready" /\ Len(clients) < MaxClients /\ opener' = "install"
  /\ IF client = None THEN UNCHANGED <<hooks, clients, running>> ELSE Supersedes(client)
  /\ UNCHANGED <<client, scope, scopes, events>>

\* _install_hooks of the new client.
InitInstalls ==
  /\ opener = "install" /\ opener' = "publish"
  /\ clients' = Append(clients, [open |-> TRUE, orig |-> hooks])
  /\ hooks' = [k \in Hook |-> Len(clients) + 1]
  /\ UNCHANGED <<client, scope, scopes, running, events>>

\* A bad argument: the client that was closed stays the one of the module.
InitFails ==
  /\ opener = "install" /\ opener' = "ready"
  /\ UNCHANGED <<client, clients, hooks, scope, scopes, running, events>>

InitPublishes ==
  /\ opener = "publish" /\ opener' = "ready" /\ client' = Len(clients)
  /\ UNCHANGED <<clients, hooks, scope, scopes, running, events>>

CloseBegins ==
  /\ opener = "ready" /\ client # None /\ opener' = "forget"
  /\ Uninstall(client)
  /\ UNCHANGED <<client, scope, scopes, events>>

CloseForgets ==
  /\ opener = "forget" /\ opener' = "ready" /\ client' = None
  /\ UNCHANGED <<clients, hooks, scope, scopes, running, events>>

\* ------------------------------------- scopes -------------------------------------
\* current_scope: made when it is first asked for.
ScopeOf(c) == IF scope[c] = NoScope THEN c ELSE scope[c]

\* add_breadcrumb: the last max_breadcrumbs are kept.
Noted(c, table, s) ==
  [table EXCEPT ![s] = SubSeq(Append(@, c), Max({1, Len(@) + 2 - MaxBreadcrumbs}), Len(@) + 1)]

Note(c) ==
  /\ running[c].at = "ready" /\ client # None
  /\ scope' = [scope EXCEPT ![c] = ScopeOf(c)]
  /\ scopes' = Noted(c, scopes, ScopeOf(c))
  /\ UNCHANGED <<client, clients, hooks, opener, running, events>>

\* Deviation: the request goes on with the scope of the context it was copied from.
RequestScope_Current(c) == ScopeOf(Main)

\* new_scope.
RequestScope(c) == c

\* The middleware, in the task the server starts for a request: a scope, a breadcrumb, and
\* the client of now for as long as the request runs.
BeginRequest(c) ==
  /\ running[c].at = "unborn" /\ running' = [running EXCEPT ![c] = [at |-> "ready", client |-> client]]
  /\ scope' = [scope EXCEPT ![c] = RequestScope(c)]
  /\ scopes' = IF client = None THEN scopes ELSE Noted(c, scopes, RequestScope(c))
  /\ UNCHANGED <<client, clients, hooks, opener, events>>

\* ------------------------------------- capture -------------------------------------
\* _finish: the event takes a copy of the scope; sampling and before_send may drop it.
EventOf(c) == [context |-> c, crumbs |-> scopes[ScopeOf(c)]]

Finish(c) ==
  /\ scope' = [scope EXCEPT ![c] = ScopeOf(c)]
  /\ \/ Len(events) < MaxEvents /\ events' = Append(events, EventOf(c))
     \/ UNCHANGED events

\* The module's functions look at _client and then use it: two reads.
Looks(c) ==
  /\ running[c].at = "ready" /\ client # None
  /\ running' = [running EXCEPT ![c].at = "uses"]
  /\ UNCHANGED <<client, clients, hooks, opener, scope, scopes, events>>

Captures(c) ==
  /\ running[c].at = "uses"
  /\ IF client = None THEN UNCHANGED <<scope, events>> ELSE Finish(c)
  /\ running' = [running EXCEPT ![c].at = IF client = None THEN "raised" ELSE "ready"]
  /\ UNCHANGED <<client, clients, hooks, opener, scopes>>

\* An exception leaves the request: the middleware captures it with the client it began with.
Fails(c) ==
  /\ c \in Requests /\ running[c].at = "ready" /\ running' = [running EXCEPT ![c].at = "done"]
  /\ IF running[c].client = None THEN UNCHANGED <<scope, events>> ELSE Finish(c)
  /\ UNCHANGED <<client, clients, hooks, opener, scopes>>

\* -------------------------------- uncaught exceptions --------------------------------
\* A thread ends in threading.excepthook, the main one in sys.excepthook.
HookOf(c) == IF c = Main THEN "sys" ELSE "thread"

Dies(c) ==
  /\ c \notin Requests /\ running[c] = Ready
  /\ running' = [running EXCEPT ![c] =
       [at |-> "hook", next |-> hooks[HookOf(c)], by |-> <<>>, disturbed |-> FALSE]]
  /\ UNCHANGED <<client, clients, hooks, opener, scope, scopes, events>>

\* A client's hook captures, and flushes;
RunHook(c) ==
  /\ running[c].at = "hook" /\ running[c].next \in Clients
  /\ Finish(c)
  /\ running' = [running EXCEPT ![c].at = "captured", ![c].by = Append(@, running[c].next)]
  /\ UNCHANGED <<client, clients, hooks, opener, scopes>>

\* and then calls what was installed before it: what it finds so late.  The main thread's
\* falls back on the interpreter's own.
PassOn(c) ==
  /\ running[c].at = "captured"
  /\ LET before == clients[running[c].next].orig[HookOf(c)]
     IN  running' = [running EXCEPT ![c].next =
           IF before = None THEN Nobody ELSE before,
           ![c].at = "hook"]
  /\ UNCHANGED <<client, clients, hooks, opener, scope, scopes, events>>

Reported(c) ==
  /\ running[c].at = "hook" /\ running[c].next \notin Clients
  /\ running' = [running EXCEPT ![c].at = "dead"]
  /\ UNCHANGED <<client, clients, hooks, opener, scope, scopes, events>>

Step(c) ==
  \/ Note(c) \/ BeginRequest(c) \/ Looks(c) \/ Captures(c) \/ Fails(c)
  \/ Dies(c) \/ RunHook(c) \/ PassOn(c) \/ Reported(c)

ClientNext ==
  \/ InitBegins \/ InitInstalls \/ InitFails \/ InitPublishes \/ CloseBegins \/ CloseForgets
  \/ \E c \in Contexts : Step(c)

ClientSpec == ClientInit /\ [][ClientNext]_clientVars

\* --------------------------------- properties ---------------------------------
\* What README.md of the SDK promises of concurrent requests: an event of a request has
\* its own breadcrumbs only, and no other event has them, whatever ran before it in the
\* context it started from.
RequestsAreIsolated ==
  \A n \in DOMAIN events : \A b \in ToSet(events[n].crumbs) :
    {b, events[n].context} \cap Requests # {} => b = events[n].context

\* Whatever sequence of init and close: no hook is ever that of a closed client, and with
\* no client left the application has its own hooks back.
HooksAreRestored ==
  /\ \A k \in Hook : hooks[k] \in Clients => clients[hooks[k]].open
  /\ (opener = "ready" /\ client = None) => \A k \in Hook : hooks[k] = Application

\* An uncaught exception is captured by one client at most and reaches the hook the
\* application had, unless a client is closed while it is being reported.
UncaughtIsReportedOnce ==
  \A c \in Contexts :
    (running[c].at = "dead" /\ ~ running[c].disturbed) =>
      running[c].next = Application /\ Len(running[c].by) <= 1
=============================================================================
