------------------------------- MODULE CallView -------------------------------
(***************************************************************************)
(* The live view of the portal (portal/src/components/LiveCall.tsx): one   *)
(* tab that follows the feed shows the call that was chosen, or that is    *)
(* streaming, or that ended last, with the signals of the feed for a call  *)
(* that is live and those of the store, through useQuery (portal/src/      *)
(* api.ts), for one that is not.                                           *)
(***************************************************************************)
EXTENDS LiveFeed

CONSTANTS
  Viewer,      (* the tab                                                   *)
  Completed    (* what /api/calls answers: calls that ended, newest first   *)

ASSUME ViewAssumption == Viewer \in Tabs /\ Completed \in Seq(STRING)

NoCall == "none"
Health == "/api/health"
Calls ==
  ToSet(Completed)
    \union UNION {{event.call : event \in ToSet(message)} : message \in ToSet(Feed)}
Request(path) == [path |-> path, cancelled |-> FALSE]

VARIABLES
  choice,   (* selected                                                     *)
  list,     (* recent: the answer of /api/calls, <<>> while there is none   *)
  query     (* of the detail: dependencies, requests on their way, data     *)

viewVars == <<choice, list, query>>
vars == <<feedVars, viewVars>>

TypeOK ==
  /\ FeedTypeOK
  /\ list \in {<<>>, Completed}
  /\ query.sent \subseteq [path : {Health} \union Calls, cancelled : BOOLEAN]
  /\ query.loading \in BOOLEAN /\ query.error \in BOOLEAN

Init ==
  /\ FeedInit
  /\ choice = NoCall /\ list = <<>>
  /\ query = [deps |-> <<NoCall, FALSE>>, sent |-> {Request(Health)},
              data |-> NoCall, loading |-> TRUE, error |-> FALSE]

-----------------------------------------------------------------------------
(* What a render computes.                                                  *)

CallOf(number) == events[number].call
LiveCalls == {CallOf(n) : n \in ToSet(tab[Viewer].segments)}
ActiveCall ==
  IF choice # NoCall THEN choice
  ELSE IF tab[Viewer].segments # <<>> THEN CallOf(Last(tab[Viewer].segments))
  ELSE IF list # <<>> THEN list[1] ELSE NoCall
IsLive == ActiveCall \in LiveCalls
Deps == <<ActiveCall, IsLive>>
Path(deps) == IF deps[1] = NoCall \/ deps[2] THEN Health ELSE deps[1]

-----------------------------------------------------------------------------
(* useQuery.                                                                *)

(* The effect runs again when its dependencies have changed: the request    *)
(* before it is cancelled, its data stays.                                  *)
Refresh ==
  /\ tab[Viewer].mounted /\ query.deps # Deps
  /\ query' = [query EXCEPT !.deps = Deps, !.loading = TRUE, !.error = FALSE,
                            !.sent = {[request EXCEPT !.cancelled = TRUE] : request \in @}
                                       \union {Request(Path(Deps))}]
  /\ UNCHANGED <<feedVars, choice, list>>

(* Mutant of Answered: the answer to a cancelled request counts.            *)
AnsweredLate(request) ==
  /\ tab[Viewer].mounted /\ request \in query.sent
  /\ query' = [query EXCEPT !.sent = @ \ {request}, !.data = request.path, !.loading = FALSE]
  /\ UNCHANGED <<feedVars, choice, list>>

Answered(request) ==
  /\ tab[Viewer].mounted /\ request \in query.sent
  /\ query' = IF ~request.cancelled
              THEN [query EXCEPT !.sent = @ \ {request}, !.data = request.path,
                                 !.loading = FALSE]
              ELSE [query EXCEPT !.sent = @ \ {request}]
  /\ UNCHANGED <<feedVars, choice, list>>

Failed(request) ==
  /\ tab[Viewer].mounted /\ request \in query.sent
  /\ query' = IF ~request.cancelled
              THEN [query EXCEPT !.sent = @ \ {request}, !.error = TRUE, !.loading = FALSE]
              ELSE [query EXCEPT !.sent = @ \ {request}]
  /\ UNCHANGED <<feedVars, choice, list>>

Reply == \E request \in query.sent : Answered(request) \/ Failed(request)

ListLoaded ==
  /\ tab[Viewer].mounted /\ list = <<>> /\ Completed # <<>>
  /\ list' = Completed
  /\ UNCHANGED <<feedVars, choice, query>>

Choose(call) ==
  /\ tab[Viewer].mounted /\ call # choice
  /\ Happens("choices")
  /\ choice' = call
  /\ UNCHANGED <<bridgeVars, hubVars, socketVars, tab, list, query>>

ViewNext ==
  \/ Refresh \/ ListLoaded \/ Reply
  \/ \E call \in LiveCalls \union ToSet(list) \union {NoCall} : Choose(call)

Next ==
  \/ FeedNext /\ UNCHANGED viewVars
  \/ ViewNext

Spec == Init /\ [][Next]_vars

FairSpec ==
  /\ Spec
  /\ FeedFairness
  /\ WF_vars(Refresh)
  /\ WF_vars(Reply)

-----------------------------------------------------------------------------
(* Properties.                                                              *)

(* api.ts:24-45: when nothing is loading, what is shown answers the latest  *)
(* question or there is an error: no late answer replaces a newer one.      *)
NoLateAnswer ==
  ~query.loading => query.error \/ query.data = Path(query.deps)
=============================================================================
