------------------------------ MODULE Transports -------------------------------
(***************************************************************************)
(* Git requests over smart HTTP and SSH: the embedder's callbacks are      *)
(* asked one after the other, then a git process serves the request and    *)
(* moves the ref of a push, and the request is audited.  The client may go *)
(* away at any moment, a callback may throw, git may not start, fail or be *)
(* killed.  HTTP audits when the response has finished, if the listener of *)
(* that could be registered; SSH at the end of the process, wherever it    *)
(* refuses, and for each method and key it turns down at authentication.   *)
(*                                                                         *)
(* A request of SSH is a connection with one command.  Bytes, headers and  *)
(* credentials are left out, and what happens to the process when a        *)
(* callback of SSH throws (nothing catches it): the request is then never  *)
(* answered.                                                               *)
(***************************************************************************)
EXTENDS Naturals, Sequences

CONSTANTS Request, MaxCommit,
          Tries            \* how often one connection is turned down at authentication

Branch == {"main", "dev"}
Ref == Branch \cup {"v1"}        \* v1: the tag of a release

VARIABLES tip,    \* tip[r]: the commit ref r is at; 0: there is no such ref
          head,   \* the branch HEAD names
          last,   \* the newest commit
          req     \* req[q]: the request q

refs == <<tip, head, last>>

\* What is asked before git is started, in this order; state: of HTTP, the record
\* of the request, made of its URL before the audit is registered; export: the link
\* that HTTP serves a repository by; authenticate: of SSH, the methods and keys
\* that the client offers, until one is accepted.
Stages ==
  [http |-> <<"state", "route", "resolve", "export", "authenticate", "authorize">>,
   ssh  |-> <<"authenticate", "command", "resolve", "authorize">>]
Refusable == [http |-> {"route", "resolve", "authorize"},
              ssh  |-> {"command", "resolve", "authorize"}]
Throwing == {"state", "resolve", "export", "authenticate", "authorize"}

\* advert: the GET that precedes a push over HTTP, of the same service.
Service == [http |-> {"push", "fetch", "advert"}, ssh |-> {"push", "fetch"}]

NoRequest == [via |-> "none", service |-> "none", branch |-> "main", at |-> "idle", pc |-> 0,
              child |-> "none", status |-> 500, headers |-> FALSE, aborted |-> FALSE, threw |-> FALSE,
              tries |-> 0, pushed |-> 0, audits |-> 0, outcome |-> "none"]

RequestsTypeOK ==
  /\ tip \in [Ref -> 0..MaxCommit] /\ head \in Branch /\ last \in 0..MaxCommit
  /\ \A q \in Request :
       /\ req[q].via \in {"http", "ssh", "none"} /\ req[q].branch \in Ref /\ req[q].pc \in 0..6
       /\ req[q].service \in {"push", "fetch", "advert", "none"}
       /\ req[q].at \in {"idle", "asking", "serving", "ended", "over"}
       /\ req[q].child \in {"none", "up", "gone", "unstarted", "never"}
       /\ req[q].status \in {200, 403, 404, 500, 502}
       /\ req[q].pushed \in 0..MaxCommit /\ req[q].tries \in 0..Tries /\ req[q].audits \in 0..Tries + 2
       /\ req[q].outcome \in {"none", "completed", "denied", "not_found", "failed", "rejected"}

RefsInit == tip = [r \in Ref |-> IF r = "dev" THEN 0 ELSE 1] /\ head = "main" /\ last = 1

Set(q, r) == req' = [req EXCEPT ![q] = r]
Http(q) == req[q].via = "http"
Ssh(q) == req[q].via = "ssh"
Asking(q) == req[q].at = "asking"
StageOf(q) == Stages[req[q].via][req[q].pc]

\* branch: what a push is of; it may be a tag.
Arrive(q, via, service, branch) ==
  /\ req[q].at = "idle" /\ service \in Service[via]
  /\ service = "push" \/ branch = NoRequest.branch
  /\ Set(q, [NoRequest EXCEPT !.via = via, !.service = service, !.branch = branch, !.at = "asking", !.pc = 1])
  /\ UNCHANGED refs

\* respondHttpFailure, and the end of a response in general.
Responds(r, status) == [r EXCEPT !.status = status, !.at = "ended"]

\* reportSshAuditEvent, of an SSH request that goes no further.
Audited(r, outcome) == [r EXCEPT !.audits = @ + 1, !.outcome = outcome, !.at = "over"]

Pass(q) ==
  /\ Asking(q) /\ req[q].pc < Len(Stages[req[q].via])
  /\ Set(q, [req[q] EXCEPT !.pc = @ + 1])
  /\ UNCHANGED refs

Refuse(q) ==
  /\ Asking(q) /\ StageOf(q) \in Refusable[req[q].via]
  /\ Set(q, IF Ssh(q) THEN Audited(req[q], "rejected")
            ELSE Responds(req[q], IF StageOf(q) = "authorize" THEN 403 ELSE 404))
  /\ UNCHANGED refs

\* authenticateSshConnection turns down a method or a key (the "none" that a client
\* begins with is one): it is audited, and the client may offer another.
TurnDown(q) ==
  /\ Asking(q) /\ Ssh(q) /\ StageOf(q) = "authenticate" /\ req[q].tries < Tries
  /\ Set(q, [req[q] EXCEPT !.tries = @ + 1, !.audits = @ + 1])
  /\ UNCHANGED refs

\* The catch of gitHttpHandler answers with 500; SSH has none.  threw: nothing will
\* audit the request, which HTTP does not before it has registered the audit.
Throw(q) ==
  /\ Asking(q) /\ StageOf(q) \in Throwing
  /\ Set(q, IF Http(q) THEN [Responds(req[q], 500) EXCEPT !.threw = (StageOf(q) = "state")]
            ELSE [req[q] EXCEPT !.at = "over", !.threw = TRUE])
  /\ UNCHANGED refs

\* A client of SSH leaves before it has given a command.
Leave(q) ==
  /\ Asking(q) /\ Ssh(q) /\ StageOf(q) \in {"authenticate", "command"}
  /\ Set(q, [req[q] EXCEPT !.at = "over", !.aborted = TRUE])
  /\ UNCHANGED refs

\* spawn: a process that does not start emits error, and close after it.
Spawn(q, starts) ==
  /\ Asking(q) /\ req[q].pc = Len(Stages[req[q].via])
  /\ LET r == [req[q] EXCEPT !.at = "serving", !.child = IF starts THEN "up" ELSE "unstarted"] IN
     Set(q, IF starts THEN r
            ELSE IF Http(q) THEN Responds(r, 502)
            ELSE [Audited(r, "failed") EXCEPT !.at = "serving"])
  /\ UNCHANGED refs

\* The first output of git http-backend: its headers, with a status of its own.
Headers(q, status) ==
  /\ Http(q) /\ req[q].child = "up" /\ ~req[q].headers
  /\ Set(q, [req[q] EXCEPT !.headers = TRUE, !.status = status])
  /\ UNCHANGED refs

\* receive-pack moves the ref; the backend has sent its headers before it runs it.
UpdateRef(q) ==
  /\ req[q].service = "push" /\ req[q].child = "up" /\ req[q].pushed = 0
  /\ Http(q) => req[q].headers /\ req[q].status = 200
  /\ last < MaxCommit
  /\ last' = last + 1 /\ tip' = [tip EXCEPT ![req[q].branch] = last + 1]
  /\ Set(q, [req[q] EXCEPT !.pushed = last + 1])
  /\ UNCHANGED head

\* Mutant: only an exit code of zero ends a request of SSH with an audit.
CloseOfZero(q, code) ==
  /\ req[q].child = "up"
  /\ LET r == [req[q] EXCEPT !.child = "gone"] IN
     Set(q, IF Ssh(q) THEN (IF code = "zero" THEN Audited(r, "completed") ELSE [r EXCEPT !.at = "over"])
            ELSE IF r.headers THEN Responds(r, r.status) ELSE Responds(r, 502))
  /\ UNCHANGED refs

\* close: whatever the exit code, HTTP goes by the headers; SSH takes the null of
\* a killed process for zero.
Close(q, code) ==
  /\ req[q].child = "up"
  /\ LET r == [req[q] EXCEPT !.child = "gone"] IN
     Set(q, IF Ssh(q) THEN Audited(r, IF code = "error" THEN "failed" ELSE "completed")
            ELSE IF r.headers THEN Responds(r, r.status) ELSE Responds(r, 502))
  /\ UNCHANGED refs

\* close after error: the response has ended before, SSH audits once more.
CloseUnstarted(q) ==
  /\ req[q].child = "unstarted"
  /\ LET r == [req[q] EXCEPT !.child = "never"] IN
     Set(q, IF Ssh(q) THEN Audited(r, "failed") ELSE r)
  /\ UNCHANGED refs

\* The client is gone: HTTP leaves the process alone, and the response may never
\* finish; SSH kills the process, which Close lets happen at any moment anyhow.
Abort(q) ==
  /\ Http(q) /\ req[q].at \in {"asking", "serving", "ended"} /\ ~req[q].aborted
  /\ Set(q, [req[q] EXCEPT !.aborted = TRUE])
  /\ UNCHANGED refs

\* finalizeHttpOutcome: the outcome noted by the request is always "failed".
OutcomeOf(status) ==
  IF status < 400 THEN "completed"
  ELSE IF status = 404 THEN "not_found"
  ELSE IF status < 500 THEN "denied" ELSE "failed"

\* Mutant: finish and close of the response both audit.
FinishAgain(q) ==
  /\ Http(q) /\ req[q].at \in {"ended", "over"}
  /\ Set(q, [req[q] EXCEPT !.at = "over", !.audits = @ + 1, !.outcome = OutcomeOf(req[q].status)])
  /\ UNCHANGED refs

\* finish of the response: the one audit of a request of HTTP, if it is listened to.
Finish(q) ==
  /\ Http(q) /\ req[q].at = "ended"
  /\ Set(q, IF req[q].threw THEN [req[q] EXCEPT !.at = "over"]
            ELSE [req[q] EXCEPT !.at = "over", !.audits = @ + 1, !.outcome = OutcomeOf(req[q].status)])
  /\ UNCHANGED refs

Serve(q) ==
  \/ Pass(q) \/ Refuse(q) \/ TurnDown(q) \/ Throw(q) \/ UpdateRef(q) \/ CloseUnstarted(q) \/ Finish(q)
  \/ \E starts \in BOOLEAN : Spawn(q, starts)
  \/ \E status \in {200, 403} : Headers(q, status)
  \/ \E code \in {"zero", "error", "signal"} : Close(q, code)
RequestStep(q) ==
  \/ Serve(q) \/ Abort(q) \/ Leave(q)
  \/ \E via \in DOMAIN Stages, service \in {"push", "fetch", "advert"}, b \in Ref :
       Arrive(q, via, service, b)

\* A request that is over was audited once, whichever step ended it and whatever
\* came twice or too late, apart from what its connection was turned down for; but
\* SSH audits twice when git does not start (ssh/server.ts:281), neither audits when
\* there is nothing that could: a callback of SSH throws (ssh/server.ts:315), the
\* client of SSH leaves without a command, or HTTP cannot read the URL
\* (handler.ts:275).
AuditedOnce ==
  \A q \in Request : req[q].at = "over" /\ (Http(q) \/ Ssh(q)) =>
    req[q].audits = req[q].tries + (IF req[q].threw \/ (Ssh(q) /\ req[q].aborted) THEN 0
                                    ELSE IF Ssh(q) /\ req[q].child = "never" THEN 2 ELSE 1)
===============================================================================
