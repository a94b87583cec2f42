------------------------------ MODULE ModBanip ------------------------------
(***************************************************************************)
(* The Apache client (clients/apache24/mod_banip.c): its directives, the   *)
(* queue that the parent process opens, and the requests a child handles.  *)
(*                                                                         *)
(* What Apache itself does is external: it reads its configuration twice   *)
(* at start-up and again at each graceful restart, merges the              *)
(* configuration of a virtual host that has BanIP directives into that of  *)
(* the main server, forks children that keep what they were forked with,   *)
(* and answers an error with a local page if there is one.  Subrequests,   *)
(* for which Apache calls banip_fixup as well, and errors of other modules *)
(* are left out.                                                           *)
(*                                                                         *)
(* A child handles one request at a time (the prefork MPM).  A request is  *)
(* known by the variables whose value the patterns of the rules match.     *)
(*                                                                         *)
(* mod_banip.c was written for a library whose functions have one argument *)
(* less and return QUEUE_ERR_OK; what they return here is what queue.h     *)
(* says, true for success.                                                 *)
(***************************************************************************)
EXTENDS Naturals, Sequences, Functions

CONSTANTS
  Child,       \* processes that handle requests
  Variable,    \* what the rules look at: "uri", "ENV", "GET", "HTTP", "POST",
               \* "other" for a variable that is none of these
  MaxRules,    \* bound: rules of the main server, none after a restart
  MaxRestarts  \* bound: graceful restarts

ASSUME ModBanipAssumption ==
  /\ Variable \subseteq {"uri", "ENV", "GET", "HTTP", "POST", "other"}
  /\ MaxRules \in Nat /\ MaxRestarts \in Nat

Server == {"main", "vhost"}

VARIABLES
  phase,       \* of the parent: "pre", "config", "serving", "stopped"
  conf,        \* of each server
  own,         \* whether the virtual host has directives of its own
  section,     \* whether a <Directory> has directives
  queue,       \* of the parent: "null", "open", or "unopened" after queue_open
               \* failed
  registered,  \* whether banip_queue_close is registered with the pool
  lost,        \* history: a queue was overwritten without being closed
  restarts,    \* graceful restarts so far
  pc,          \* of a child: "none", "idle", "fixup", "sending", "handler", "done"
  forked,      \* the configuration and the queue a child was forked with
  get,         \* dconf->get in a child: "null", "live", or "freed" with a request
  request,     \* the request a child handles
  reports,     \* history: why the request was reported, in order
  stale        \* history: children whose request met a freed table

parentVars == <<phase, conf, own, section, queue, registered, lost, restarts>>
childVars == <<pc, forked, get, request, reports, stale>>
vars == <<parentVars, childVars>>

Conf == [enabled : BOOLEAN, queue : BOOLEAN, rules : Seq(Variable)]

\* config_server_create: off, no queue, no rule.
NewConf == [enabled |-> FALSE, queue |-> FALSE, rules |-> <<>>]

NewForked == [conf |-> [s \in Server |-> NewConf], section |-> FALSE, queue |-> "null"]

\* A request: the server, the variables that match, whether it is in a
\* <Directory> with directives, the rule that is next, whether Apache went on to
\* its page for 403, an X-BanIP left over from before, whether the handler of the
\* request, or that of the page, set one (history), and the answer.
NewRequest(s, m, d) ==
  [server |-> s, matching |-> m, dir |-> d, rule |-> 1, page |-> FALSE,
   header |-> FALSE, set |-> FALSE, forbidden |-> FALSE]

NoRequest == NewRequest("main", {}, FALSE)

Init ==
  /\ phase = "pre"
  /\ conf = [s \in Server |-> NewConf]
  /\ own = FALSE /\ section = FALSE
  /\ queue = "null" /\ registered = FALSE /\ lost = FALSE /\ restarts = 0
  /\ pc = [k \in Child |-> "none"]
  /\ forked = [k \in Child |-> NewForked]
  /\ get = [k \in Child |-> "null"]
  /\ request = [k \in Child |-> NoRequest]
  /\ reports = [k \in Child |-> <<>>]
  /\ stale = {}
-----------------------------------------------------------------------------
(* The parent: directives, post_config and restarts.                       *)

\* The configuration that is read first is thrown away: post_config returns at
\* once in AP_SQ_MS_CREATE_PRE_CONFIG.
PreConfig ==
  /\ phase = "pre"
  /\ phase' = "config"
  /\ UNCHANGED <<conf, own, section, queue, registered, lost, restarts, childVars>>

\* A directive outside any section, for the main server or the virtual host.
Directive(s, c) ==
  /\ phase = "config"
  /\ conf' = [conf EXCEPT ![s] = c]
  /\ own' = (own \/ s = "vhost")
  /\ UNCHANGED <<phase, section, queue, registered, lost, restarts, childVars>>

CmdEnable == \E s \in Server, flag \in BOOLEAN :
  Directive(s, [conf[s] EXCEPT !.enabled = flag])

\* That of a virtual host is never read.
CmdQueue == Directive("main", [conf["main"] EXCEPT !.queue = TRUE])

\* A rule whose pattern compiles.
CmdRule == \E v \in Variable :
  /\ restarts = 0 /\ Len(conf["main"].rules) < MaxRules
  /\ Directive("main", [conf["main"] EXCEPT !.rules = Append(@, v)])

\* Inside a <Directory> BanIPEnable is ignored, and BanIPRule adds to rules that
\* nobody reads.
CmdSection ==
  /\ phase = "config"
  /\ section' = TRUE
  /\ UNCHANGED <<phase, conf, own, queue, registered, lost, restarts, childVars>>

\* A pattern that is no regular expression, or too many arguments: Apache stops.
CmdError ==
  /\ phase = "config"
  /\ phase' = "stopped"
  /\ UNCHANGED <<conf, own, section, queue, registered, lost, restarts, childVars>>

\* Variant: enabled is taken from the virtual host.
MergedEnabled == [NewConf EXCEPT !.enabled = conf["vhost"].enabled]

\* config_server_merge, which sets neither enabled nor queue.
Merged == NewConf

\* The rules of a merged configuration come from an uninitialised pointer, so
\* that merging may end the process.  A virtual host without directives has the
\* configuration of the main server.
Merge ==
  conf' = [conf EXCEPT !["vhost"] = IF own THEN Merged ELSE conf["main"]]

\* What queue_open returns, as an integer: a bool, true for success.
QueueOpen(opened) == IF opened THEN 1 ELSE 0

QUEUE_ERR_OK == 0

\* The queue after queue_open and the test of its result.  The test takes true
\* for an error: the queue that was opened is closed again, and the one that
\* could not be opened is kept.
Opened(opened) ==
  IF QUEUE_ERR_OK # QueueOpen(opened) THEN "null"
  ELSE IF opened THEN "open" ELSE "unopened"

\* banip_post_config.  Without BanIPQueue, if queue_init fails or if the result of
\* queue_open is not QUEUE_ERR_OK, Apache stops.
PostConfig ==
  /\ phase = "config"
  /\ Merge
  /\ \/ /\ conf["main"].enabled /\ conf["main"].queue
        /\ queue' \in {"null"} \cup {Opened(opened) : opened \in BOOLEAN}
        /\ registered' = (queue' # "null")
        /\ lost' = (lost \/ queue # "null")
        /\ phase' = IF queue' # "null" THEN "serving" ELSE "stopped"
     \/ /\ conf["main"].enabled /\ ~conf["main"].queue
        /\ phase' = "stopped"
        /\ UNCHANGED <<queue, registered, lost>>
     \/ /\ ~conf["main"].enabled
        /\ phase' = "serving"
        /\ UNCHANGED <<queue, registered, lost>>
     \/ /\ own
        /\ phase' = "stopped"
        /\ UNCHANGED <<queue, registered, lost>>
  /\ UNCHANGED <<own, section, restarts, childVars>>

\* Variant: the pool closes nothing.
QueueCloseMissed == UNCHANGED queue /\ registered' = FALSE

\* Variant: the pointer to the queue that was closed is kept.
QueueCloseDangling ==
  /\ queue' = IF registered THEN "closed" ELSE queue
  /\ registered' = FALSE

\* banip_queue_close, called when the pool is cleared.
QueueClose ==
  /\ queue' = IF registered THEN "null" ELSE queue
  /\ registered' = FALSE

\* A graceful restart: the pool is cleared and the configuration read again.
Restart ==
  /\ phase = "serving" /\ restarts < MaxRestarts
  /\ QueueClose
  /\ phase' = "config"
  /\ conf' = [s \in Server |-> NewConf]
  /\ own' = FALSE /\ section' = FALSE
  /\ restarts' = restarts + 1
  /\ UNCHANGED <<lost, childVars>>

\* The parent forks a child.
Fork(k) ==
  /\ phase = "serving" /\ pc[k] = "none"
  /\ pc' = [pc EXCEPT ![k] = "idle"]
  /\ forked' = [forked EXCEPT
       ![k] = [conf |-> conf, section |-> section, queue |-> queue]]
  /\ UNCHANGED <<parentVars, get, request, reports, stale>>

\* A child ends, between two requests or because of undefined behaviour.
Exit(k) ==
  /\ pc' = [pc EXCEPT ![k] = "none"]
  /\ forked' = [forked EXCEPT ![k] = NewForked]
  /\ get' = [get EXCEPT ![k] = "null"]
  /\ request' = [request EXCEPT ![k] = NoRequest]
  /\ reports' = [reports EXCEPT ![k] = <<>>]
  /\ stale' = stale \ {k}
  /\ UNCHANGED parentVars
-----------------------------------------------------------------------------
(* A child and its requests.                                               *)

ChildExit(k) == pc[k] = "idle" /\ Exit(k)

\* A new request.  Merging the configuration of a <Directory> that has directives
\* reads an uninitialised pointer, and gives the request a table of its own.
\* Only variables that the rules look at matter.
Accept(k) ==
  /\ pc[k] = "idle"
  /\ \/ /\ pc' = [pc EXCEPT ![k] = "fixup"]
        /\ \E s \in Server, d \in {FALSE, forked[k].section} :
           \E m \in SUBSET Range(forked[k].conf[s].rules) :
             request' = [request EXCEPT ![k] = NewRequest(s, m, d)]
        /\ UNCHANGED <<parentVars, forked, get, reports, stale>>
     \/ forked[k].section /\ Exit(k)

ServerConf(k) == forked[k].conf[request[k].server]

\* The rule that banip_fixup is at.
Rule(k) == ServerConf(k).rules[request[k].rule]

\* lookup_get reads a table that may be gone with the request that filled it.
Freed(k) == Rule(k) = "GET" /\ ~request[k].dir /\ get[k] = "freed"

OfPage(k) ==
  \/ Rule(k) \in {"uri", "ENV"}
  \/ Rule(k) = "GET" /\ (request[k].dir \/ get[k] = "null")

\* What the patterns say of the value the lookup functions return; there is none
\* for POST and for an unknown variable.  The page for 403 has the headers of the
\* request and a uri, an environment and a query string of its own, but reads the
\* table that the request filled if there is one.
Compare(k) ==
  CASE Rule(k) \in {"POST", "other"} -> {FALSE}
    [] Freed(k) -> BOOLEAN
    [] request[k].page /\ OfPage(k) -> BOOLEAN
    [] OTHER -> {Rule(k) \in request[k].matching}

LookupGet(k) ==
  /\ get' = IF Rule(k) = "GET" /\ ~request[k].dir /\ get[k] = "null"
             THEN [get EXCEPT ![k] = "live"] ELSE get
  /\ stale' = IF Freed(k) THEN stale \cup {k} ELSE stale

Report(k, why) ==
  /\ pc' = [pc EXCEPT ![k] = "sending"]
  /\ reports' = [reports EXCEPT ![k] = Append(@, why)]

\* Variant: a variable without a value ends the loop.
NextRuleStops(k) ==
  /\ pc' = [pc EXCEPT ![k] = IF Rule(k) \in {"POST", "other"} THEN "handler" ELSE @]
  /\ request' = [request EXCEPT ![k].rule = @ + 1]

NextRule(k) ==
  /\ request' = [request EXCEPT ![k].rule = @ + 1]
  /\ UNCHANGED pc

\* One iteration of the loop of banip_fixup, or its end.
Fixup(k) ==
  /\ pc[k] = "fixup"
  /\ \/ /\ ~ServerConf(k).enabled \/ request[k].rule > Len(ServerConf(k).rules)
        /\ pc' = [pc EXCEPT ![k] = "handler"]
        /\ UNCHANGED <<parentVars, forked, get, request, reports, stale>>
     \/ /\ ServerConf(k).enabled /\ request[k].rule <= Len(ServerConf(k).rules)
        /\ \/ /\ LookupGet(k)
              /\ \/ /\ TRUE \in Compare(k)
                    /\ Report(k, IF request[k].page THEN "page_rule" ELSE "rule")
                    /\ UNCHANGED request
                 \/ /\ FALSE \in Compare(k)
                    /\ NextRule(k)
                    /\ UNCHANGED reports
              /\ UNCHANGED <<parentVars, forked>>
           \/ Freed(k) /\ Exit(k)

\* Variant: the answer is DONE, as in the code that is compiled out.
VerdictDone(k) ==
  /\ pc' = [pc EXCEPT ![k] = "done"]
  /\ UNCHANGED request

\* HTTP_FORBIDDEN, from banip_fixup or through ap_die in the filter: Apache sends
\* its page for 403, a new request unless there was an error already.  The page has
\* a handler of its own and keeps the headers in err_headers_out.
Verdict(k) ==
  \/ /\ pc' = [pc EXCEPT ![k] = "done"]
     /\ request' = [request EXCEPT ![k].forbidden = TRUE]
  \/ /\ ~request[k].page
     /\ pc' = [pc EXCEPT ![k] = "fixup"]
     /\ request' = [request EXCEPT
          ![k] = [@ EXCEPT !.forbidden = TRUE, !.page = TRUE, !.rule = 1]]

\* banip_queue_send_message returns; whether queue_send failed is only logged.
SendMessage(k) ==
  /\ pc[k] = "sending"
  /\ Verdict(k)
  /\ UNCHANGED <<parentVars, forked, get, reports, stale>>

\* Variant: the header stays in the response.
UnsetHeaderMissed(k, set) ==
  request' = [request EXCEPT ![k] = [@ EXCEPT !.header = TRUE, !.set = set]]

\* The header is removed from headers_out and from err_headers_out.
UnsetHeader(k, set) ==
  request' = [request EXCEPT ![k] = [@ EXCEPT !.header = FALSE, !.set = set]]

\* The filter is inserted for a server that is enabled, for the request and for
\* its page, and looks for X-BanIP once the handler, which may set it, made its
\* response.
OutputFilter(k) ==
  /\ pc[k] = "handler"
  /\ \/ /\ ServerConf(k).enabled
        /\ Report(k, IF request[k].page THEN "page_header" ELSE "header")
        /\ \E set \in BOOLEAN : (set \/ request[k].header) /\ UnsetHeader(k, set)
     \/ /\ ~(ServerConf(k).enabled /\ request[k].header)
        /\ pc' = [pc EXCEPT ![k] = "done"]
        /\ UNCHANGED <<request, reports>>
  /\ UNCHANGED <<parentVars, forked, get, stale>>

\* The pool of the request is destroyed, with the table of its query string.
EndRequest(k) ==
  /\ pc[k] = "done"
  /\ pc' = [pc EXCEPT ![k] = "idle"]
  /\ get' = [get EXCEPT ![k] = IF @ = "live" THEN "freed" ELSE @]
  /\ request' = [request EXCEPT ![k] = NoRequest]
  /\ reports' = [reports EXCEPT ![k] = <<>>]
  /\ stale' = stale \ {k}
  /\ UNCHANGED <<parentVars, forked>>

Next ==
  \/ PreConfig \/ CmdEnable \/ CmdQueue \/ CmdRule \/ CmdSection \/ CmdError
  \/ PostConfig \/ Restart
  \/ \E k \in Child :
       \/ Fork(k) \/ ChildExit(k) \/ Accept(k) \/ Fixup(k) \/ SendMessage(k)
       \/ OutputFilter(k) \/ EndRequest(k)

Spec == Init /\ [][Next]_vars
-----------------------------------------------------------------------------
TypeOK ==
  /\ phase \in {"pre", "config", "serving", "stopped"}
  /\ conf \in [Server -> Conf]
  /\ {own, section, registered, lost} \subseteq BOOLEAN
  /\ queue \in {"null", "open", "unopened"}
  /\ restarts \in 0..MaxRestarts
  /\ pc \in [Child -> {"none", "idle", "fixup", "sending", "handler", "done"}]
  /\ forked \in [Child -> [conf : [Server -> Conf], section : BOOLEAN,
                           queue : {"null", "open", "unopened"}]]
  /\ get \in [Child -> {"null", "live", "freed"}]
  /\ request \in [Child ->
       [server : Server, matching : SUBSET Variable, dir : BOOLEAN,
        rule : 1..(MaxRules + 1), page : BOOLEAN, header : BOOLEAN, set : BOOLEAN,
        forbidden : BOOLEAN]]
  /\ reports \in [Child -> Seq({"rule", "header", "page_rule", "page_header"})]
  /\ stale \subseteq Child

\* queue_send is never called without the handle it dereferences: only the main
\* server's BanIPEnable makes post_config keep one, and a virtual host that is
\* enabled by itself never gets to send because merging forgets that it is.  But
\* the handle is that of a queue that could not be opened: post_config takes what
\* queue_open returns for an error code, and stops Apache when it succeeded.
SendHasQueue == \A k \in Child : pc[k] = "sending" => forked[k].queue = "unopened"

\* While it serves the parent has a handle exactly if the configuration in force
\* asks for a queue, through any sequence of graceful restarts; a handle is never
\* overwritten before it was closed, and an Apache that stops keeps no queue open.
QueueKept ==
  /\ ~lost
  /\ phase = "serving" => (queue # "null" <=> conf["main"].enabled)
  /\ phase = "stopped" => queue = "null"

\* A request is answered 403 if and only if its address was reported, by a rule
\* or because of the header, whatever page Apache answers with.
ForbiddenReported ==
  \A k \in Child : pc[k] = "done" => (request[k].forbidden <=> reports[k] # <<>>)

\* A request is reported at most once and so is its page for 403, which the same
\* rule or a handler that sets X-BanIP again may report a second time; but the
\* header that reported the request does not survive into the page: the page is
\* reported for a header only if its own handler set one.
ReportedOnce ==
  \A k \in Child :
    /\ Len(reports[k]) <= IF request[k].page THEN 2 ELSE 1
    /\ \A i \in 1..Len(reports[k]) :
         reports[k][i] \in IF i = 1 THEN {"rule", "header"} ELSE {"page_rule", "page_header"}
    /\ "page_header" \in Range(reports[k]) => request[k].set

\* The rules report a request exactly when one of them matches it, unless a
\* GET: rule read the query string of an earlier request of the same child: the
\* table that lookup_get keeps in the configuration of the directory dies with
\* the request that filled it.
RuleVerdict ==
  \A k \in Child : pc[k] = "done" /\ k \notin stale =>
    (Range(reports[k]) \cap {"rule"} # {} <=>
       /\ ServerConf(k).enabled
       /\ (Range(ServerConf(k).rules) \ {"POST", "other"}) \cap request[k].matching # {})
=============================================================================
