--------------------------- MODULE ModBanipProofs ---------------------------
(***************************************************************************)
(* The theorems about module ModBanip, for any number of children, rules   *)
(* and graceful restarts.                                                  *)
(*                                                                         *)
(* The parent's part of the invariant says when it has a handle, which is  *)
(* one that queue_open failed on, and that a child is forked with it if    *)
(* any server it forked with is enabled.  The other part follows one       *)
(* request of a child: what was reported so far, and what is known of the  *)
(* rules that banip_fixup has been through.  A step of the parent leaves   *)
(* the children alone and the step of a child leaves the parent and the    *)
(* other children alone.                                                   *)
(***************************************************************************)
EXTENDS ModBanip, SequenceTheorems, TLAPS

\* No server has more rules than the directives may add.
RulesBounded ==
  /\ \A s \in Server : Len(conf[s].rules) <= MaxRules
  /\ \A k \in Child, s \in Server : Len(forked[k].conf[s].rules) <= MaxRules

\* The pool closes the queue exactly if there is one, so that there is none
\* when post_config comes to open it; one that was opened is not kept; a virtual
\* host is enabled only with the configuration of the main server.
QueueInHand ==
  /\ ~lost
  /\ queue \in {"null", "unopened"}
  /\ registered <=> queue = "unopened"
  /\ phase # "serving" => queue = "null"
  /\ phase = "serving" =>
       /\ queue = "unopened" <=> conf["main"].enabled
       /\ conf["vhost"].enabled => conf["main"].enabled

\* A child is forked with the queue if it may have to send.
ForkedWithQueue ==
  \A k \in Child, s \in Server : forked[k].conf[s].enabled => forked[k].queue = "unopened"

\* What a request may have been reported for, before and after its page for 403.
Once(w) == Len(w) = 1 /\ w[1] \in {"rule", "header"}
Twice(w) ==
  Len(w) = 2 /\ w[1] \in {"rule", "header"} /\ w[2] \in {"page_rule", "page_header"}
ByRule(w) == Len(w) > 0 /\ w[1] = "rule"

\* The reports of a request at each point of its way through the module.
Reported(k) ==
  /\ reports[k] = <<>> \/ Once(reports[k]) \/ Twice(reports[k])
  /\ pc[k] \in {"none", "idle"} => reports[k] = <<>>
  /\ pc[k] \in {"fixup", "handler"} =>
       IF request[k].page THEN Once(reports[k]) ELSE reports[k] = <<>>
  /\ pc[k] = "sending" /\ ~request[k].page => Once(reports[k])
  /\ ~request[k].header
  /\ Twice(reports[k]) =>
       request[k].page /\ (reports[k][2] = "page_header" => request[k].set)

\* A request was answered 403 once its report was sent.
Answered(k) ==
  /\ pc[k] \in {"fixup", "handler", "done"} =>
       (request[k].forbidden <=> reports[k] # <<>>)
  /\ pc[k] = "sending" => reports[k] # <<>> /\ ServerConf(k).enabled

\* One of the first n rules matches the request.
Matches(k, n) ==
  \E i \in 1..n : /\ ServerConf(k).rules[i] \notin {"POST", "other"}
                  /\ ServerConf(k).rules[i] \in request[k].matching

\* The rules before the one banip_fixup is at do not match, and once it is
\* through, a request that was not reported by a rule matches none.
Judged(k) ==
  k \notin stale =>
    /\ ByRule(reports[k]) =>
         ServerConf(k).enabled /\ Matches(k, Len(ServerConf(k).rules))
    /\ pc[k] = "fixup" /\ ~request[k].page => ~Matches(k, request[k].rule - 1)
    /\ pc[k] \in {"handler", "sending", "done"} \/ (pc[k] = "fixup" /\ request[k].page) =>
         \/ ByRule(reports[k])
         \/ ~ServerConf(k).enabled
         \/ ~Matches(k, Len(ServerConf(k).rules))

ChildInv(k) == Reported(k) /\ Answered(k) /\ Judged(k)

IInv ==
  /\ TypeOK /\ RulesBounded /\ QueueInHand /\ ForkedWithQueue
  /\ \A k \in Child : ChildInv(k)
-----------------------------------------------------------------------------
(* Types.                                                                  *)

Handle == {"null", "open", "unopened"}
Forked == [conf : [Server -> Conf], section : BOOLEAN, queue : Handle]
Request ==
  [server : Server, matching : SUBSET Variable, dir : BOOLEAN,
   rule : 1..(MaxRules + 1), page : BOOLEAN, header : BOOLEAN, set : BOOLEAN,
   forbidden : BOOLEAN]
Reason == {"rule", "header", "page_rule", "page_header"}
Location == {"none", "idle", "fixup", "sending", "handler", "done"}

\* What config_server_create makes is a configuration, without a rule.
LEMMA NewConfType == NewConf \in Conf /\ Len(NewConf.rules) = 0
BY EmptySeq DEF NewConf, Conf

\* A child that was not forked yet has such configurations.
LEMMA NewForkedType ==
  /\ NewForked \in Forked
  /\ \A s \in Server : NewForked.conf[s] = NewConf
BY NewConfType DEF NewForked, Forked, Handle

\* So has a child without a request one that is none.
LEMMA NoRequestType == NoRequest \in Request
BY ModBanipAssumption DEF NoRequest, NewRequest, Request, Server

\* The types of what a child works on.
LEMMA ChildTypes ==
  ASSUME TypeOK, NEW k \in Child
  PROVE  /\ pc[k] \in Location /\ forked[k] \in Forked /\ request[k] \in Request
         /\ get[k] \in {"null", "live", "freed"}
         /\ reports[k] \in Seq(Reason)
         /\ ServerConf(k) \in Conf
<1>1. /\ pc[k] \in Location /\ forked[k] \in Forked /\ request[k] \in Request
      /\ get[k] \in {"null", "live", "freed"}
      /\ reports[k] \in Seq(Reason)
  BY DEF TypeOK, Location, Forked, Request, Handle, Reason
<1>2. QED
  BY <1>1 DEF ServerConf, Forked, Request

-----------------------------------------------------------------------------
(* A step of one child.                                                    *)

\* What a step leaves alone of a child.
Same(j) ==
  /\ pc'[j] = pc[j] /\ forked'[j] = forked[j] /\ request'[j] = request[j]
  /\ reports'[j] = reports[j]
  /\ j \in stale' <=> j \in stale

\* The types of the children's variables.
ChildTypeOK ==
  /\ pc \in [Child -> Location] /\ forked \in [Child -> Forked]
  /\ get \in [Child -> {"null", "live", "freed"}]
  /\ request \in [Child -> Request]
  /\ reports \in [Child -> Seq(Reason)]
  /\ stale \subseteq Child

\* A child that a step leaves alone keeps its part of the invariant.
LEMMA SameChild ==
  ASSUME NEW j \in Child, Same(j), ChildInv(j)
  PROVE  ChildInv(j)'
<1>1. ServerConf(j)' = ServerConf(j)
  BY DEF Same, ServerConf
<1>2. Reported(j)' /\ Answered(j)'
  BY <1>1 DEF Same, ChildInv, Reported, Answered
<1>3. Judged(j)'
  BY <1>1 DEF Same, ChildInv, Judged, Matches
<1>4. QED
  BY <1>2, <1>3 DEF ChildInv

\* A step of child k keeps the invariant if it keeps what the invariant says of
\* k alone.
LEMMA ChildStep ==
  ASSUME IInv, NEW k \in Child, UNCHANGED parentVars, ChildTypeOK',
         \A j \in Child \ {k} : Same(j),
         \A s \in Server :
           /\ Len(forked'[k].conf[s].rules) <= MaxRules
           /\ forked'[k].conf[s].enabled => forked'[k].queue = "unopened",
         ChildInv(k)'
  PROVE  IInv'
<1>1. TypeOK'
  BY DEF IInv, TypeOK, ChildTypeOK, parentVars, Location, Forked, Request, Handle, Reason
<1>2. RulesBounded'
  BY DEF IInv, RulesBounded, Same, parentVars
<1>3. QueueInHand'
  BY DEF IInv, QueueInHand, parentVars
<1>4. ForkedWithQueue'
  BY DEF IInv, ForkedWithQueue, Same
<1>5. ASSUME NEW j \in Child PROVE ChildInv(j)'
  <2>1. CASE j = k
    BY <2>1
  <2>2. CASE j # k
    BY <2>2, SameChild DEF IInv
  <2>3. QED
    BY <2>1, <2>2
<1>6. QED
  BY <1>1, <1>2, <1>3, <1>4, <1>5 DEF IInv

\* What the invariant says of the types of the children.
LEMMA ChildTypesHold == ASSUME IInv PROVE ChildTypeOK
BY DEF IInv, TypeOK, ChildTypeOK, Location, Forked, Request, Handle, Reason

\* What it says of the configuration a child was forked with.
LEMMA ForkedHolds ==
  ASSUME IInv, NEW k \in Child, UNCHANGED forked
  PROVE  \A s \in Server :
           /\ Len(forked'[k].conf[s].rules) <= MaxRules
           /\ forked'[k].conf[s].enabled => forked'[k].queue = "unopened"
BY DEF IInv, RulesBounded, ForkedWithQueue

\* A child that ends leaves nothing behind.
LEMMA ExitKeeps ==
  ASSUME IInv, NEW k \in Child, Exit(k)
  PROVE  IInv'
<1>1. ChildTypeOK /\ UNCHANGED parentVars
  BY ChildTypesHold DEF Exit
<1>2. ChildTypeOK'
  <2>1. "none" \in Location /\ <<>> \in Seq(Reason)
    BY EmptySeq DEF Location
  <2>2. QED
    BY <1>1, <2>1, NewForkedType, NoRequestType DEF Exit, ChildTypeOK
<1>3. \A j \in Child \ {k} : Same(j)
  BY <1>1 DEF Exit, ChildTypeOK, Same
<1>4. /\ pc'[k] = "none" /\ forked'[k] = NewForked /\ reports'[k] = <<>>
      /\ request'[k].header = FALSE
  BY <1>1 DEF Exit, ChildTypeOK, NoRequest, NewRequest
<1>5. ASSUME NEW s \in Server
      PROVE  /\ Len(forked'[k].conf[s].rules) <= MaxRules
             /\ forked'[k].conf[s].enabled => forked'[k].queue = "unopened"
  <2>1. forked'[k].conf[s] = NewConf
    BY <1>4, NewForkedType
  <2>2. QED
    BY <2>1, NewConfType, ModBanipAssumption DEF NewConf
<1>6. ChildInv(k)'
  BY <1>4, EmptySeq DEF ChildInv, Reported, Twice, Answered, Judged, ByRule
<1>7. QED
  BY <1>1, <1>2, <1>3, <1>5, <1>6, ChildStep

\* A new child has the queue if a server is enabled.
LEMMA ForkKeeps ==
  ASSUME IInv, NEW k \in Child, Fork(k)
  PROVE  IInv'
<1>1. ChildTypeOK /\ UNCHANGED parentVars
  BY ChildTypesHold DEF Fork
<1>2. [conf |-> conf, section |-> section, queue |-> queue] \in Forked
  <2>1. conf \in [Server -> Conf] /\ section \in BOOLEAN /\ queue \in Handle
    BY Zenon DEF IInv, TypeOK, Handle
  <2>2. QED
    BY <2>1 DEF Forked
<1>3. ChildTypeOK'
  BY <1>1, <1>2 DEF Fork, ChildTypeOK, Location
<1>4. \A j \in Child \ {k} : Same(j)
  BY <1>1 DEF Fork, ChildTypeOK, Same
<1>5. /\ pc[k] = "none" /\ pc'[k] = "idle"
      /\ reports'[k] = reports[k] /\ request'[k] = request[k]
      /\ forked'[k] = [conf |-> conf, section |-> section, queue |-> queue]
  BY <1>1 DEF Fork, ChildTypeOK
<1>6. ASSUME NEW s \in Server
      PROVE  /\ Len(forked'[k].conf[s].rules) <= MaxRules
             /\ forked'[k].conf[s].enabled => forked'[k].queue = "unopened"
  <2>1. Len(conf[s].rules) <= MaxRules
    BY DEF IInv, RulesBounded
  <2>2. conf[s].enabled => queue = "unopened"
    BY DEF IInv, QueueInHand, Fork, Server
  <2>3. QED
    BY <1>5, <2>1, <2>2
<1>7. ChildInv(k)'
  <2>1. reports[k] = <<>> /\ ~request[k].header
    BY <1>5 DEF IInv, ChildInv, Reported
  <2>2. QED
    BY <1>5, <2>1, EmptySeq DEF ChildInv, Reported, Twice, Answered, Judged, ByRule
<1>8. QED
  BY <1>1, <1>3, <1>4, <1>6, <1>7, ChildStep

\* A child takes a request with nothing reported and no rule looked at.
LEMMA AcceptKeeps ==
  ASSUME IInv, NEW k \in Child, Accept(k)
  PROVE  IInv'
<1>1. CASE Exit(k)
  BY <1>1, ExitKeeps
<1>2. CASE ~Exit(k)
  <2>1. /\ pc[k] = "idle" /\ pc' = [pc EXCEPT ![k] = "fixup"]
        /\ \E s \in Server, d \in {FALSE, forked[k].section} :
           \E m \in SUBSET Range(forked[k].conf[s].rules) :
             request' = [request EXCEPT ![k] = NewRequest(s, m, d)]
        /\ UNCHANGED <<parentVars, forked, get, reports, stale>>
    BY <1>2, Zenon DEF Accept
  <2>2. PICK s \in Server, d \in {FALSE, forked[k].section} :
           \E m \in SUBSET Range(forked[k].conf[s].rules) :
             request' = [request EXCEPT ![k] = NewRequest(s, m, d)]
    BY <2>1, Zenon
  <2>3. PICK m \in SUBSET Range(forked[k].conf[s].rules) :
             request' = [request EXCEPT ![k] = NewRequest(s, m, d)]
    BY <2>2, Zenon
  <2>4. ChildTypeOK
    BY ChildTypesHold
  <2>5. m \subseteq Variable /\ d \in BOOLEAN
    <3>1. forked[k] \in Forked
      BY <2>4 DEF ChildTypeOK
    <3>2. forked[k].section \in BOOLEAN /\ forked[k].conf[s].rules \in Seq(Variable)
      BY <3>1 DEF Forked, Conf
    <3>3. Range(forked[k].conf[s].rules) \subseteq Variable
      BY <3>2, LenProperties DEF Range
    <3>4. QED
      BY <3>2, <3>3, Zenon
  <2>6. NewRequest(s, m, d) \in Request
    BY <2>5, ModBanipAssumption DEF Request, NewRequest
  <2>8. ChildTypeOK'
    BY <2>1, <2>3, <2>4, <2>6 DEF ChildTypeOK, Location
  <2>9. \A j \in Child \ {k} : Same(j)
    BY <2>1, <2>3, <2>4 DEF ChildTypeOK, Same
  <2>10. /\ pc'[k] = "fixup" /\ reports'[k] = <<>>
         /\ request'[k] = NewRequest(s, m, d)
    <3>1. reports[k] = <<>>
      BY <2>1 DEF IInv, ChildInv, Reported
    <3>2. QED
      BY <2>1, <2>3, <2>4, <3>1 DEF ChildTypeOK
  <2>11. /\ ~request'[k].page /\ ~request'[k].forbidden /\ request'[k].rule = 1
         /\ ~request'[k].header
    BY <2>10 DEF NewRequest
  <2>12. ChildInv(k)'
    <3>1. Reported(k)' /\ Answered(k)'
      BY <2>10, <2>11, EmptySeq DEF Reported, Twice, Answered
    <3>2. ~Matches(k, request[k].rule - 1)'
      BY <2>11 DEF Matches
    <3>3. Judged(k)'
      BY <2>10, <2>11, <3>2 DEF Judged, ByRule
    <3>4. QED
      BY <3>1, <3>3 DEF ChildInv
  <2>13. QED
    BY <2>1, <2>8, <2>9, <2>12, ForkedHolds, ChildStep
<1>3. QED
  BY <1>1, <1>2
-----------------------------------------------------------------------------
(* The steps of a request.                                                 *)

\* A step within a request keeps the configuration and what matches.
LEMMA SameRequest ==
  ASSUME NEW k \in Child, UNCHANGED forked,
         request'[k].server = request[k].server,
         request'[k].matching = request[k].matching
  PROVE  /\ ServerConf(k)' = ServerConf(k)
         /\ \A n \in Nat : Matches(k, n)' <=> Matches(k, n)
BY DEF ServerConf, Matches

\* What banip_fixup compares of the request itself: the value of the variable,
\* unless that is one of an earlier request.
LEMMA CompareMeans ==
  ASSUME NEW k \in Child, ~request[k].page, ~Freed(k)
  PROVE  /\ TRUE \in Compare(k) =>
              Rule(k) \notin {"POST", "other"} /\ Rule(k) \in request[k].matching
         /\ FALSE \in Compare(k) =>
              Rule(k) \in {"POST", "other"} \/ Rule(k) \notin request[k].matching
<1>1. CASE Rule(k) \in {"POST", "other"}
  BY <1>1, Zenon DEF Compare
<1>2. CASE Rule(k) \notin {"POST", "other"}
  <2>1. Compare(k) = {Rule(k) \in request[k].matching}
    BY <1>2 DEF Compare
  <2>2. QED
    BY <1>2, <2>1, Zenon
<1>3. QED
  BY <1>1, <1>2, Zenon

\* The end of the loop of banip_fixup.
LEMMA FixupEnds ==
  ASSUME IInv, NEW k \in Child, pc[k] = "fixup",
         ~ServerConf(k).enabled \/ request[k].rule > Len(ServerConf(k).rules),
         pc' = [pc EXCEPT ![k] = "handler"],
         UNCHANGED <<parentVars, forked, get, request, reports, stale>>
  PROVE  IInv'
<1>1. ChildTypeOK /\ ChildInv(k) /\ TypeOK
  BY ChildTypesHold DEF IInv
<1>2. ChildTypeOK'
  BY <1>1 DEF ChildTypeOK, Location
<1>3. \A j \in Child \ {k} : Same(j)
  BY <1>1 DEF ChildTypeOK, Same
<1>4. pc'[k] = "handler"
  BY <1>1 DEF ChildTypeOK
<1>5. /\ ServerConf(k)' = ServerConf(k)
      /\ \A n \in Nat : Matches(k, n)' <=> Matches(k, n)
  BY SameRequest
<1>6. /\ request[k] \in Request /\ ServerConf(k) \in Conf
      /\ Len(ServerConf(k).rules) \in Nat
  BY <1>1, ChildTypes, LenProperties DEF Conf
<1>7. Reported(k)' /\ Answered(k)'
  BY <1>1, <1>4 DEF ChildInv, Reported, Answered
<1>8. ASSUME k \notin stale, ~request[k].page, ServerConf(k).enabled
      PROVE  ~Matches(k, Len(ServerConf(k).rules))
  <2>1. ~Matches(k, request[k].rule - 1)
    BY <1>1, <1>8 DEF ChildInv, Judged
  <2>2. request[k].rule \in Nat /\ request[k].rule - 1 >= Len(ServerConf(k).rules)
    BY <1>6, <1>8 DEF Request
  <2>3. QED
    BY <1>6, <2>1, <2>2 DEF Matches
<1>9. Judged(k)'
  BY <1>1, <1>4, <1>5, <1>6, <1>8 DEF ChildInv, Judged
<1>10. QED
  BY <1>2, <1>3, <1>7, <1>9, ForkedHolds, ChildStep DEF ChildInv

\* lookup_get changes nothing but the table and whether it was a freed one.
LEMMA LookupGetKeeps ==
  ASSUME ChildTypeOK, NEW k \in Child, LookupGet(k)
  PROVE  /\ get' \in [Child -> {"null", "live", "freed"}]
         /\ stale' \subseteq Child
         /\ \A j \in Child \ {k} : j \in stale' <=> j \in stale
         /\ k \in stale => k \in stale'
         /\ Freed(k) => k \in stale'
BY DEF ChildTypeOK, LookupGet

\* A rule matches: the request is reported, the page for 403 as such.
LEMMA FixupReports ==
  ASSUME IInv, NEW k \in Child, pc[k] = "fixup", ServerConf(k).enabled,
         request[k].rule <= Len(ServerConf(k).rules), LookupGet(k),
         TRUE \in Compare(k),
         Report(k, IF request[k].page THEN "page_rule" ELSE "rule"),
         UNCHANGED <<parentVars, forked, request>>
  PROVE  IInv'
<1>1. ChildTypeOK /\ ChildInv(k) /\ TypeOK
  BY ChildTypesHold DEF IInv
<1>2. reports'[k] = Append(reports[k], IF request[k].page THEN "page_rule" ELSE "rule")
  BY <1>1 DEF Report, ChildTypeOK
<1>3. ChildTypeOK'
  <2>1. /\ Append(reports[k], "page_rule") \in Seq(Reason)
        /\ Append(reports[k], "rule") \in Seq(Reason)
    BY <1>1, AppendProperties DEF ChildTypeOK, Reason
  <2>2. QED
    BY <1>1, <2>1, LookupGetKeeps DEF Report, ChildTypeOK, Location
<1>4. \A j \in Child \ {k} : Same(j)
  BY <1>1, LookupGetKeeps DEF ChildTypeOK, Report, Same
<1>5. pc'[k] = "sending"
  BY <1>1 DEF ChildTypeOK, Report
<1>6. /\ ServerConf(k)' = ServerConf(k)
      /\ \A n \in Nat : Matches(k, n)' <=> Matches(k, n)
  BY SameRequest
<1>7. /\ request[k] \in Request /\ ServerConf(k) \in Conf
      /\ reports[k] \in Seq(Reason)
      /\ Len(ServerConf(k).rules) \in Nat
  BY <1>1, ChildTypes, LenProperties DEF Conf
<1>8. CASE request[k].page
  <2>1. Once(reports[k]) /\ reports'[k] = Append(reports[k], "page_rule")
    BY <1>1, <1>2, <1>8 DEF ChildInv, Reported
  <2>2. Len(reports'[k]) = 2 /\ reports'[k][1] = reports[k][1] /\ reports'[k][2] = "page_rule"
    <3>1. Len(reports[k]) = 1
      BY <2>1 DEF Once
    <3>2. QED
      BY <1>7, <2>1, <3>1, AppendProperties DEF Reason
  <2>3. Reported(k)'
    BY <1>1, <1>5, <1>8, <2>1, <2>2 DEF ChildInv, Reported, Once, Twice
  <2>4. Answered(k)'
    BY <1>5, <1>6, <2>2, EmptySeq DEF Answered
  <2>5. Judged(k)'
    <3>1. ByRule(reports'[k]) <=> ByRule(reports[k])
      BY <2>1, <2>2 DEF Once, ByRule
    <3>2. k \notin stale' => k \notin stale
      BY <1>1, LookupGetKeeps
    <3>3. QED
      BY <1>1, <1>5, <1>6, <1>7, <1>8, <3>1, <3>2 DEF ChildInv, Judged
  <2>6. QED
    BY <1>3, <1>4, <2>3, <2>4, <2>5, ForkedHolds, ChildStep DEF ChildInv
<1>9. CASE ~request[k].page
  <2>1. Len(reports'[k]) = 1 /\ reports'[k][1] = "rule"
    <3>1. reports[k] = <<>> /\ reports'[k] = Append(reports[k], "rule")
      BY <1>1, <1>2, <1>9 DEF ChildInv, Reported
    <3>2. QED
      BY <3>1
  <2>2. Reported(k)'
    BY <1>1, <1>5, <1>9, <2>1 DEF ChildInv, Reported, Once, Twice
  <2>3. Answered(k)'
    BY <1>5, <1>6, <2>1, EmptySeq DEF Answered
  <2>4. ASSUME k \notin stale' PROVE Matches(k, Len(ServerConf(k).rules))
    <3>1. Rule(k) \notin {"POST", "other"} /\ Rule(k) \in request[k].matching
      BY <1>1, <1>9, <2>4, LookupGetKeeps, CompareMeans, Zenon
    <3>2. request[k].rule \in 1..Len(ServerConf(k).rules)
      <4>1. request[k].rule \in 1..(MaxRules + 1)
        BY <1>7, Zenon DEF Request
      <4>2. QED
        BY <1>7, <4>1, ModBanipAssumption
    <3>3. QED
      BY <3>1, <3>2 DEF Rule, Matches
  <2>5. Judged(k)'
    BY <1>5, <1>6, <1>7, <2>1, <2>4 DEF Judged, ByRule
  <2>6. QED
    BY <1>3, <1>4, <2>2, <2>3, <2>5, ForkedHolds, ChildStep DEF ChildInv
<1>10. QED
  BY <1>8, <1>9

\* A rule does not match: the next one.
LEMMA FixupGoesOn ==
  ASSUME IInv, NEW k \in Child, pc[k] = "fixup",
         request[k].rule <= Len(ServerConf(k).rules), LookupGet(k),
         FALSE \in Compare(k), NextRule(k),
         UNCHANGED <<parentVars, forked, reports>>
  PROVE  IInv'
<1>1. ChildTypeOK /\ ChildInv(k) /\ TypeOK
  BY ChildTypesHold DEF IInv
<1>2. /\ request[k] \in Request /\ ServerConf(k) \in Conf
      /\ Len(ServerConf(k).rules) \in Nat /\ Len(ServerConf(k).rules) <= MaxRules
  <2>1. request[k] \in Request /\ ServerConf(k) \in Conf
    BY <1>1, ChildTypes
  <2>2. Len(ServerConf(k).rules) <= MaxRules
    BY <2>1 DEF IInv, RulesBounded, ServerConf, Request
  <2>3. QED
    BY <2>1, <2>2, LenProperties DEF Conf
<1>3. PICK r \in Request :
        /\ request' = [request EXCEPT ![k] = r]
        /\ r.server = request[k].server /\ r.matching = request[k].matching
        /\ r.header = request[k].header /\ r.page = request[k].page
        /\ r.forbidden = request[k].forbidden /\ r.rule = request[k].rule + 1
  <2>1. /\ request'[k].server = request[k].server
        /\ request'[k].matching = request[k].matching
        /\ request'[k].header = request[k].header
        /\ request'[k].page = request[k].page
        /\ request'[k].forbidden = request[k].forbidden
        /\ request'[k].rule = request[k].rule + 1
        /\ request'[k].dir = request[k].dir
        /\ request' = [request EXCEPT ![k] = request'[k]]
    BY <1>1, <1>2 DEF NextRule, ChildTypeOK, Request
  <2>2. request'[k] \in Request
    <3>1. request[k].rule + 1 \in 1..(MaxRules + 1)
      BY <1>2, ModBanipAssumption DEF Request
    <3>2. request'[k] = [request[k] EXCEPT !.rule = request[k].rule + 1]
      BY <1>1, Zenon DEF NextRule, ChildTypeOK
    <3>3. QED
      BY <1>2, <3>1, <3>2 DEF Request
  <2>3. QED
    BY <2>1, <2>2
<1>4. ChildTypeOK'
  <2>1. UNCHANGED <<pc, forked, reports>>
    BY DEF NextRule
  <2>2. QED
    BY <1>1, <1>3, <2>1, LookupGetKeeps DEF ChildTypeOK
<1>5. \A j \in Child \ {k} : Same(j)
  BY <1>1, <1>3, LookupGetKeeps DEF NextRule, ChildTypeOK, Same
<1>6. request'[k] = r /\ pc'[k] = "fixup"
  BY <1>1, <1>3 DEF ChildTypeOK, NextRule
<1>7. /\ ServerConf(k)' = ServerConf(k)
      /\ \A n \in Nat : Matches(k, n)' <=> Matches(k, n)
  BY <1>3, <1>6, SameRequest
<1>8. Reported(k)' /\ Answered(k)'
  BY <1>1, <1>3, <1>6, EmptySeq DEF ChildInv, Reported, Once, Twice, Answered
<1>9. ASSUME k \notin stale', ~request[k].page
      PROVE  ~Matches(k, request[k].rule)
  <2>1. Rule(k) \in {"POST", "other"} \/ Rule(k) \notin request[k].matching
    BY <1>1, <1>9, LookupGetKeeps, CompareMeans, Zenon
  <2>2. ~Matches(k, request[k].rule - 1) /\ request[k].rule \in Nat \ {0}
    BY <1>1, <1>2, <1>9, LookupGetKeeps DEF ChildInv, Judged, Request
  <2>3. QED
    BY <2>1, <2>2 DEF Matches, Rule
<1>10. Judged(k)'
  <2>1. request'[k].rule - 1 = request[k].rule /\ request[k].rule \in Nat
    BY <1>2, <1>3, <1>6 DEF Request
  <2>2. k \notin stale' => k \notin stale
    BY <1>1, LookupGetKeeps
  <2>3. QED
    BY <1>1, <1>2, <1>3, <1>6, <1>7, <1>9, <2>1, <2>2 DEF ChildInv, Judged
<1>11. QED
  BY <1>4, <1>5, <1>8, <1>10, ForkedHolds, ChildStep DEF ChildInv

\* One iteration of the loop of banip_fixup, or its end.
LEMMA FixupKeeps ==
  ASSUME IInv, NEW k \in Child, Fixup(k)
  PROVE  IInv'
<1>1. CASE Exit(k)
  BY <1>1, ExitKeeps
<1>2. CASE /\ ~ServerConf(k).enabled \/ request[k].rule > Len(ServerConf(k).rules)
           /\ pc' = [pc EXCEPT ![k] = "handler"]
           /\ UNCHANGED <<parentVars, forked, get, request, reports, stale>>
  BY <1>2, FixupEnds, Zenon DEF Fixup
<1>3. CASE /\ ServerConf(k).enabled /\ request[k].rule <= Len(ServerConf(k).rules)
           /\ LookupGet(k)
           /\ TRUE \in Compare(k)
           /\ Report(k, IF request[k].page THEN "page_rule" ELSE "rule")
           /\ UNCHANGED <<parentVars, forked, request>>
  BY <1>3, FixupReports, Zenon DEF Fixup
<1>4. CASE /\ request[k].rule <= Len(ServerConf(k).rules)
           /\ LookupGet(k)
           /\ FALSE \in Compare(k)
           /\ NextRule(k)
           /\ UNCHANGED <<parentVars, forked, reports>>
  BY <1>4, FixupGoesOn, Zenon DEF Fixup
<1>5. QED
  BY <1>1, <1>2, <1>3, <1>4, Zenon DEF Fixup

\* The page for 403 is a request.
LEMMA PageType ==
  ASSUME NEW r \in Request
  PROVE  LET q == [r EXCEPT !.forbidden = TRUE, !.page = TRUE, !.rule = 1] IN
           /\ q \in Request /\ q.server = r.server /\ q.matching = r.matching
           /\ q.header = r.header /\ q.forbidden = TRUE /\ q.page = TRUE
<1> DEFINE a == [r EXCEPT !.forbidden = TRUE]
           b == [a EXCEPT !.page = TRUE]
           c == [b EXCEPT !.rule = 1]
<1>1. /\ a \in Request /\ a.server = r.server /\ a.matching = r.matching
      /\ a.header = r.header /\ a.forbidden = TRUE
  BY Zenon DEF Request
<1> HIDE DEF a
<1>2. /\ b \in Request /\ b.server = a.server /\ b.matching = a.matching
      /\ b.header = a.header /\ b.forbidden = a.forbidden /\ b.page = TRUE
  BY <1>1, Zenon DEF Request
<1> HIDE DEF b
<1>3. /\ c \in Request /\ c.server = b.server /\ c.matching = b.matching
      /\ c.header = b.header /\ c.forbidden = b.forbidden /\ c.page = b.page
  BY <1>2, ModBanipAssumption DEF Request
<1>4. c = [r EXCEPT !.forbidden = TRUE, !.page = TRUE, !.rule = 1]
  BY Zenon DEF a, b
<1> HIDE DEF c
<1>5. QED
  BY <1>1, <1>2, <1>3, <1>4, Zenon

\* The report was sent: the request is answered, or goes on as its page for 403.
LEMMA SendMessageKeeps ==
  ASSUME IInv, NEW k \in Child, SendMessage(k)
  PROVE  IInv'
<1>1. /\ ChildTypeOK /\ ChildInv(k) /\ TypeOK /\ pc[k] = "sending" /\ Verdict(k)
      /\ UNCHANGED <<parentVars, forked, get, reports, stale>>
  BY ChildTypesHold DEF IInv, SendMessage
<1>2. /\ request[k] \in Request /\ ServerConf(k) \in Conf
      /\ Len(ServerConf(k).rules) \in Nat
  BY <1>1, ChildTypes, LenProperties DEF Conf
<1>3. /\ request' \in [Child -> Request]
      /\ \A j \in Child \ {k} : request'[j] = request[j]
      /\ request'[k].server = request[k].server
      /\ request'[k].matching = request[k].matching
      /\ request'[k].header = request[k].header
      /\ request'[k].forbidden = TRUE
      /\ \/ /\ pc' = [pc EXCEPT ![k] = "done"]
            /\ request'[k].page = request[k].page /\ request'[k].set = request[k].set
         \/ pc' = [pc EXCEPT ![k] = "fixup"] /\ ~request[k].page /\ request'[k].page = TRUE
  <2>1. CASE /\ pc' = [pc EXCEPT ![k] = "done"]
             /\ request' = [request EXCEPT ![k].forbidden = TRUE]
    <3>1. request' = [request EXCEPT ![k] = [request[k] EXCEPT !.forbidden = TRUE]]
      BY <2>1, Zenon
    <3>2. [request[k] EXCEPT !.forbidden = TRUE] \in Request
      BY <1>2, Zenon DEF Request
    <3>3. request'[k] = [request[k] EXCEPT !.forbidden = TRUE]
      BY <1>1, <3>1, Zenon DEF ChildTypeOK
    <3>4. /\ request'[k].server = request[k].server
          /\ request'[k].matching = request[k].matching
          /\ request'[k].header = request[k].header
          /\ request'[k].forbidden = TRUE
          /\ request'[k].page = request[k].page /\ request'[k].set = request[k].set
      BY <1>2, <3>3 DEF Request
    <3>5. /\ request' \in [Child -> Request]
          /\ \A j \in Child \ {k} : request'[j] = request[j]
      BY <1>1, <3>1, <3>2 DEF ChildTypeOK
    <3>6. QED
      BY <2>1, <3>4, <3>5, Zenon
  <2>2. CASE /\ ~request[k].page
             /\ pc' = [pc EXCEPT ![k] = "fixup"]
             /\ request' = [request EXCEPT
                  ![k] = [@ EXCEPT !.forbidden = TRUE, !.page = TRUE, !.rule = 1]]
    <3>1. PICK r \in Request :
            /\ request' = [request EXCEPT ![k] = r]
            /\ r.server = request[k].server /\ r.matching = request[k].matching
            /\ r.header = request[k].header /\ r.forbidden = TRUE /\ r.page = TRUE
      BY <1>2, <2>2, PageType, Zenon
    <3>2. request'[k] = r
      BY <1>1, <3>1, Zenon DEF ChildTypeOK
    <3>3. /\ request' \in [Child -> Request]
          /\ \A j \in Child \ {k} : request'[j] = request[j]
      BY <1>1, <3>1 DEF ChildTypeOK
    <3>4. QED
      BY <2>2, <3>1, <3>2, <3>3, Zenon
  <2>3. QED
    BY <1>1, <2>1, <2>2, Zenon DEF Verdict
<1>4. ChildTypeOK'
  BY <1>1, <1>3, Zenon DEF ChildTypeOK, Location
<1>5. \A j \in Child \ {k} : Same(j)
  BY <1>1, <1>3 DEF ChildTypeOK, Same
<1>6. \/ /\ pc'[k] = "done"
         /\ request'[k].page = request[k].page /\ request'[k].set = request[k].set
      \/ pc'[k] = "fixup" /\ ~request[k].page /\ request'[k].page = TRUE
  BY <1>1, <1>3 DEF ChildTypeOK
<1>7. /\ ServerConf(k)' = ServerConf(k)
      /\ \A n \in Nat : Matches(k, n)' <=> Matches(k, n)
  BY <1>1, <1>3, SameRequest
<1>8. Reported(k)'
  BY <1>1, <1>3, <1>6 DEF ChildInv, Reported, Once, Twice
<1>9. Answered(k)'
  BY <1>1, <1>3, <1>6 DEF ChildInv, Answered
<1>10. Judged(k)'
  <2>1. reports'[k] = reports[k] /\ stale' = stale
    BY <1>1
  <2>2. k \notin stale =>
          /\ ByRule(reports[k]) =>
               ServerConf(k).enabled /\ Matches(k, Len(ServerConf(k).rules))
          /\ \/ ByRule(reports[k]) \/ ~ServerConf(k).enabled
             \/ ~Matches(k, Len(ServerConf(k).rules))
    BY <1>1 DEF ChildInv, Judged
  <2>3. QED
    BY <1>2, <1>6, <1>7, <2>1, <2>2 DEF Judged
<1>11. QED
  BY <1>1, <1>4, <1>5, <1>8, <1>9, <1>10, ForkedHolds, ChildStep DEF ChildInv

\* The filter reports a request because of a header that its own handler set: none
\* was left over, and the filter leaves none.
LEMMA OutputFilterKeeps ==
  ASSUME IInv, NEW k \in Child, OutputFilter(k)
  PROVE  IInv'
<1> DEFINE why == IF request[k].page THEN "page_header" ELSE "header"
<1>1. /\ ChildTypeOK /\ ChildInv(k) /\ TypeOK /\ pc[k] = "handler"
      /\ UNCHANGED <<parentVars, forked, get, stale>>
  BY ChildTypesHold DEF IInv, OutputFilter
<1>2. /\ request[k] \in Request /\ ServerConf(k) \in Conf
      /\ reports[k] \in Seq(Reason)
      /\ Len(ServerConf(k).rules) \in Nat
  BY <1>1, ChildTypes, LenProperties DEF Conf
<1>3. CASE /\ ServerConf(k).enabled /\ Report(k, why)
           /\ \E set \in BOOLEAN : (set \/ request[k].header) /\ UnsetHeader(k, set)
  <2>1. /\ request' \in [Child -> Request]
        /\ \A j \in Child \ {k} : request'[j] = request[j]
        /\ request'[k].server = request[k].server
        /\ request'[k].matching = request[k].matching
        /\ request'[k].page = request[k].page
        /\ request'[k].header = FALSE /\ request'[k].set = TRUE
    <3>1. ~request[k].header
      BY <1>1 DEF ChildInv, Reported
    <3>2. request' = [request EXCEPT
            ![k] = [request[k] EXCEPT !.header = FALSE, !.set = TRUE]]
      <4>1. PICK set \in BOOLEAN : set /\ UnsetHeader(k, set)
        BY <1>3, <3>1, Zenon
      <4>2. set = TRUE
        BY <4>1, Zenon
      <4>3. QED
        BY <4>1, <4>2, Zenon DEF UnsetHeader
    <3> DEFINE q == [request[k] EXCEPT !.header = FALSE, !.set = TRUE]
    <3>3. /\ q \in Request /\ q.server = request[k].server
          /\ q.matching = request[k].matching /\ q.page = request[k].page
          /\ q.header = FALSE /\ q.set = TRUE
      BY <1>2, Zenon DEF Request
    <3>4. request' = [request EXCEPT ![k] = q]
      BY <3>2
    <3> HIDE DEF q
    <3>5. QED
      BY <1>1, <3>3, <3>4, Zenon DEF ChildTypeOK
  <2>2. /\ pc'[k] = "sending" /\ reports'[k] = Append(reports[k], why)
        /\ reports' = [reports EXCEPT ![k] = Append(reports[k], why)]
    BY <1>1, <1>3 DEF Report, ChildTypeOK
  <2>3. ChildTypeOK'
    <3>1. Append(reports[k], why) \in Seq(Reason)
      BY <1>2, AppendProperties DEF Reason
    <3>2. QED
      BY <1>1, <1>3, <2>1, <2>2, <3>1, Zenon DEF ChildTypeOK, Report, Location
  <2>4. \A j \in Child \ {k} : Same(j)
    BY <1>1, <1>3, <2>1 DEF ChildTypeOK, Report, Same
  <2>5. /\ ServerConf(k)' = ServerConf(k)
        /\ \A n \in Nat : Matches(k, n)' <=> Matches(k, n)
    BY <1>1, <2>1, SameRequest
  <2>6. /\ Len(reports'[k]) = Len(reports[k]) + 1
        /\ reports'[k][Len(reports[k]) + 1] = why
        /\ \A i \in 1..Len(reports[k]) : reports'[k][i] = reports[k][i]
    <3>1. why \in Reason
      BY DEF Reason
    <3> HIDE DEF why
    <3>2. QED
      BY <1>2, <2>2, <3>1, AppendProperties
  <2>7. \/ Len(reports[k]) = 0 /\ ~request[k].page
        \/ Once(reports[k]) /\ request[k].page
    BY <1>1, <1>3, EmptySeq DEF ChildInv, Reported
  <2>8. Reported(k)'
    <3>1. CASE ~request[k].page
      <4>1. Len(reports'[k]) = 1 /\ reports'[k][1] = "header"
        BY <2>6, <2>7, <3>1
      <4>2. QED
        BY <2>1, <2>2, <3>1, <4>1 DEF Reported, Once, Twice
    <3>2. CASE request[k].page
      <4>1. /\ Len(reports'[k]) = 2 /\ reports'[k][1] \in {"rule", "header"}
            /\ reports'[k][2] = "page_header"
        <5>1. Len(reports[k]) = 1 /\ reports[k][1] \in {"rule", "header"}
          BY <2>7, <3>2 DEF Once
        <5>2. why = "page_header" /\ 1 + 1 = 2 /\ 1 \in 1..1
          BY <3>2
        <5> HIDE DEF why
        <5>3. QED
          BY <2>6, <5>1, <5>2
      <4>2. QED
        BY <2>1, <2>2, <3>2, <4>1 DEF Reported, Once, Twice
    <3>3. QED
      BY <3>1, <3>2
  <2>9. Answered(k)'
    <3>1. reports'[k] # <<>>
      BY <2>6, <2>7, EmptySeq DEF Once
    <3>2. QED
      BY <1>3, <2>2, <2>5, <3>1 DEF Answered
  <2>10. Judged(k)'
    <3>1. ByRule(reports'[k]) <=> ByRule(reports[k])
      BY <2>6, <2>7 DEF ByRule, Once
    <3>2. k \notin stale =>
            /\ ByRule(reports[k]) =>
                 ServerConf(k).enabled /\ Matches(k, Len(ServerConf(k).rules))
            /\ \/ ByRule(reports[k]) \/ ~ServerConf(k).enabled
               \/ ~Matches(k, Len(ServerConf(k).rules))
      BY <1>1 DEF ChildInv, Judged
    <3>3. QED
      BY <1>1, <1>2, <2>2, <2>5, <3>1, <3>2 DEF Judged
  <2>11. QED
    BY <1>1, <2>3, <2>4, <2>8, <2>9, <2>10, ForkedHolds, ChildStep DEF ChildInv
<1>4. CASE /\ pc' = [pc EXCEPT ![k] = "done"]
           /\ UNCHANGED <<request, reports>>
  <2>1. ChildTypeOK'
    BY <1>1, <1>4 DEF ChildTypeOK, Location
  <2>2. \A j \in Child \ {k} : Same(j)
    BY <1>1, <1>4 DEF ChildTypeOK, Same
  <2>3. pc'[k] = "done"
    BY <1>1, <1>4 DEF ChildTypeOK
  <2>4. /\ ServerConf(k)' = ServerConf(k)
        /\ \A n \in Nat : Matches(k, n)' <=> Matches(k, n)
    BY <1>1, <1>4, SameRequest
  <2>5. Reported(k)' /\ Answered(k)'
    BY <1>1, <1>4, <2>3 DEF ChildInv, Reported, Answered
  <2>6. Judged(k)'
    BY <1>1, <1>2, <1>4, <2>3, <2>4 DEF ChildInv, Judged
  <2>7. QED
    BY <1>1, <2>1, <2>2, <2>5, <2>6, ForkedHolds, ChildStep DEF ChildInv
<1>5. QED
  BY <1>1, <1>3, <1>4, Zenon DEF OutputFilter

\* The child is ready for the next request.
LEMMA EndRequestKeeps ==
  ASSUME IInv, NEW k \in Child, EndRequest(k)
  PROVE  IInv'
<1>1. ChildTypeOK /\ UNCHANGED <<parentVars, forked>>
  BY ChildTypesHold DEF EndRequest
<1>2. ChildTypeOK'
  <2>1. <<>> \in Seq(Reason)
    BY EmptySeq
  <2>2. QED
    BY <1>1, <2>1, NoRequestType DEF EndRequest, ChildTypeOK, Location
<1>3. \A j \in Child \ {k} : Same(j)
  BY <1>1 DEF EndRequest, ChildTypeOK, Same
<1>4. pc'[k] = "idle" /\ reports'[k] = <<>> /\ request'[k].header = FALSE
  BY <1>1 DEF EndRequest, ChildTypeOK, NoRequest, NewRequest
<1>5. ChildInv(k)'
  BY <1>4, EmptySeq DEF ChildInv, Reported, Twice, Answered, Judged, ByRule
<1>6. QED
  BY <1>1, <1>2, <1>3, <1>5, ForkedHolds, ChildStep
-----------------------------------------------------------------------------
(* The steps of the parent.                                                *)

\* A step of the parent keeps the invariant if it keeps the parent's part.
LEMMA ParentStep ==
  ASSUME IInv, UNCHANGED childVars,
         phase' \in {"pre", "config", "serving", "stopped"},
         conf' \in [Server -> Conf],
         {own', section', registered', lost'} \subseteq BOOLEAN,
         queue' \in Handle, restarts' \in 0..MaxRestarts,
         \A s \in Server : Len(conf'[s].rules) <= MaxRules,
         QueueInHand'
  PROVE  IInv'
<1>1. TypeOK'
  BY DEF IInv, TypeOK, childVars, Handle
<1>2. RulesBounded' /\ ForkedWithQueue'
  BY DEF IInv, RulesBounded, ForkedWithQueue, childVars
<1>3. ASSUME NEW k \in Child PROVE ChildInv(k)'
  BY SameChild DEF IInv, Same, childVars
<1>4. QED
  BY <1>1, <1>2, <1>3 DEF IInv

\* A directive outside any section.
LEMMA DirectiveKeeps ==
  ASSUME IInv, NEW s \in Server, NEW c \in Conf, Len(c.rules) <= MaxRules,
         Directive(s, c)
  PROVE  IInv'
<1>1. TypeOK /\ RulesBounded /\ QueueInHand
  BY DEF IInv
<1>2. /\ conf' \in [Server -> Conf]
      /\ \A t \in Server : Len(conf'[t].rules) <= MaxRules
  BY <1>1 DEF Directive, TypeOK, RulesBounded
<1>3. QueueInHand'
  BY <1>1 DEF Directive, QueueInHand
<1>4. /\ phase' \in {"pre", "config", "serving", "stopped"}
      /\ {own', section', registered', lost'} \subseteq BOOLEAN
      /\ queue' \in Handle /\ restarts' \in 0..MaxRestarts
      /\ UNCHANGED childVars
  BY <1>1, Zenon DEF Directive, TypeOK, Handle
<1>5. QED
  BY <1>2, <1>3, <1>4, ParentStep

\* The directives that are there.
LEMMA CommandKeeps ==
  ASSUME IInv, CmdEnable \/ CmdQueue \/ CmdRule
  PROVE  IInv'
<1>1. \A s \in Server : conf[s] \in Conf /\ Len(conf[s].rules) <= MaxRules
  BY DEF IInv, TypeOK, RulesBounded
<1>2. CASE CmdEnable
  <2>1. PICK s \in Server, flag \in BOOLEAN :
          Directive(s, [conf[s] EXCEPT !.enabled = flag])
    BY <1>2, Zenon DEF CmdEnable
  <2>2. /\ [conf[s] EXCEPT !.enabled = flag] \in Conf
        /\ Len([conf[s] EXCEPT !.enabled = flag].rules) <= MaxRules
    BY <1>1 DEF Conf
  <2>3. QED
    BY <2>1, <2>2, DirectiveKeeps, Zenon
<1>3. CASE CmdQueue
  <2>1. "main" \in Server
    BY DEF Server
  <2>2. /\ [conf["main"] EXCEPT !.queue = TRUE] \in Conf
        /\ Len([conf["main"] EXCEPT !.queue = TRUE].rules) <= MaxRules
    BY <1>1, <2>1, Zenon DEF Conf
  <2>3. QED
    BY <1>3, <2>1, <2>2, DirectiveKeeps, Zenon DEF CmdQueue
<1>4. CASE CmdRule
  <2>1. PICK v \in Variable :
          /\ Len(conf["main"].rules) < MaxRules
          /\ Directive("main", [conf["main"] EXCEPT !.rules = Append(@, v)])
    BY <1>4, Zenon DEF CmdRule
  <2>2. "main" \in Server /\ conf["main"] \in Conf
    BY <1>1 DEF Server
  <2>3. conf["main"].rules \in Seq(Variable)
    BY <2>2 DEF Conf
  <2>4. /\ Append(conf["main"].rules, v) \in Seq(Variable)
        /\ Len(Append(conf["main"].rules, v)) <= MaxRules
    BY <2>1, <2>3, AppendProperties, LenProperties, ModBanipAssumption
  <2>5. /\ [conf["main"] EXCEPT !.rules = Append(@, v)] \in Conf
        /\ [conf["main"] EXCEPT !.rules = Append(@, v)].rules
             = Append(conf["main"].rules, v)
    BY <2>2, <2>4 DEF Conf
  <2>6. QED
    BY <2>1, <2>2, <2>4, <2>5, DirectiveKeeps, Zenon
<1>5. QED
  BY <1>2, <1>3, <1>4

\* Steps that leave the configurations and the queue alone.
LEMMA PhaseKeeps ==
  ASSUME IInv, PreConfig \/ CmdSection \/ CmdError
  PROVE  IInv'
<1>1. TypeOK /\ RulesBounded /\ QueueInHand
  BY DEF IInv
<1>2. /\ UNCHANGED <<conf, own, queue, registered, lost, restarts, childVars>>
      /\ section' \in {section, TRUE}
      /\ phase \in {"pre", "config"} /\ phase' \in {phase, "config", "stopped"}
  BY Zenon DEF PreConfig, CmdSection, CmdError
<1>3. QueueInHand'
  BY <1>1, <1>2 DEF QueueInHand
<1>4. /\ conf' \in [Server -> Conf]
      /\ \A s \in Server : Len(conf'[s].rules) <= MaxRules
  BY <1>1, <1>2 DEF TypeOK, RulesBounded
<1>5. /\ phase' \in {"pre", "config", "serving", "stopped"}
      /\ {own', section', registered', lost'} \subseteq BOOLEAN
      /\ queue' \in Handle /\ restarts' \in 0..MaxRestarts
  BY <1>1, <1>2, Zenon DEF TypeOK, Handle
<1>6. QED
  BY <1>2, <1>3, <1>4, <1>5, ParentStep

\* After post_config there is a queue exactly if the main server is enabled,
\* and the virtual host is either the main server's or off.
LEMMA PostConfigKeeps ==
  ASSUME IInv, PostConfig
  PROVE  IInv'
<1>1. TypeOK /\ RulesBounded /\ QueueInHand /\ phase = "config"
  BY DEF IInv, PostConfig
<1>2. queue = "null" /\ ~lost /\ registered = FALSE
  BY <1>1 DEF QueueInHand, TypeOK
<1>3. /\ conf' \in [Server -> Conf] /\ conf'["main"] = conf["main"]
      /\ conf'["vhost"] \in {NewConf, conf["main"]}
      /\ \A s \in Server : Len(conf'[s].rules) <= MaxRules
  <2>1. conf["main"] \in Conf /\ Len(conf["main"].rules) <= MaxRules
    BY <1>1 DEF TypeOK, RulesBounded, Server
  <2>2. conf' = [conf EXCEPT !["vhost"] = IF own THEN NewConf ELSE conf["main"]]
    BY DEF PostConfig, Merge, Merged
  <2>3. PICK c \in {NewConf, conf["main"]} : conf' = [conf EXCEPT !["vhost"] = c]
    BY ONLY <2>2, Zenon
  <2>4. c \in Conf /\ Len(c.rules) <= MaxRules
    BY <2>1, <2>3, NewConfType, ModBanipAssumption
  <2>5. QED
    BY <1>1, <2>3, <2>4 DEF TypeOK, RulesBounded, Server
<1>4. /\ conf'["vhost"].enabled => conf'["main"].enabled
      /\ conf["main"].enabled \in BOOLEAN
  <2>1. conf["main"] \in Conf
    BY <1>1, Zenon DEF TypeOK, Server
  <2>2. QED
    BY <1>3, <2>1 DEF NewConf, Conf
<1>5. /\ UNCHANGED <<own, section, restarts, childVars>>
      /\ \/ /\ conf["main"].enabled
            /\ queue' \in {"null"} \cup {Opened(opened) : opened \in BOOLEAN}
            /\ registered' = (queue' # "null")
            /\ lost' = (lost \/ queue # "null")
            /\ phase' = IF queue' # "null" THEN "serving" ELSE "stopped"
         \/ phase' = "stopped" /\ UNCHANGED <<queue, registered, lost>>
         \/ /\ ~conf["main"].enabled
            /\ phase' = "serving"
            /\ UNCHANGED <<queue, registered, lost>>
  BY Zenon DEF PostConfig
<1>6. /\ ~lost' /\ lost' \in BOOLEAN /\ registered' \in BOOLEAN
      /\ queue' \in {"null", "unopened"}
      /\ registered' <=> queue' = "unopened"
      /\ \/ phase' = "stopped" /\ queue' = "null"
         \/ phase' = "serving" /\ (queue' = "unopened" <=> conf'["main"].enabled)
  <2>1. CASE /\ conf["main"].enabled
             /\ queue' \in {"null"} \cup {Opened(opened) : opened \in BOOLEAN}
             /\ registered' = (queue' # "null")
             /\ lost' = (lost \/ queue # "null")
             /\ phase' = IF queue' # "null" THEN "serving" ELSE "stopped"
    <3>1. \A opened \in BOOLEAN : Opened(opened) \in {"null", "unopened"}
      BY DEF Opened, QueueOpen, QUEUE_ERR_OK
    <3>2. queue' \in {"null", "unopened"}
      BY <2>1, <3>1, Zenon
    <3>3. QED
      BY <1>2, <1>3, <2>1, <3>2, Zenon
  <2>2. CASE UNCHANGED <<queue, registered, lost>> /\ phase' = "stopped"
    BY <1>1, <1>2, <2>2 DEF TypeOK
  <2>3. CASE /\ ~conf["main"].enabled /\ phase' = "serving"
             /\ UNCHANGED <<queue, registered, lost>>
    BY <1>1, <1>2, <1>3, <2>3 DEF TypeOK
  <2>4. QED
    BY <1>5, <2>1, <2>2, <2>3, Zenon
<1>7. QueueInHand'
  BY <1>4, <1>6 DEF QueueInHand
<1>8. /\ {own', section', registered', lost'} \subseteq BOOLEAN
      /\ restarts' \in 0..MaxRestarts
      /\ phase' \in {"pre", "config", "serving", "stopped"} /\ queue' \in Handle
  BY <1>1, <1>5, <1>6, Zenon DEF TypeOK, Handle
<1>9. QED
  BY <1>3, <1>5, <1>6, <1>7, <1>8, ParentStep

\* A restart closes the queue there is and begins with new configurations.
LEMMA RestartKeeps ==
  ASSUME IInv, Restart
  PROVE  IInv'
<1>1. TypeOK /\ QueueInHand /\ restarts < MaxRestarts
  BY DEF IInv, Restart
<1>2. /\ queue' = "null" /\ registered' = FALSE /\ phase' = "config"
      /\ conf' = [s \in Server |-> NewConf] /\ lost' = lost
      /\ own' = FALSE /\ section' = FALSE /\ restarts' = restarts + 1
      /\ UNCHANGED childVars
  <2>1. queue' = "null"
    BY <1>1 DEF Restart, QueueClose, QueueInHand, TypeOK
  <2>2. QED
    BY <2>1, Zenon DEF Restart, QueueClose
<1>3. QueueInHand'
  BY <1>1, <1>2 DEF QueueInHand
<1>4. /\ conf' \in [Server -> Conf]
      /\ \A s \in Server : Len(conf'[s].rules) <= MaxRules
  BY <1>2, NewConfType, ModBanipAssumption
<1>5. {own', section', registered', lost'} \subseteq BOOLEAN /\ queue' \in Handle
  BY <1>1, <1>2, Zenon DEF TypeOK, Handle
<1>6. restarts' \in 0..MaxRestarts
  <2>1. restarts \in 0..MaxRestarts
    BY <1>1, Zenon DEF TypeOK
  <2>2. QED
    BY <1>1, <1>2, <2>1, ModBanipAssumption
<1>7. QED
  BY <1>2, <1>3, <1>4, <1>5, <1>6, ParentStep
-----------------------------------------------------------------------------
(* The theorems.                                                           *)

\* Apache starts without a queue and without children.
LEMMA InitInv == ASSUME Init PROVE IInv
<1>1. TypeOK
  <2>1. <<>> \in Seq(Reason)
    BY EmptySeq
  <2>2. ChildTypeOK
    BY <2>1, NewForkedType, NoRequestType DEF Init, ChildTypeOK, Location
  <2>3. /\ conf \in [Server -> Conf] /\ restarts \in 0..MaxRestarts
        /\ phase \in {"pre", "config", "serving", "stopped"}
        /\ queue \in Handle
    BY NewConfType, ModBanipAssumption DEF Init, Handle
  <2>4. {own, section, registered, lost} \subseteq BOOLEAN
    BY Zenon DEF Init
  <2>5. QED
    BY <2>2, <2>3, <2>4, Zenon DEF TypeOK, ChildTypeOK, Location, Forked, Request, Handle, Reason
<1>2. RulesBounded
  BY NewConfType, NewForkedType, ModBanipAssumption DEF Init, RulesBounded
<1>3. QueueInHand
  BY DEF Init, QueueInHand
<1>4. ForkedWithQueue
  BY NewForkedType DEF Init, ForkedWithQueue, NewConf
<1>5. ASSUME NEW k \in Child PROVE ChildInv(k)
  <2>1. pc[k] = "none" /\ reports[k] = <<>> /\ request[k].header = FALSE
    BY DEF Init, NoRequest, NewRequest
  <2>2. QED
    BY <2>1, EmptySeq DEF ChildInv, Reported, Twice, Answered, Judged, ByRule
<1>6. QED
  BY <1>1, <1>2, <1>3, <1>4, <1>5 DEF IInv

\* Every step of Apache and of the module keeps the invariant.
LEMMA NextInv == ASSUME IInv, [Next]_vars PROVE IInv'
<1>1. CASE PreConfig \/ CmdSection \/ CmdError
  BY <1>1, PhaseKeeps
<1>2. CASE CmdEnable \/ CmdQueue \/ CmdRule
  BY <1>2, CommandKeeps
<1>3. CASE PostConfig
  BY <1>3, PostConfigKeeps
<1>4. CASE Restart
  BY <1>4, RestartKeeps
<1>5. ASSUME NEW k \in Child, Fork(k) PROVE IInv'
  BY <1>5, ForkKeeps
<1>6. ASSUME NEW k \in Child, ChildExit(k) PROVE IInv'
  <2>1. Exit(k)
    BY ONLY <1>6 DEF ChildExit
  <2>2. QED
    BY <2>1, ExitKeeps
<1>7. ASSUME NEW k \in Child, Accept(k) PROVE IInv'
  BY <1>7, AcceptKeeps
<1>8. ASSUME NEW k \in Child, Fixup(k) PROVE IInv'
  BY <1>8, FixupKeeps
<1>9. ASSUME NEW k \in Child, SendMessage(k) PROVE IInv'
  BY <1>9, SendMessageKeeps
<1>10. ASSUME NEW k \in Child, OutputFilter(k) PROVE IInv'
  BY <1>10, OutputFilterKeeps
<1>11. ASSUME NEW k \in Child, EndRequest(k) PROVE IInv'
  BY <1>11, EndRequestKeeps
<1>12. CASE UNCHANGED vars
  <2>1. UNCHANGED parentVars /\ UNCHANGED childVars
    BY <1>12 DEF vars
  <2>2. QueueInHand'
    BY <2>1 DEF IInv, QueueInHand, parentVars
  <2>3. /\ phase' \in {"pre", "config", "serving", "stopped"}
        /\ conf' \in [Server -> Conf]
        /\ {own', section', registered', lost'} \subseteq BOOLEAN
        /\ queue' \in Handle /\ restarts' \in 0..MaxRestarts
    BY <2>1, Zenon DEF IInv, TypeOK, parentVars, Handle
  <2>4. \A s \in Server : Len(conf'[s].rules) <= MaxRules
    BY <2>1, Zenon DEF IInv, RulesBounded, parentVars
  <2>5. QED
    BY <2>1, <2>2, <2>3, <2>4, ParentStep
<1>13. QED
  BY <1>1, <1>2, <1>3, <1>4, <1>5, <1>6, <1>7, <1>8, <1>9, <1>10, <1>11, <1>12, Zenon
  DEF Next

\* The invariant of module ModBanip: the queue of the parent and of its children,
\* and what has been reported and decided at each point of a request.
THEOREM Invariance == Spec => []IInv
<1>1. Init => IInv
  BY InitInv
<1>2. IInv /\ [Next]_vars => IInv'
  BY NextInv
<1>3. QED
  BY <1>1, <1>2, PTL DEF Spec

\* The variables keep their types: banip_fixup never looks at a rule beyond the
\* end of the rules.
THEOREM TypeCorrect == Spec => []TypeOK
<1>1. IInv => TypeOK
  BY DEF IInv
<1>2. QED
  BY <1>1, Invariance, PTL

\* Whatever the directives of the main server, the virtual host and the
\* directories and however often Apache restarts, queue_send is called with a
\* handle, and with one that queue_open failed on.
THEOREM SendersHaveQueue == Spec => []SendHasQueue
<1>1. IInv => SendHasQueue
  <2>1. SUFFICES ASSUME IInv, NEW k \in Child, pc[k] = "sending"
                 PROVE  forked[k].queue = "unopened"
    BY DEF SendHasQueue
  <2>2. ServerConf(k).enabled /\ request[k] \in Request
    BY <2>1, ChildTypes DEF IInv, ChildInv, Answered
  <2>3. QED
    BY <2>1, <2>2 DEF IInv, ForkedWithQueue, ServerConf, Request
<1>2. QED
  BY <1>1, Invariance, PTL

\* A serving parent has a handle exactly if the configuration in force asks for
\* one, loses none and keeps none when it stops, after any number of restarts.
THEOREM QueueFollowsConf == Spec => []QueueKept
<1>1. IInv => QueueKept
  BY DEF IInv, QueueInHand, QueueKept
<1>2. QED
  BY <1>1, Invariance, PTL

\* A request is answered 403 if and only if it was reported.
THEOREM AnswersReported == Spec => []ForbiddenReported
<1>1. IInv => ForbiddenReported
  BY DEF IInv, ChildInv, Answered, ForbiddenReported
<1>2. QED
  BY <1>1, Invariance, PTL

\* A request and its page for 403 are reported at most once each, and the page for
\* a header only if its own handler set it.
THEOREM ReportsOnce == Spec => []ReportedOnce
<1>1. IInv => ReportedOnce
  <2>1. SUFFICES ASSUME IInv, NEW k \in Child
                 PROVE  /\ Len(reports[k]) <= IF request[k].page THEN 2 ELSE 1
                        /\ \A i \in 1..Len(reports[k]) :
                             reports[k][i] \in IF i = 1 THEN {"rule", "header"}
                                              ELSE {"page_rule", "page_header"}
                        /\ "page_header" \in Range(reports[k]) => request[k].set
    BY Zenon DEF ReportedOnce
  <2>2. /\ reports[k] \in Seq(Reason)
        /\ reports[k] = <<>> \/ Once(reports[k]) \/ Twice(reports[k])
        /\ Twice(reports[k]) =>
             request[k].page /\ (reports[k][2] = "page_header" => request[k].set)
    BY <2>1, ChildTypes, Zenon DEF IInv, ChildInv, Reported
  <2>3. DOMAIN reports[k] = 1..Len(reports[k])
    BY <2>2, LenProperties
  <2>4. CASE reports[k] = <<>>
    BY <2>4, EmptySeq DEF Range
  <2>5. CASE Once(reports[k])
    <3>1. \A i \in 1..Len(reports[k]) : i = 1
      BY <2>5 DEF Once
    <3>2. Range(reports[k]) = {reports[k][1]}
      BY <2>3, <2>5, <3>1 DEF Once, Range
    <3>3. QED
      BY <2>5, <3>1, <3>2 DEF Once
  <2>6. CASE Twice(reports[k])
    <3>1. \A i \in 1..Len(reports[k]) : i = 1 \/ i = 2
      BY <2>6 DEF Twice
    <3>2. Range(reports[k]) = {reports[k][1], reports[k][2]}
      BY <2>3, <2>6, <3>1 DEF Twice, Range
    <3>3. QED
      BY <2>2, <2>6, <3>1, <3>2 DEF Twice
  <2>7. QED
    BY <2>2, <2>4, <2>5, <2>6, Zenon
<1>2. QED
  BY <1>1, Invariance, PTL

\* A rule reported the request exactly if a rule matches it, unless a table of
\* an earlier request was read.
THEOREM RulesDecide == Spec => []RuleVerdict
<1>1. IInv => RuleVerdict
  <2>1. SUFFICES ASSUME IInv, NEW k \in Child, pc[k] = "done", k \notin stale
                 PROVE  Range(reports[k]) \cap {"rule"} # {} <=>
                          /\ ServerConf(k).enabled
                          /\ (Range(ServerConf(k).rules) \ {"POST", "other"})
                               \cap request[k].matching # {}
    BY DEF RuleVerdict
  <2>2. /\ reports[k] \in Seq(Reason)
        /\ ServerConf(k).rules \in Seq(Variable)
    BY <2>1, ChildTypes DEF IInv, Conf
  <2>3. Range(reports[k]) \cap {"rule"} # {} <=> ByRule(reports[k])
    <3>1. reports[k] = <<>> \/ Once(reports[k]) \/ Twice(reports[k])
      BY <2>1 DEF IInv, ChildInv, Reported
    <3>2. DOMAIN reports[k] = 1..Len(reports[k])
      BY <2>2, LenProperties
    <3>3. CASE reports[k] = <<>>
      BY <3>3, EmptySeq DEF Range, ByRule
    <3>4. CASE Once(reports[k])
      BY <3>2, <3>4 DEF Range, Once, ByRule
    <3>5. CASE Twice(reports[k])
      <4>1. Range(reports[k]) = {reports[k][1], reports[k][2]}
        BY <3>2, <3>5 DEF Twice, Range
      <4>2. QED
        <5>1. Len(reports[k]) > 0 /\ reports[k][2] # "rule"
          BY <3>5 DEF Twice
        <5>2. QED
          BY <4>1, <5>1, Zenon DEF ByRule
    <3>6. QED
      BY <3>1, <3>3, <3>4, <3>5, Zenon
  <2>4. (Range(ServerConf(k).rules) \ {"POST", "other"}) \cap request[k].matching # {}
          <=> Matches(k, Len(ServerConf(k).rules))
    BY <2>2, LenProperties DEF Range, Matches
  <2>5. ByRule(reports[k]) <=>
          ServerConf(k).enabled /\ Matches(k, Len(ServerConf(k).rules))
    BY <2>1 DEF IInv, ChildInv, Judged
  <2>6. QED
    BY <2>3, <2>4, <2>5
<1>2. QED
  BY <1>1, Invariance, PTL
=============================================================================
