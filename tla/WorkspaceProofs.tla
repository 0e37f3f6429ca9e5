--------------------------- MODULE WorkspaceProofs ---------------------------
(***************************************************************************)
(* Proofs about the pages of a workspace and about the whole of it.        *)
(*                                                                         *)
(* The pages first, for any order in which answers come: Navigation,       *)
(* Dashboard, Competitive, Copilot; and the Crawler that walks through     *)
(* them, for any site.                                                     *)
(*                                                                         *)
(* Then the workspace: whoever is at work, every part of it goes by its    *)
(* own specification or stays as it is, so that what was proved of a part  *)
(* alone holds of it in the workspace.  The parts that share state -       *)
(* operations and reports the checklist, agents and experiments the        *)
(* recommendations - take part in invariants of their own.                 *)
(***************************************************************************)
EXTENDS Workspace, OfficeProofs, AdviceProofs

(***************************************************************************)
(* Navigation                                                              *)
(***************************************************************************)

(* Where the redirects lead to from here, as far as the sessions let them. *)
Goal == Canonical(IF at.path \in AuthRoute THEN Destination(at.next) ELSE at.path)
LeadsThere == Goal = wanted \/ (Goal = Unauthorized /\ Restricted(wanted))
SettledPage ==
    /\ at.phase # "middleware" => at.path \in AuthRoute \/ Protected(at.path)
    /\ at.next \notin AuthRoute

NavInv == NavigationTypeOK /\ LeadsThere /\ SettledPage

(* An address that is shown is what it stands for.                         *)
LEMMA CanonicalPaths ==
  /\ \A p \in Paths \ AuthRoute : Canonical(p) \in Paths /\ Protected(Canonical(p)) /\ Canonical(Canonical(p)) = Canonical(p)
  /\ \A p \in Paths : Protected(p) => Canonical(p) = p
  /\ Protected(Home) /\ Protected(Unauthorized)
BY NavigationAssumption DEF Canonical, Protected, Home, Unauthorized, AuthRoute

LEMMA NavInitInv == NavigationInit => NavInv
<1> SUFFICES ASSUME NavigationInit PROVE NavInv
  OBVIOUS
<1>1. NavigationTypeOK
  BY NavigationAssumption DEF NavigationInit, NavigationTypeOK, NoNext, Session, AuthRoute
<1>2. Goal = Home /\ wanted = Home
  BY NavigationAssumption, CanonicalPaths DEF NavigationInit, Goal, Destination, AuthRoute
<1> QED
  BY <1>1, <1>2, NavigationAssumption DEF NavInv, LeadsThere, SettledPage, NavigationInit, NoNext, AuthRoute

(* The addresses that a redirect leads to stand for the same page.         *)
LEMMA RedirectKept ==
  ASSUME NavInv, NEW path \in Paths, NEW next \in (Paths \ AuthRoute) \cup {NoNext},
         Redirects(path, next),
         stored' \in Session, cookie' \in Session, wanted' \in Paths,
         LET goal == Canonical(IF path \in AuthRoute THEN Destination(next) ELSE path)
         IN  goal = wanted' \/ (goal = Unauthorized /\ Restricted(wanted'))
  PROVE  NavInv'
<1>1. at' = [path |-> path, next |-> next, phase |-> "middleware"]
  BY DEF Redirects
<1>2. NavigationTypeOK'
  BY <1>1 DEF NavigationTypeOK
<1>3. LeadsThere'
  BY <1>1 DEF LeadsThere, Goal, Restricted
<1>4. next \notin AuthRoute
  BY NavigationAssumption DEF NoNext, AuthRoute
<1> QED
  BY <1>1, <1>2, <1>3, <1>4 DEF NavInv, SettledPage

LEMMA StayKept ==
  ASSUME NavInv, NEW phase \in {"page", "settled"}, Stays(phase), UNCHANGED <<stored, cookie, wanted>>,
         at.path \in AuthRoute \/ Protected(at.path)
  PROVE  NavInv'
<1>0. at \in [path : Paths, next : Paths \cup {NoNext}, phase : {"middleware", "page", "settled"}]
  BY DEF NavInv, NavigationTypeOK
<1>1. at'.path = at.path /\ at'.next = at.next /\ at'.phase = phase
      /\ at' \in [path : Paths, next : Paths \cup {NoNext}, phase : {"middleware", "page", "settled"}]
  BY <1>0 DEF Stays
<1>2. LeadsThere'
  BY <1>1 DEF NavInv, LeadsThere, Goal, Restricted
<1> QED
  BY <1>1, <1>2 DEF NavInv, NavigationTypeOK, SettledPage

LEMMA NavNextInv == NavInv /\ [NavNext]_navVars => NavInv'
<1> SUFFICES ASSUME NavInv, [NavNext]_navVars PROVE NavInv'
  OBVIOUS
<1>0. /\ at.path \in Paths /\ at.next \in Paths \cup {NoNext}
      /\ stored \in Session /\ cookie \in Session /\ wanted \in Paths
      /\ Home \in Paths /\ Unauthorized \in Paths /\ NoNext \notin Paths
      /\ "/login" \in Paths /\ "/login" \in AuthRoute /\ NoSession \in Session
      /\ Home \notin AuthRoute /\ Unauthorized \notin AuthRoute
      /\ Destination(at.next) \in Paths \ AuthRoute
  BY NavigationAssumption DEF NavInv, NavigationTypeOK, NoNext, Session, AuthRoute, Home,
     Unauthorized, Destination, SettledPage
<1>1. ASSUME NEW path \in Paths, Protected(path), Canonical(path) = Goal, SignIn(path),
             UNCHANGED <<stored, cookie, wanted>>
      PROVE  NavInv'
  <2>1. Destination(path) = path
    BY <1>0 DEF Destination
  <2> QED
    BY <1>0, <1>1, <2>1, RedirectKept DEF SignIn, NavInv, LeadsThere, Protected
<1>2. ASSUME Protected(at.path), Restricted(at.path), Refuse(at.path), UNCHANGED <<stored, cookie, wanted>>
      PROVE  NavInv'
  <2>1. Goal = at.path /\ at.path # Unauthorized
    BY <1>0, <1>2, CanonicalPaths, NavigationAssumption DEF Goal, Protected, Restricted
  <2>2. Restricted(wanted)
    BY <1>2, <2>1 DEF NavInv, LeadsThere
  <2>3. Canonical(Unauthorized) = Unauthorized
    BY <1>0, CanonicalPaths
  <2> QED
    BY <1>0, <1>2, <2>2, <2>3, RedirectKept DEF Refuse
<1>3. ASSUME at.path \in AuthRoute, Redirects(Destination(at.next), NoNext),
             stored' \in Session, cookie' \in Session, UNCHANGED wanted
      PROVE  NavInv'
  <2>1. PICK path \in Paths \ AuthRoute : path = Destination(at.next)
    BY <1>0
  <2> QED
    BY <1>0, <1>3, <2>1, RedirectKept DEF NavInv, LeadsThere, Goal
<1>4. CASE Middleware
  <2>1. at.phase = "middleware" /\ UNCHANGED <<stored, cookie, wanted>>
    BY <1>4 DEF Middleware
  <2>2. CASE at.path = "/" /\ (Redirects(Home, NoNext) \/ SignIn(Home))
    <3>1. Goal = Home /\ Canonical(Home) = Home /\ Protected(Home)
      BY <1>0, <2>2, NavigationAssumption, CanonicalPaths DEF Goal, Canonical, AuthRoute
    <3> QED
      BY <1>0, <1>1, <2>1, <2>2, <3>1, RedirectKept DEF NavInv, LeadsThere
  <2>3. CASE at.path \in DOMAIN RedirectOf /\ Redirects(RedirectOf[at.path], NoNext)
    <3>1. PICK path \in Paths \ AuthRoute : path = RedirectOf[at.path]
      BY <2>3, NavigationAssumption
    <3>2. Goal = path /\ Canonical(path) = path
      BY <2>3, <3>1, NavigationAssumption DEF Goal, Canonical
    <3> QED
      BY <1>0, <2>1, <2>3, <3>1, <3>2, RedirectKept DEF NavInv, LeadsThere
  <2>4. CASE /\ Protected(at.path)
             /\ \/ SignIn(at.path)
                \/ Restricted(at.path) /\ Refuse(at.path)
                \/ Stays("page")
    <3>1. Goal = Canonical(at.path)
      BY <2>4 DEF Goal, Protected
    <3> QED
      BY <1>0, <1>1, <1>2, <2>1, <2>4, <3>1, StayKept
  <2>5. CASE at.path \in AuthRoute /\ (Redirects(Destination(at.next), NoNext) \/ Stays("page"))
    BY <1>0, <1>3, <2>1, <2>5, StayKept
  <2> QED
    BY <1>4, <2>2, <2>3, <2>4, <2>5 DEF Middleware
<1>5. CASE AuthPage
  BY <1>0, <1>3, <1>5, StayKept DEF AuthPage
<1>6. CASE ShellPage
  <2>1. Goal = Canonical(at.path)
    BY <1>6 DEF Goal, ShellPage, Protected
  <2> QED
    BY <1>0, <1>1, <1>2, <1>6, <2>1, StayKept DEF ShellPage
<1>7. CASE Submit
  BY <1>3, <1>7 DEF Submit, Session
<1>8. CASE Visit
  <2>1. PICK path \in Paths, next \in (Paths \ AuthRoute) \cup {NoNext} :
            /\ Redirects(path, next)
            /\ wanted' = Canonical(IF path \in AuthRoute THEN Destination(next) ELSE path)
    BY <1>8 DEF Visit
  <2>2. wanted' \in Paths
    BY <1>0, <2>1, CanonicalPaths DEF Destination
  <2> QED
    BY <1>0, <1>8, <2>1, <2>2, RedirectKept DEF Visit
<1>9. CASE Logout \/ CookieExpires \/ UNCHANGED navVars
  BY <1>0, <1>9 DEF Logout, CookieExpires, navVars, NavInv, NavigationTypeOK, LeadsThere, Goal,
     Restricted, SettledPage
<1> QED
  BY <1>4, <1>5, <1>6, <1>7, <1>8, <1>9 DEF NavNext, NavStep

LEMMA NavInvHolds == NavSpec => []NavInv
BY NavInitInv, NavNextInv, PTL DEF NavSpec

LEMMA NavInvArrives == NavInv => ArrivesWhereAsked
BY CanonicalPaths DEF NavInv, NavigationTypeOK, LeadsThere, Goal, ArrivesWhereAsked, Protected

(* A dashboard page that stays is the one that was asked for, or says that *)
(* the role is not allowed there, for any pages, roles and restrictions    *)
(* (middleware, DashboardShell, useRouteAccessGuard).                      *)
THEOREM Arrives == NavSpec => []ArrivesWhereAsked
BY NavInvHolds, NavInvArrives, PTL

(***************************************************************************)
(* Competitor signals                                                      *)
(***************************************************************************)

(* An answer that is taken out of the middle of those on their way.        *)
LEMMA RemoveAtProperties ==
  ASSUME NEW S, NEW s \in Seq(S), NEW k \in 1..Len(s)
  PROVE  /\ RemoveAt(s, k) \in Seq(S)
         /\ Len(RemoveAt(s, k)) = Len(s) - 1
         /\ \A i \in 1..(Len(s) - 1) :
                RemoveAt(s, k)[i] = IF i < k THEN s[i] ELSE s[i + 1]
<1> DEFINE front == SubSeq(s, 1, k - 1)
           back == SubSeq(s, k + 1, Len(s))
<1>1. Len(s) \in Nat /\ k \in Int /\ \A i \in 1..Len(s) : s[i] \in S
  OBVIOUS
<1>2. front \in Seq(S) /\ Len(front) = k - 1 /\ \A i \in 1..(k - 1) : front[i] = s[i]
  <2>1. \A i \in 1..(k - 1) : s[i] \in S
    BY <1>1
  <2> QED
    BY <1>1, <2>1, SubSeqProperties
<1>3. back \in Seq(S) /\ Len(back) = Len(s) - k /\ \A i \in 1..(Len(s) - k) : back[i] = s[k + i]
  <2>1. \A i \in (k + 1)..Len(s) : s[i] \in S
    BY <1>1
  <2>2. /\ back \in Seq(S)
        /\ Len(back) = IF k + 1 <= Len(s) THEN Len(s) - (k + 1) + 1 ELSE 0
        /\ \A i \in 1..(Len(s) - (k + 1) + 1) : back[i] = s[k + 1 + i - 1]
    BY <1>1, <2>1, SubSeqProperties
  <2> QED
    BY <1>1, <2>2
<1>4. RemoveAt(s, k) = front \o back
  BY DEF RemoveAt
<1> HIDE DEF front, back
<1>5. /\ front \o back \in Seq(S)
      /\ Len(front \o back) = Len(front) + Len(back)
      /\ \A i \in 1..(Len(front) + Len(back)) :
             (front \o back)[i] = IF i <= Len(front) THEN front[i] ELSE back[i - Len(front)]
  BY <1>2, <1>3, ConcatProperties
<1> QED
  BY <1>1, <1>2, <1>3, <1>4, <1>5

(* The row that an analyst is about to make is not there yet as his own;   *)
(* what was saved is filed and listed.                                     *)
Making == {"find", "create", "reload"}
FormFits(a) ==
    /\ form[a].pc \in Making => form[a].draft \in Signals
    /\ form[a].pc = "create" =>
           \A k \in DOMAIN signals : signals[k].signal = form[a].draft => signals[k].by # a
    /\ form[a].pc = "reload" => form[a].draft \in Filed
    /\ form[a].saved \subseteq Filed
    /\ form[a].pc # "loading" => form[a].stale \/ form[a].saved \subseteq form[a].list
SignalRows == Seq([signal : Signals, by : Analysts])
FormsInv ==
    /\ signals \in SignalRows /\ form \in [Analysts -> Form]
    /\ FiledOnceByEach
    /\ \A a \in Analysts : FormFits(a)

(* The newest request of a panel is for its filter.                        *)
PanelFits(pnl) ==
    /\ pnl.newest => pnl.asked # <<>> /\ pnl.asked[Len(pnl.asked)] = pnl.filter
    /\ pnl.settled => pnl.data = pnl.filter
    /\ pnl.loading => pnl.asked # <<>>
PanelsInv ==
    /\ tab \in Panels \cup {"overview"} /\ panel \in [Panels -> Panel]
    /\ \A p \in Panels : PanelFits(panel[p])

(* What is evaluated are the rules beside it, or they have changed.        *)
WatchInv ==
    /\ watch \in Watch
    /\ watch.asked # NoRules => watch.asked = watch.rules \/ watch.changed
    /\ ResultsAreOfTheRules

CompetitiveInv == FormsInv /\ PanelsInv /\ WatchInv

LEMMA CompetitiveInitInv == CompetitiveInit => CompetitiveInv
<1> SUFFICES ASSUME CompetitiveInit PROVE CompetitiveInv
  OBVIOUS
<1>1. FormsInv
  <2>1. signals \in SignalRows /\ DOMAIN signals = {}
    BY DEF CompetitiveInit, SignalRows
  <2>2. form \in [Analysts -> Form]
    BY DEF CompetitiveInit, Form, FormPc
  <2>3. FiledOnceByEach
    BY <2>1 DEF FiledOnceByEach
  <2>4. \A a \in Analysts : FormFits(a)
    BY DEF CompetitiveInit, FormFits, Making, Filed
  <2> QED
    BY <2>1, <2>2, <2>3, <2>4 DEF FormsInv
<1>2. PanelsInv
  <2>1. (CHOOSE f \in Filters : TRUE) \in Filters
    BY CompetitiveAssumption
  <2>2. <<>> \in Seq(Filters)
    OBVIOUS
  <2>3. panel \in [Panels -> Panel]
    BY <2>1, <2>2 DEF CompetitiveInit, Panel
  <2> QED
    BY <2>3 DEF CompetitiveInit, PanelsInv, PanelFits
<1>3. WatchInv
  BY DEF CompetitiveInit, WatchInv, Watch, ResultsAreOfTheRules, NoRules
<1> QED
  BY <1>1, <1>2, <1>3 DEF CompetitiveInv

-----------------------------------------------------------------------------
(* A step of a form that leaves the rows alone.                            *)
LEMMA FormGoesOn ==
  ASSUME FormsInv, NEW a \in Analysts, NEW new \in Form,
         form' = [form EXCEPT ![a] = new], UNCHANGED signals,
         FormFits(a)'
  PROVE  FormsInv'
<1>1. form' \in [Analysts -> Form]
  BY DEF FormsInv
<1>2. \A b \in Analysts : b # a => form'[b] = form[b]
  BY DEF FormsInv
<1>3. \A b \in Analysts : FormFits(b)'
  BY <1>2 DEF FormsInv, FormFits, Filed
<1> QED
  BY <1>1, <1>3 DEF FormsInv, FiledOnceByEach

LEMMA FiledSignals == signals \in SignalRows => Filed \in SUBSET Signals
<1> SUFFICES ASSUME signals \in SignalRows PROVE Filed \in SUBSET Signals
  OBVIOUS
<1>1. signals \in [1..Len(signals) -> [signal : Signals, by : Analysts]]
  BY LenProperties DEF SignalRows
<1> QED
  BY <1>1 DEF Filed

LEMMA FormStepInv == ASSUME FormsInv, NEW a \in Analysts, FormStep(a) PROVE FormsInv'
<1>0. /\ signals \in SignalRows /\ form \in [Analysts -> Form] /\ FormFits(a)
      /\ form[a] \in Form /\ NoFilter \in Signals \cup {NoFilter}
  BY DEF FormsInv
<1>1. CASE SaveSignal(a)
  <2>1. PICK s \in Signals : form' = [form EXCEPT ![a].pc = "find", ![a].draft = s]
    BY <1>1 DEF SaveSignal
  <2> DEFINE new == [form[a] EXCEPT !.pc = "find", !.draft = s]
  <2>2. form' = [form EXCEPT ![a] = new] /\ new \in Form
    BY <1>0, <2>1 DEF Form, FormPc
  <2>3. FormFits(a)'
    BY <1>0, <1>1, <2>2 DEF SaveSignal, FormOnly, FormFits, Filed, Form
  <2> QED
    BY <1>1, <2>2, <2>3, FormGoesOn DEF SaveSignal, FormOnly
<1>2. CASE FindSignal(a)
  <2> DEFINE new == [form[a] EXCEPT !.pc = IF form[a].draft \in Filed THEN "reload" ELSE "create"]
  <2>2. form' = [form EXCEPT ![a] = new] /\ new \in Form
    BY <1>0, <1>2 DEF FindSignal, Form, FormPc
  <2>3. FormFits(a)'
    BY <1>0, <1>2, <2>2 DEF FindSignal, FormOnly, FormFits, Filed, Form, Making
  <2> QED
    BY <1>2, <2>2, <2>3, FormGoesOn DEF FindSignal, FormOnly
<1>3. CASE SaveFails(a)
  <2> DEFINE new == [form[a] EXCEPT !.pc = "open", !.draft = NoFilter]
  <2>2. form' = [form EXCEPT ![a] = new] /\ new \in Form
    BY <1>0, <1>3 DEF SaveFails, Form, FormPc
  <2>3. FormFits(a)'
    BY <1>0, <1>3, <2>2 DEF SaveFails, FormOnly, FormFits, Filed, Form, Making
  <2> QED
    BY <1>3, <2>2, <2>3, FormGoesOn DEF SaveFails, FormOnly
<1>4. CASE SignalSaved(a)
  <2> DEFINE new == [form[a] EXCEPT !.pc = "loading", !.draft = NoFilter, !.saved = @ \cup {form[a].draft}]
  <2>2. form' = [form EXCEPT ![a] = new] /\ new \in Form
    BY <1>0, <1>4 DEF SignalSaved, Form, FormPc, FormFits, Making
  <2>3. FormFits(a)'
    BY <1>0, <1>4, <2>2 DEF SignalSaved, FormOnly, FormFits, Filed, Form, Making
  <2> QED
    BY <1>4, <2>2, <2>3, FormGoesOn DEF SignalSaved, FormOnly
<1>5. CASE \E ok \in BOOLEAN : LoadData(a, ok)
  <2>1. PICK ok \in BOOLEAN : LoadData(a, ok)
    BY <1>5
  <2> DEFINE new == [form[a] EXCEPT !.pc = "open", !.list = IF ok THEN Filed ELSE @, !.stale = ~ok]
  <2>2. Filed \in SUBSET Signals
    BY <1>0, FiledSignals
  <2>3. form' = [form EXCEPT ![a] = new] /\ new \in Form
    BY <1>0, <2>1, <2>2 DEF LoadData, Form, FormPc
  <2>4. FormFits(a)'
    <3>1. /\ form'[a] = new /\ new.pc = "open" /\ new.saved = form[a].saved
          /\ new.stale = ~ok /\ new.list = (IF ok THEN Filed ELSE form[a].list) /\ Filed' = Filed
      <4>1. form'[a] = new
        BY <1>0, <2>3
      <4>2. Filed' = Filed
        BY <2>1 DEF LoadData, FormOnly, Filed
      <4>3. /\ new.pc = "open" /\ new.saved = form[a].saved
            /\ new.stale = ~ok /\ new.list = (IF ok THEN Filed ELSE form[a].list)
        BY <1>0 DEF Form
      <4> QED
        BY <4>1, <4>2, <4>3
    <3> HIDE DEF new
    <3>2. form[a].saved \subseteq Filed
      BY <1>0 DEF FormFits
    <3> QED
      BY <3>1, <3>2 DEF FormFits, Making
  <2> QED
    BY <2>1, <2>3, <2>4, FormGoesOn DEF LoadData, FormOnly
<1>6. CASE InsertSignal(a)
  <2> DEFINE row == [signal |-> form[a].draft, by |-> a]
             new == [form[a] EXCEPT !.pc = "reload"]
  <2>1. row \in [signal : Signals, by : Analysts] /\ form[a].pc = "create"
    BY <1>0, <1>6 DEF InsertSignal, FormFits, Making
  <2>2. form' = [form EXCEPT ![a] = new] /\ new \in Form /\ signals' = Append(signals, row)
    BY <1>0, <1>6 DEF InsertSignal, Form, FormPc
  <2> HIDE DEF row, new
  <2>3. /\ signals' \in SignalRows /\ DOMAIN signals = 1..Len(signals)
        /\ DOMAIN signals' = 1..(Len(signals) + 1) /\ Len(signals) \in Nat
        /\ \A k \in DOMAIN signals : signals'[k] = signals[k]
        /\ signals'[Len(signals) + 1] = row
    BY <1>0, <2>1, <2>2, AppendProperties DEF SignalRows
  <2>4. Filed' = Filed \cup {form[a].draft}
    <3>1. \A k \in DOMAIN signals' : k \in DOMAIN signals \/ k = Len(signals) + 1
      BY <2>3
    <3>2. Len(signals) + 1 \in DOMAIN signals' /\ DOMAIN signals \subseteq DOMAIN signals'
      BY <2>3
    <3> QED
      BY <2>3, <3>1, <3>2 DEF Filed, row
  <2>5. FiledOnceByEach'
    <3>1. \A k \in DOMAIN signals : signals[k].signal = row.signal => signals[k].by # row.by
      BY <1>0, <2>1 DEF FormFits, row
    <3>2. \A k \in DOMAIN signals' : k \in DOMAIN signals \/ k = Len(signals) + 1
      BY <2>3
    <3> QED
      BY <2>3, <3>1, <3>2 DEF FiledOnceByEach, FormsInv
  <2>6. \A b \in Analysts : b # a => form'[b] = form[b]
    BY <1>0, <2>2
  <2>7. ASSUME NEW b \in Analysts PROVE FormFits(b)'
    <3>1. CASE b = a
      BY <1>0, <2>1, <2>2, <2>4, <3>1 DEF FormFits, Form, Making, new
    <3>2. CASE b # a
      <4>1. FormFits(b) /\ form'[b] = form[b]
        BY <2>6, <3>2 DEF FormsInv
      <4>2. form[b].pc = "create" =>
                \A k \in DOMAIN signals' : signals'[k].signal = form[b].draft => signals'[k].by # b
        BY <2>3, <3>2, <4>1 DEF FormFits, row
      <4> QED
        BY <2>4, <4>1, <4>2 DEF FormFits
    <3> QED
      BY <3>1, <3>2
  <2> QED
    BY <1>0, <2>2, <2>3, <2>5, <2>7 DEF FormsInv
<1> QED
  BY <1>1, <1>2, <1>3, <1>4, <1>5, <1>6 DEF FormStep

-----------------------------------------------------------------------------

LEMMA LoadFits ==
  ASSUME NEW pnl \in Panel, NEW filter \in Filters
  PROVE  Load(pnl, filter) \in Panel /\ PanelFits(Load(pnl, filter))
<1>1. pnl.asked \in Seq(Filters)
  BY DEF Panel
<1>2. /\ Append(pnl.asked, filter) \in Seq(Filters)
      /\ Append(pnl.asked, filter) # <<>>
      /\ Append(pnl.asked, filter)[Len(Append(pnl.asked, filter))] = filter
  BY <1>1, AppendProperties
<1> QED
  BY <1>2 DEF Load, Panel, PanelFits

LEMMA PanelStepInv == ASSUME PanelsInv, PanelStep PROVE PanelsInv'
<1>0. tab \in Panels \cup {"overview"} /\ panel \in [Panels -> Panel] /\ "overview" \notin Panels
  BY CompetitiveAssumption DEF PanelsInv
<1>1. ASSUME NEW p \in Panels, NEW new \in Panel, PanelFits(new), panel' = [panel EXCEPT ![p] = new],
             tab' \in Panels \cup {"overview"}
      PROVE  PanelsInv'
  BY <1>0, <1>1 DEF PanelsInv
<1>2. ASSUME NEW t \in Panels \cup {"overview"}, OpenTab(t) PROVE PanelsInv'
  <2>1. CASE t \in Panels
    <3>1. panel[t] \in Panel /\ panel[t].filter \in Filters
      BY <1>0, <2>1 DEF Panel
    <3>2. panel' = [panel EXCEPT ![t] = Load(panel[t], panel[t].filter)] /\ tab' = t
      BY <1>0, <1>2, <2>1 DEF OpenTab
    <3> QED
      BY <1>1, <2>1, <3>1, <3>2, LoadFits
  <2>2. CASE t \notin Panels
    BY <1>2, <2>2 DEF OpenTab, PanelsInv
  <2> QED
    BY <2>1, <2>2
<1>3. ASSUME NEW f \in Filters, ChangeFilter(f) PROVE PanelsInv'
  <2>1. panel' = [panel EXCEPT ![tab] = Load(panel[tab], f)] /\ tab' = tab /\ tab \in Panels
    BY <1>0, <1>3 DEF ChangeFilter
  <2>2. panel[tab] \in Panel
    BY <1>0, <2>1
  <2>3. PICK p \in Panels : p = tab
    BY <2>1
  <2> QED
    BY <1>1, <2>1, <2>2, <2>3, LoadFits
<1>4. ASSUME NEW p \in Panels, NEW ok \in BOOLEAN, NEW k \in 1..MaxAsked, PanelAnswers(p, k, ok)
      PROVE  PanelsInv'
  <2> DEFINE pnl == panel[p]
             isNewest == pnl.newest /\ k = Len(pnl.asked)
             new == [pnl EXCEPT !.data = IF ok THEN pnl.asked[k] ELSE @,
                           !.asked = RemoveAt(@, k),
                           !.loading = FALSE,
                           !.newest = @ /\ ~isNewest,
                           !.settled = isNewest /\ ok]
  <2>1. panel' = [panel EXCEPT ![p] = new] /\ k \in DOMAIN pnl.asked /\ tab' = tab
    BY <1>4 DEF PanelAnswers
  <2>2. pnl \in Panel /\ PanelFits(pnl)
    BY <1>0 DEF PanelsInv
  <2>3. pnl.asked \in Seq(Filters) /\ k \in 1..Len(pnl.asked) /\ pnl.asked[k] \in Filters
    BY <2>1, <2>2 DEF Panel
  <2>4. /\ RemoveAt(pnl.asked, k) \in Seq(Filters)
        /\ Len(RemoveAt(pnl.asked, k)) = Len(pnl.asked) - 1
        /\ \A i \in 1..(Len(pnl.asked) - 1) :
               RemoveAt(pnl.asked, k)[i] = IF i < k THEN pnl.asked[i] ELSE pnl.asked[i + 1]
    BY <2>3, RemoveAtProperties
  <2>5. new \in Panel
    BY <2>2, <2>3, <2>4 DEF Panel
  <2>6. /\ new.newest = (pnl.newest /\ ~isNewest) /\ new.asked = RemoveAt(pnl.asked, k)
        /\ new.settled = (isNewest /\ ok) /\ new.data = (IF ok THEN pnl.asked[k] ELSE pnl.data)
        /\ new.filter = pnl.filter /\ new.loading = FALSE
    BY <2>2 DEF Panel
  <2>7. new.newest => new.asked # <<>> /\ new.asked[Len(new.asked)] = new.filter
    <3> SUFFICES ASSUME new.newest PROVE new.asked # <<>> /\ new.asked[Len(new.asked)] = new.filter
      OBVIOUS
    <3>0. pnl.newest /\ k # Len(pnl.asked)
      BY <2>6
    <3>1. Len(pnl.asked) \in Nat /\ k < Len(pnl.asked) /\ pnl.asked[Len(pnl.asked)] = pnl.filter
      BY <2>2, <2>3, <3>0 DEF PanelFits
    <3>2. RemoveAt(pnl.asked, k)[Len(pnl.asked) - 1] = pnl.asked[Len(pnl.asked)]
      BY <2>3, <2>4, <3>1
    <3>3. RemoveAt(pnl.asked, k) # <<>>
      BY <2>3, <2>4, <3>1, EmptySeq
    <3> HIDE DEF new
    <3> QED
      BY <2>4, <2>6, <3>1, <3>2, <3>3
  <2>8. new.settled => new.data = new.filter
    BY <2>2, <2>6 DEF PanelFits
  <2> HIDE DEF new
  <2> QED
    BY <1>0, <1>1, <2>1, <2>5, <2>6, <2>7, <2>8 DEF PanelFits
<1> QED
  BY <1>2, <1>3, <1>4, <1>0 DEF PanelStep

LEMMA WatchStepInv == ASSUME WatchInv, WatchStep PROVE WatchInv'
<1>0. /\ watch \in Watch /\ NoFilter \notin Watches
      /\ \A s \in SUBSET Watches : s # NoRules
  BY CompetitiveAssumption DEF WatchInv, NoRules
<1>1. ASSUME NEW chosen \in SUBSET Watches, watch' = ChangeRules(chosen) PROVE WatchInv'
  BY <1>0, <1>1 DEF ChangeRules, WatchInv, Watch, ResultsAreOfTheRules
<1>2. ASSUME NEW w \in Watches, AddAlertRule(w) \/ RemoveAlertRule(w) PROVE WatchInv'
  <2>1. watch.rules \in SUBSET Watches
    BY <1>0 DEF Watch
  <2>2. watch.rules \cup {w} \in SUBSET Watches /\ watch.rules \ {w} \in SUBSET Watches
    BY <2>1
  <2> QED
    BY <1>1, <1>2, <2>2 DEF AddAlertRule, RemoveAlertRule
<1>3. CASE EvaluateAlerts
  BY <1>0, <1>3 DEF EvaluateAlerts, WatchInv, Watch, ResultsAreOfTheRules
<1>4. ASSUME NEW ok \in BOOLEAN, AlertsEvaluated(ok) PROVE WatchInv'
  BY <1>0, <1>4 DEF AlertsEvaluated, WatchInv, Watch, ResultsAreOfTheRules
<1> QED
  BY <1>2, <1>3, <1>4 DEF WatchStep

-----------------------------------------------------------------------------

LEMMA CompetitiveNextInv == CompetitiveInv /\ [CompetitiveNext]_competitiveVars => CompetitiveInv'
<1> SUFFICES ASSUME CompetitiveInv, [CompetitiveNext]_competitiveVars PROVE CompetitiveInv'
  OBVIOUS
<1>1. UNCHANGED <<signals, form>> => FormsInv'
  BY DEF CompetitiveInv, FormsInv, FiledOnceByEach, FormFits, Filed
<1>2. UNCHANGED <<tab, panel>> => PanelsInv'
  BY DEF CompetitiveInv, PanelsInv
<1>3. UNCHANGED watch => WatchInv'
  BY DEF CompetitiveInv, WatchInv, ResultsAreOfTheRules
<1>4. ASSUME NEW a \in Analysts, FormStep(a) PROVE CompetitiveInv'
  <2>1. UNCHANGED <<tab, panel, watch>>
    BY <1>4 DEF FormStep, SaveSignal, FindSignal, InsertSignal, SaveFails, SignalSaved, LoadData, FormOnly
  <2> QED
    BY <1>2, <1>3, <1>4, <2>1, FormStepInv DEF CompetitiveInv
<1>5. CASE PanelStep
  <2>1. UNCHANGED <<signals, form, watch>>
    BY <1>5 DEF PanelStep, OpenTab, ChangeFilter, PanelAnswers, PanelOnly
  <2> QED
    BY <1>1, <1>3, <1>5, <2>1, PanelStepInv DEF CompetitiveInv
<1>6. CASE WatchStep
  <2>1. UNCHANGED <<signals, form, tab, panel>>
    BY <1>6 DEF WatchStep, AddAlertRule, RemoveAlertRule, EvaluateAlerts, AlertsEvaluated, WatchOnly
  <2> QED
    BY <1>1, <1>2, <1>6, <2>1, WatchStepInv DEF CompetitiveInv
<1>7. CASE UNCHANGED competitiveVars
  BY <1>1, <1>2, <1>3, <1>7 DEF competitiveVars, CompetitiveInv
<1> QED
  BY <1>4, <1>5, <1>6, <1>7 DEF CompetitiveNext

LEMMA CompetitiveInvHolds == CompetitiveSpec => []CompetitiveInv
BY CompetitiveInitInv, CompetitiveNextInv, PTL DEF CompetitiveSpec

LEMMA CompetitiveInvGives ==
  CompetitiveInv => /\ CompetitiveTypeOK
                    /\ FiledOnceByEach /\ SavedIsListed
                    /\ PanelShowsItsFilter /\ PanelSpinnerStops /\ ResultsAreOfTheRules
BY DEF CompetitiveInv, FormsInv, PanelsInv, WatchInv, CompetitiveTypeOK, SignalRows, SavedIsListed,
   FormFits, PanelFits, PanelShowsItsFilter, PanelSpinnerStops

(***************************************************************************)
(* The dashboard                                                           *)
(***************************************************************************)

(* Only the last run of the effect has a timer, and the answers that are   *)
(* awaited are of runs that there were.                                    *)
LoopsInv ==
    /\ \A k \in DOMAIN fetches : fetches[k].loop <= Len(loops)
    /\ page.organization => loops # <<>>
    /\ ~page.organization => /\ loops = <<>> /\ fetches = <<>>
                             /\ page.status = "syncing" /\ page.failures = 0
    /\ OneRefreshLoop

DashboardInv == DashboardTypeOK /\ LoopsInv /\ ShowsWhatGoesOn /\ SpinnerStops

LEMMA DelayTyped ==
  ASSUME NEW interval \in RefreshIntervals, NEW failures \in 0..5
  PROVE  NextDelay(interval, failures) \in Nat
<1>1. Smaller(failures, 3) \in {0, 1, 2, 3}
  BY DEF Smaller
<1>2. 2 ^ 0 = 1 /\ 2 ^ 1 = 2 /\ 2 ^ 2 = 4 /\ 2 ^ 3 = 8
  OBVIOUS
<1>3. 2 ^ Smaller(failures, 3) \in {1, 2, 4, 8}
  BY <1>1, <1>2
<1>4. interval \in Nat
  BY DashboardAssumption
<1>5. \A m \in {1, 2, 4, 8} : interval * m \in Nat
  BY <1>4
<1>6. interval * 2 ^ Smaller(failures, 3) \in Nat
  BY <1>3, <1>5
<1> QED
  BY <1>6 DEF NextDelay, Smaller, MAX_DELAY

LEMMA ScheduleTyped ==
  ASSUME NEW interval \in RefreshIntervals, NEW failures \in 0..5
  PROVE  /\ \A loop \in Loop : ScheduleNext(loop, interval, failures) \in Loop
         /\ FirstSchedule(interval, failures) \in Loop
<1>1. NextDelay(interval, failures) \in Nat
  BY DelayTyped
<1>2. \A loop \in Loop : ScheduleNext(loop, interval, failures) \in Loop
  BY <1>1 DEF ScheduleNext, Loop
<1>3. [timer |-> "none", delay |-> 0] \in Loop
  BY DEF Loop
<1> QED
  BY <1>2, <1>3 DEF FirstSchedule

LEMMA CleanUpTyped == \A loop \in Loop : CleanUp(loop) \in Loop /\ CleanUp(loop).timer # "armed"
BY DEF CleanUp, Loop

LEMMA DashboardInitInv == DashboardInit => DashboardInv
<1> SUFFICES ASSUME DashboardInit PROVE DashboardInv
  OBVIOUS
<1>0. /\ page.mounted /\ ~page.organization /\ ~page.loading /\ page \in Page
      /\ loops = <<>> /\ fetches = <<>> /\ ~store.loading
      /\ page.status = "syncing" /\ page.failures = 0
  BY DEF DashboardInit, Page
<1>1. loops \in Seq(Loop) /\ Len(loops) = 0 /\ fetches \in Seq(Fetch)
  BY <1>0, EmptySeq
<1>2. pending \in [Hooks -> 0..MaxPending] /\ store \in [loading : BOOLEAN, error : BOOLEAN]
  BY DashboardAssumption DEF DashboardInit
<1>3. DashboardTypeOK
  BY <1>0, <1>1, <1>2, DashboardAssumption DEF DashboardTypeOK
<1> QED
  BY <1>0, <1>1, <1>3 DEF DashboardInv, LoopsInv, OneRefreshLoop, ShowsWhatGoesOn, SpinnerStops

-----------------------------------------------------------------------------

LEMMA TypesNow ==
  DashboardTypeOK =>
      /\ page \in Page /\ page.interval \in RefreshIntervals /\ page.failures \in 0..5
      /\ loops \in Seq(Loop) /\ Len(loops) \in Nat /\ Len(loops) <= MaxLoops
      /\ DOMAIN loops = 1..Len(loops) /\ \A n \in DOMAIN loops : loops[n] \in Loop
      /\ fetches \in Seq(Fetch) /\ Len(fetches) \in Nat
      /\ DOMAIN fetches = 1..Len(fetches) /\ \A k \in DOMAIN fetches : fetches[k] \in Fetch
      /\ MaxLoops \in Nat \ {0}
BY DashboardAssumption DEF DashboardTypeOK, Page

(* A request that is sent.                                                 *)
LEMMA FetchSent ==
  ASSUME fetches \in Seq(Fetch), NEW new \in Fetch, fetches' = Append(fetches, new)
  PROVE  /\ fetches' \in Seq(Fetch) /\ fetches' # <<>>
         /\ DOMAIN fetches' = 1..(Len(fetches) + 1) /\ fetches'[Len(fetches) + 1] = new
         /\ \A k \in DOMAIN fetches : k \in DOMAIN fetches' /\ fetches'[k] = fetches[k]
         /\ \A k \in DOMAIN fetches' : k \in DOMAIN fetches \/ k = Len(fetches) + 1
BY AppendProperties

LEMMA OrganizationKnownInv == DashboardInv /\ OrganizationKnown => DashboardInv'
<1> SUFFICES ASSUME DashboardInv, OrganizationKnown PROVE DashboardInv'
  OBVIOUS
<1> DEFINE first == FirstSchedule(page.interval, page.failures)
           new == [silent |-> FALSE, loop |-> 0]
<1>0. DashboardTypeOK
  BY DEF DashboardInv
<1>1. first \in Loop /\ new \in Fetch /\ ~new.silent /\ new.loop = 0
  BY <1>0, TypesNow, ScheduleTyped DEF Fetch
<1> HIDE DEF first, new
<1>2. /\ page' = [page EXCEPT !.organization = TRUE, !.loading = TRUE]
      /\ fetches' = Append(fetches, new) /\ loops' = <<first>> /\ page.mounted /\ ~page.organization
      /\ UNCHANGED <<store, pending>>
  BY DEF OrganizationKnown, first, new
<1>3. /\ loops' \in Seq(Loop) /\ Len(loops') = 1 /\ loops' # <<>> /\ DOMAIN loops' = {1}
  BY <1>1, <1>2
<1>4. /\ page' \in Page /\ page'.organization /\ page'.mounted /\ page'.failures = page.failures
      /\ page'.status = page.status
  BY <1>0, <1>2, TypesNow DEF Page
<1>5. /\ fetches' \in Seq(Fetch) /\ fetches' # <<>>
      /\ Len(fetches) + 1 \in DOMAIN fetches' /\ ~fetches'[Len(fetches) + 1].silent
      /\ \A k \in DOMAIN fetches' : fetches'[k].loop = 0
  <2>1. \A k \in DOMAIN fetches : FALSE
    BY <1>2 DEF DashboardInv, LoopsInv
  <2> QED
    BY <1>0, <1>1, <1>2, <2>1, TypesNow, FetchSent
<1>6. DashboardTypeOK'
  BY <1>0, <1>2, <1>3, <1>4, <1>5, TypesNow DEF DashboardTypeOK
<1>7. LoopsInv'
  BY <1>3, <1>4, <1>5 DEF LoopsInv, OneRefreshLoop, Cancelled
<1>8. ShowsWhatGoesOn'
  BY <1>2, <1>4, <1>5 DEF ShowsWhatGoesOn, DashboardInv, LoopsInv
<1> QED
  BY <1>2, <1>6, <1>7, <1>8 DEF DashboardInv, SpinnerStops

(* A change of the loops that sets timers only in the last of them.        *)
LEMMA LoopsChange ==
  ASSUME DashboardInv, loops' \in Seq(Loop), Len(loops') >= Len(loops), Len(loops') <= MaxLoops,
         page' \in Page, page'.organization = page.organization,
         page.organization,
         \A n \in DOMAIN loops' : loops'[n].timer = "armed" => page'.mounted /\ n = Len(loops'),
         page'.loading => page.loading, page'.status = page.status, page'.failures = page.failures,
         page'.mounted => page.mounted,
         UNCHANGED <<fetches, store, pending>>
  PROVE  DashboardInv'
<1>1. DashboardTypeOK'
  BY DEF DashboardInv, DashboardTypeOK
<1>2. /\ Len(loops) \in Nat /\ Len(loops') \in Nat /\ loops # <<>> /\ Len(loops) # 0
      /\ \A k \in DOMAIN fetches : fetches[k].loop \in Nat
  BY TypesNow DEF DashboardInv, LoopsInv, Fetch
<1>3. loops' # <<>>
  BY <1>2
<1>4. \A k \in DOMAIN fetches' : fetches'[k].loop <= Len(loops')
  BY <1>2 DEF DashboardInv, LoopsInv
<1>5. LoopsInv'
  BY <1>3, <1>4 DEF LoopsInv, OneRefreshLoop, Cancelled
<1>6. ShowsWhatGoesOn'
  BY DEF DashboardInv, ShowsWhatGoesOn
<1> QED
  BY <1>1, <1>5, <1>6 DEF DashboardInv, SpinnerStops

LEMMA SetIntervalInv == DashboardInv /\ SetInterval => DashboardInv'
<1> SUFFICES ASSUME DashboardInv, SetInterval PROVE DashboardInv'
  OBVIOUS
<1>0. DashboardTypeOK
  BY DEF DashboardInv
<1>1. PICK interval \in RefreshIntervals :
          /\ page' = [page EXCEPT !.interval = interval]
          /\ loops' = Append([loops EXCEPT ![Len(loops)] = CleanUp(@)],
                             FirstSchedule(interval, page.failures))
  BY DEF SetInterval
<1> DEFINE first == FirstSchedule(interval, page.failures)
           ended == [loops EXCEPT ![Len(loops)] = CleanUp(@)]
<1>2. page.mounted /\ page.organization /\ Len(loops) < MaxLoops /\ UNCHANGED <<fetches, store, pending>>
  BY DEF SetInterval
<1>3. first \in Loop
  BY <1>0, TypesNow, ScheduleTyped
<1>4. loops # <<>> /\ Len(loops) \in 1..Len(loops)
  BY <1>0, <1>2, TypesNow DEF DashboardInv, LoopsInv
<1>5. /\ ended \in Seq(Loop) /\ Len(ended) = Len(loops) /\ DOMAIN ended = 1..Len(loops)
      /\ ended[Len(loops)] = CleanUp(loops[Len(loops)])
      /\ \A n \in 1..Len(loops) : n # Len(loops) => ended[n] = loops[n]
  <2> DEFINE new == CleanUp(loops[Len(loops)])
  <2>1. new \in Loop /\ ended = [loops EXCEPT ![Len(loops)] = new]
    BY <1>0, <1>4, TypesNow, CleanUpTyped
  <2> HIDE DEF new, ended
  <2>2. loops \in Seq(Loop)
    BY <1>0, TypesNow
  <2> QED
    BY <1>4, <2>1, <2>2 DEF new
<1>6. \A n \in 1..Len(loops) : ended[n].timer # "armed"
  BY <1>0, <1>4, <1>5, TypesNow, CleanUpTyped DEF DashboardInv, LoopsInv, OneRefreshLoop, Cancelled
<1>7. loops' = Append(ended, first)
  BY <1>1
<1> HIDE DEF first, ended
<1>8. /\ loops' \in Seq(Loop) /\ Len(loops') = Len(loops) + 1
      /\ \A n \in 1..Len(loops) : loops'[n] = ended[n]
      /\ DOMAIN loops' = 1..(Len(loops) + 1)
  <2>1. /\ Append(ended, first) \in Seq(Loop) /\ Len(Append(ended, first)) = Len(ended) + 1
        /\ \A n \in 1..Len(ended) : Append(ended, first)[n] = ended[n]
    BY <1>3, <1>5, AppendProperties
  <2>2. Len(loops) \in Nat
    BY <1>0, TypesNow
  <2> QED
    <3>1. /\ loops' \in Seq(Loop) /\ Len(loops') = Len(loops) + 1
          /\ \A n \in 1..Len(loops) : loops'[n] = ended[n]
      BY <1>5, <1>7, <2>1
    <3> QED
      BY <2>2, <3>1
<1>9. \A n \in DOMAIN loops' : loops'[n].timer = "armed" => n = Len(loops')
  BY <1>0, <1>6, <1>8, TypesNow
<1>10. /\ page' \in Page /\ page'.organization = page.organization /\ page'.mounted = page.mounted
       /\ page'.loading = page.loading /\ page'.status = page.status /\ page'.failures = page.failures
  BY <1>0, <1>1, TypesNow DEF Page
<1>11. Len(loops') >= Len(loops) /\ Len(loops') <= MaxLoops
  BY <1>0, <1>2, <1>8, TypesNow
<1> QED
  BY <1>2, <1>8, <1>9, <1>10, <1>11, LoopsChange

LEMMA LeaveInv == DashboardInv /\ Leave => DashboardInv'
<1> SUFFICES ASSUME DashboardInv, Leave PROVE DashboardInv'
  OBVIOUS
<1>0. DashboardTypeOK
  BY DEF DashboardInv
<1>1. /\ page' = [page EXCEPT !.mounted = FALSE]
      /\ loops' = [n \in DOMAIN loops |-> CleanUp(loops[n])]
      /\ UNCHANGED <<fetches, store, pending>>
  BY DEF Leave
<1>2. /\ page' \in Page /\ page'.organization = page.organization /\ ~page'.mounted
      /\ page'.loading = page.loading /\ page'.status = page.status /\ page'.failures = page.failures
  BY <1>0, <1>1, TypesNow DEF Page
<1>3. /\ loops' \in Seq(Loop) /\ Len(loops') = Len(loops) /\ DOMAIN loops' = DOMAIN loops
      /\ \A n \in DOMAIN loops' : loops'[n].timer # "armed"
  BY <1>0, <1>1, TypesNow, CleanUpTyped
<1>4. CASE page.organization
  BY <1>0, <1>1, <1>2, <1>3, <1>4, TypesNow, LoopsChange
<1>5. CASE ~page.organization
  <2>1. DashboardTypeOK'
    BY <1>0, <1>1, <1>2, <1>3, TypesNow DEF DashboardTypeOK
  <2>2. loops = <<>> /\ loops' = <<>>
    BY <1>0, <1>3, <1>5, TypesNow DEF DashboardInv, LoopsInv
  <2> QED
    BY <1>1, <1>2, <1>3, <1>5, <2>1, <2>2 DEF DashboardInv, LoopsInv, OneRefreshLoop, ShowsWhatGoesOn,
       SpinnerStops
<1> QED
  BY <1>4, <1>5

(* A request of the page is on its way.                                    *)
LEMMA SyncingInv ==
  ASSUME DashboardInv, NEW new \in Fetch, fetches' = Append(fetches, new),
         new.loop <= Len(loops), page.organization,
         page' \in Page, page'.organization, page'.mounted = page.mounted,
         page'.status = "syncing", page'.loading => page.loading \/ ~new.silent,
         loops' \in Seq(Loop), Len(loops') = Len(loops),
         \A n \in DOMAIN loops : loops'[n].timer = "armed" => loops[n].timer = "armed",
         UNCHANGED <<store, pending>>
  PROVE  DashboardInv'
<1>0. DashboardTypeOK
  BY DEF DashboardInv
<1>1. /\ fetches' \in Seq(Fetch) /\ fetches' # <<>>
      /\ Len(fetches) + 1 \in DOMAIN fetches' /\ fetches'[Len(fetches) + 1] = new
      /\ \A k \in DOMAIN fetches : k \in DOMAIN fetches' /\ fetches'[k] = fetches[k]
      /\ \A k \in DOMAIN fetches' : k \in DOMAIN fetches \/ k = Len(fetches) + 1
  BY <1>0, TypesNow, FetchSent
<1>2. DashboardTypeOK'
  BY <1>0, <1>1 DEF DashboardTypeOK
<1>3. LoopsInv'
  <2>1. \A k \in DOMAIN fetches' : fetches'[k].loop <= Len(loops')
    BY <1>1 DEF DashboardInv, LoopsInv
  <2>2. DOMAIN loops' = DOMAIN loops /\ (loops # <<>> => loops' # <<>>)
    BY <1>0, TypesNow
  <2> QED
    BY <2>1, <2>2 DEF DashboardInv, LoopsInv, OneRefreshLoop, Cancelled
<1>4. ShowsWhatGoesOn'
  <2>1. page'.mounted /\ page'.loading => \E k \in DOMAIN fetches' : ~fetches'[k].silent
    BY <1>1 DEF DashboardInv, ShowsWhatGoesOn
  <2> QED
    BY <1>1, <2>1 DEF ShowsWhatGoesOn
<1> QED
  BY <1>2, <1>3, <1>4 DEF DashboardInv, SpinnerStops

LEMMA ManualRefreshInv == DashboardInv /\ ManualRefresh => DashboardInv'
<1> SUFFICES ASSUME DashboardInv, ManualRefresh PROVE DashboardInv'
  OBVIOUS
<1> DEFINE new == [silent |-> FALSE, loop |-> 0]
<1>0. DashboardTypeOK
  BY DEF DashboardInv
<1>1. new \in Fetch /\ ~new.silent /\ new.loop <= Len(loops)
  BY <1>0, TypesNow DEF Fetch
<1>2. /\ page.organization /\ page' = [page EXCEPT !.loading = TRUE, !.status = "syncing"]
      /\ fetches' = Append(fetches, new) /\ UNCHANGED <<loops, store, pending>>
  BY DEF ManualRefresh
<1>3. page' \in Page /\ page'.organization /\ page'.mounted = page.mounted /\ page'.status = "syncing"
  BY <1>0, <1>2, TypesNow DEF Page
<1> HIDE DEF new
<1> QED
  BY <1>0, <1>1, <1>2, <1>3, TypesNow, SyncingInv

LEMMA TimerFiresInv == ASSUME DashboardInv, NEW n \in DOMAIN loops, TimerFires(n) PROVE DashboardInv'
<1> DEFINE new == [silent |-> TRUE, loop |-> n]
<1>0. DashboardTypeOK
  BY DEF DashboardInv
<1>1. new \in Fetch /\ new.loop <= Len(loops) /\ n \in 1..Len(loops)
  BY <1>0, TypesNow DEF Fetch
<1>2. /\ page' = [page EXCEPT !.status = "syncing"] /\ fetches' = Append(fetches, new)
      /\ loops' = [loops EXCEPT ![n].timer = "fetching"] /\ UNCHANGED <<store, pending>>
  BY DEF TimerFires
<1>3. page.organization
  BY <1>1, <1>0 DEF DashboardInv, LoopsInv
<1>4. page' \in Page /\ page'.organization /\ page'.mounted = page.mounted /\ page'.status = "syncing"
      /\ page'.loading = page.loading
  BY <1>0, <1>2, <1>3, TypesNow DEF Page
<1>5. /\ loops' \in Seq(Loop) /\ Len(loops') = Len(loops) /\ loops'[n].timer = "fetching"
      /\ \A m \in DOMAIN loops : m # n => loops'[m] = loops[m]
  <2>1. [loops[n] EXCEPT !.timer = "fetching"] \in Loop
    BY <1>0, TypesNow DEF Loop
  <2> QED
    <3> DEFINE next == [loops[n] EXCEPT !.timer = "fetching"]
    <3>1. next \in Loop /\ next.timer = "fetching" /\ loops' = [loops EXCEPT ![n] = next]
      BY <1>0, <1>1, <1>2, <2>1, TypesNow DEF Loop
    <3> HIDE DEF next
    <3>2. loops \in Seq(Loop)
      BY <1>0, TypesNow
    <3> QED
      BY <1>1, <3>1, <3>2
<1> HIDE DEF new
<1> QED
  BY <1>1, <1>2, <1>3, <1>4, <1>5, SyncingInv

-----------------------------------------------------------------------------

LEMMA AnsweredTyped ==
  ASSUME NEW p \in Page, NEW ok \in BOOLEAN, NEW silent \in BOOLEAN
  PROVE  LET after == Finally(Answered(p, ok), silent)
         IN  /\ after \in Page /\ after.mounted = p.mounted /\ after.organization = p.organization
             /\ after.status = "live" => after.failures = 0
             /\ after.status = "degraded" => after.failures > 0
             /\ after.status # "syncing" /\ (after.loading => silent /\ p.loading)
<1> DEFINE q == Answered(p, ok)
<1>1. Smaller(p.failures + 1, 5) \in 1..5
  BY DEF Smaller, Page
<1>2. /\ q \in Page /\ q.mounted = p.mounted /\ q.organization = p.organization /\ q.loading = p.loading
      /\ q.status = "live" => q.failures = 0
      /\ q.status = "degraded" => q.failures > 0
      /\ q.status # "syncing"
  <2>1. CASE ok
    <3>1. q = [p EXCEPT !.status = "live", !.failures = 0]
      BY <2>1 DEF Answered
    <3> HIDE DEF q
    <3>2. 0 \in 0..5
      OBVIOUS
    <3> QED
      BY <3>1, <3>2 DEF Page
  <2>2. CASE ~ok
    <3> DEFINE n == Smaller(p.failures + 1, 5)
    <3>1. q = [p EXCEPT !.status = "degraded", !.failures = n]
      BY <2>2 DEF Answered
    <3>2. n \in 1..5 /\ n \in 0..5 /\ n > 0
      BY <1>1
    <3> HIDE DEF n, q
    <3> QED
      BY <3>1, <3>2 DEF Page
  <2> QED
    BY <2>1, <2>2
<1> HIDE DEF q
<1>3. /\ Finally(q, silent) \in Page /\ Finally(q, silent).mounted = q.mounted
      /\ Finally(q, silent).organization = q.organization
      /\ Finally(q, silent).status = q.status /\ Finally(q, silent).failures = q.failures
      /\ Finally(q, silent).loading => silent /\ q.loading
  BY <1>2 DEF Finally, Page
<1> QED
  BY <1>2, <1>3 DEF q

LEMMA SummaryAnswersInv ==
  ASSUME DashboardInv, NEW k \in DOMAIN fetches, NEW ok \in BOOLEAN, SummaryAnswers(k, ok)
  PROVE  DashboardInv'
<1> DEFINE f == fetches[k]
           after == Finally(Answered(page, ok), f.silent)
<1>0. DashboardTypeOK
  BY DEF DashboardInv
<1>1. f \in Fetch /\ k \in 1..Len(fetches) /\ f.loop <= Len(loops) /\ f.loop \in Nat /\ f.silent \in BOOLEAN
  BY <1>0, TypesNow DEF Fetch, DashboardInv, LoopsInv
<1>2. /\ after \in Page /\ after.mounted = page.mounted /\ after.organization = page.organization
      /\ after.status = "live" => after.failures = 0
      /\ after.status = "degraded" => after.failures > 0
      /\ after.status # "syncing" /\ (after.loading => f.silent /\ page.loading)
  BY <1>0, <1>1, TypesNow, AnsweredTyped
<1>3. /\ page' = IF page.mounted THEN after ELSE page
      /\ fetches' = RemoveAt(fetches, k)
      /\ loops' = IF f.loop = 0 THEN loops
                    ELSE [loops EXCEPT ![f.loop] =
                        IF Cancelled(f.loop) THEN [@ EXCEPT !.timer = "none"]
                        ELSE ScheduleNext(@, page.interval, after.failures)]
      /\ UNCHANGED <<store, pending>>
  BY DEF SummaryAnswers
<1> HIDE DEF f, after
<1>4. /\ fetches' \in Seq(Fetch) /\ Len(fetches') = Len(fetches) - 1
      /\ \A i \in 1..(Len(fetches) - 1) : fetches'[i] = IF i < k THEN fetches[i] ELSE fetches[i + 1]
  BY <1>0, <1>1, <1>3, TypesNow, RemoveAtProperties
<1>5. /\ \A i \in DOMAIN fetches' : \E j \in DOMAIN fetches : fetches'[i] = fetches[j]
      /\ \A j \in DOMAIN fetches : j # k => \E i \in DOMAIN fetches' : fetches'[i] = fetches[j]
  <2>1. DOMAIN fetches' = 1..(Len(fetches) - 1) /\ DOMAIN fetches = 1..Len(fetches) /\ Len(fetches) \in Nat
    BY <1>0, <1>1, <1>4, TypesNow
  <2>2. \A i \in DOMAIN fetches' : \E j \in DOMAIN fetches : fetches'[i] = fetches[j]
    <3> SUFFICES ASSUME NEW i \in DOMAIN fetches' PROVE \E j \in DOMAIN fetches : fetches'[i] = fetches[j]
      OBVIOUS
    <3>1. CASE i < k
      BY <1>1, <1>4, <2>1, <3>1
    <3>2. CASE ~(i < k)
      <4>1. i + 1 \in DOMAIN fetches /\ fetches'[i] = fetches[i + 1]
        BY <1>4, <2>1, <3>2
      <4> QED
        BY <4>1
    <3> QED
      BY <3>1, <3>2
  <2>3. ASSUME NEW j \in DOMAIN fetches, j # k PROVE \E i \in DOMAIN fetches' : fetches'[i] = fetches[j]
    <3>1. CASE j < k
      BY <1>1, <1>4, <2>1, <3>1
    <3>2. CASE ~(j < k)
      <4>1. j - 1 \in DOMAIN fetches' /\ ~(j - 1 < k) /\ (j - 1) + 1 = j
        BY <1>1, <2>1, <2>3, <3>2
      <4> QED
        BY <1>4, <2>1, <4>1
    <3> QED
      BY <3>1, <3>2
  <2> QED
    BY <2>2, <2>3
<1>6. /\ page' \in Page /\ page'.mounted = page.mounted /\ page'.organization = page.organization
      /\ page.organization
  <2>1. page.organization
    BY DEF DashboardInv, LoopsInv
  <2> QED
    BY <1>0, <1>2, <1>3, <2>1, TypesNow
<1>7. /\ loops' \in Seq(Loop) /\ Len(loops') = Len(loops)
      /\ \A n \in DOMAIN loops : loops'[n].timer = "armed" => loops[n].timer = "armed" \/ ~Cancelled(n)
  <2>1. CASE f.loop = 0
    BY <1>0, <1>3, <2>1, TypesNow
  <2>2. CASE f.loop # 0
    <3> DEFINE old == loops[f.loop]
               new == IF Cancelled(f.loop) THEN [old EXCEPT !.timer = "none"]
                      ELSE ScheduleNext(old, page.interval, after.failures)
    <3>1. f.loop \in DOMAIN loops /\ old \in Loop /\ after.failures \in 0..5
      BY <1>0, <1>1, <1>2, <2>2, TypesNow DEF Page
    <3>2. new \in Loop /\ (new.timer = "armed" => ~Cancelled(f.loop))
      <4>1. [old EXCEPT !.timer = "none"] \in Loop /\ [old EXCEPT !.timer = "none"].timer = "none"
        BY <3>1 DEF Loop
      <4>2. ScheduleNext(old, page.interval, after.failures) \in Loop
        BY <1>0, <3>1, TypesNow, ScheduleTyped
      <4> QED
        BY <4>1, <4>2
    <3>3. loops' = [loops EXCEPT ![f.loop] = new]
      BY <1>3, <2>2
    <3> HIDE DEF new, old
    <3>4. loops' \in Seq(Loop) /\ Len(loops') = Len(loops) /\ DOMAIN loops' = DOMAIN loops
      BY <1>0, <3>1, <3>2, <3>3, TypesNow
    <3>5. loops'[f.loop] = new /\ \A n \in DOMAIN loops : n # f.loop => loops'[n] = loops[n]
      BY <1>0, <3>1, <3>3, TypesNow
    <3> QED
      BY <3>2, <3>4, <3>5
  <2> QED
    BY <2>1, <2>2
<1>8. DashboardTypeOK'
  BY <1>0, <1>3, <1>4, <1>6, <1>7, TypesNow DEF DashboardTypeOK
<1>9. LoopsInv'
  <2>1. DOMAIN loops' = DOMAIN loops /\ (loops # <<>> => loops' # <<>>)
    BY <1>0, <1>7, TypesNow
  <2>2. \A i \in DOMAIN fetches' : fetches'[i].loop <= Len(loops')
    BY <1>5, <1>7 DEF DashboardInv, LoopsInv
  <2>3. OneRefreshLoop'
    BY <1>6, <1>7, <2>1 DEF DashboardInv, LoopsInv, OneRefreshLoop, Cancelled
  <2> QED
    BY <1>6, <2>1, <2>2, <2>3 DEF DashboardInv, LoopsInv
<1>10. ShowsWhatGoesOn'
  <2> SUFFICES ASSUME page.mounted PROVE ShowsWhatGoesOn'
    BY <1>6 DEF ShowsWhatGoesOn
  <2>1. page' = after
    BY <1>3
  <2>2. page'.loading => \E i \in DOMAIN fetches' : ~fetches'[i].silent
    <3> SUFFICES ASSUME page'.loading PROVE \E i \in DOMAIN fetches' : ~fetches'[i].silent
      OBVIOUS
    <3>1. f.silent /\ page.loading
      BY <1>2, <2>1
    <3>2. PICK j \in DOMAIN fetches : ~fetches[j].silent
      BY <1>6, <3>1 DEF DashboardInv, ShowsWhatGoesOn
    <3>3. j # k
      BY <3>1, <3>2 DEF f
    <3> QED
      BY <1>5, <3>2, <3>3
  <2> QED
    BY <1>2, <2>1, <2>2 DEF ShowsWhatGoesOn
<1> QED
  BY <1>3, <1>8, <1>9, <1>10 DEF DashboardInv, SpinnerStops

-----------------------------------------------------------------------------

LEMMA HooksInv ==
  ASSUME DashboardInv, SetFilters \/ \E h \in Hooks, ok \in BOOLEAN : HookAnswers(h, ok)
  PROVE  DashboardInv'
<1>0. /\ UNCHANGED <<page, loops, fetches>> /\ pending \in [Hooks -> 0..MaxPending]
      /\ store \in [loading : BOOLEAN, error : BOOLEAN] /\ MaxPending \in Nat
  BY DashboardAssumption DEF SetFilters, HookAnswers, DashboardInv, DashboardTypeOK
<1>1. LoopsInv' /\ ShowsWhatGoesOn'
  BY <1>0 DEF DashboardInv, LoopsInv, ShowsWhatGoesOn, OneRefreshLoop, Cancelled
<1>2. ASSUME pending' \in [Hooks -> 0..MaxPending], store' \in [loading : BOOLEAN, error : BOOLEAN], SpinnerStops'
      PROVE  DashboardInv'
  BY <1>0, <1>1, <1>2 DEF DashboardInv, DashboardTypeOK
<1>3. CASE SetFilters
  <2>1. /\ Hooks # {} /\ \A h \in Hooks : pending[h] < MaxPending
        /\ pending' = [h \in Hooks |-> pending[h] + 1] /\ store' = [loading |-> TRUE, error |-> FALSE]
    BY <1>3 DEF SetFilters
  <2>2. \A h \in Hooks : pending'[h] = pending[h] + 1 /\ pending'[h] \in 1..MaxPending
    BY <1>0, <2>1
  <2>3. pending' \in [Hooks -> 0..MaxPending] /\ \E h \in Hooks : pending'[h] > 0
    BY <1>0, <2>1, <2>2
  <2> QED
    BY <1>2, <2>1, <2>3 DEF SpinnerStops
<1>4. CASE \E h \in Hooks, ok \in BOOLEAN : HookAnswers(h, ok)
  <2>1. PICK h \in Hooks, ok \in BOOLEAN : HookAnswers(h, ok)
    BY <1>4
  <2>2. /\ pending[h] > 0 /\ pending' = [pending EXCEPT ![h] = @ - 1]
        /\ store' = [loading |-> FALSE, error |-> store.error \/ ~ok]
    BY <2>1 DEF HookAnswers, FinallyLoading
  <2>3. pending' \in [Hooks -> 0..MaxPending]
    BY <1>0, <2>2
  <2>4. store' \in [loading : BOOLEAN, error : BOOLEAN] /\ ~store'.loading
    BY <2>2
  <2> QED
    BY <1>2, <2>3, <2>4 DEF SpinnerStops
<1> QED
  BY <1>3, <1>4

LEMMA DashboardNextInv == DashboardInv /\ [DashboardNext]_dashboardVars => DashboardInv'
<1> SUFFICES ASSUME DashboardInv, [DashboardNext]_dashboardVars PROVE DashboardInv'
  OBVIOUS
<1>1. CASE BrowserStep
  BY <1>1, OrganizationKnownInv, TimerFiresInv, SummaryAnswersInv, HooksInv DEF BrowserStep
<1>2. CASE SetInterval \/ Leave \/ ManualRefresh \/ SetFilters
  BY <1>2, SetIntervalInv, LeaveInv, ManualRefreshInv, HooksInv
<1>3. CASE UNCHANGED dashboardVars
  BY <1>3 DEF dashboardVars, DashboardInv, DashboardTypeOK, LoopsInv, OneRefreshLoop, Cancelled,
     ShowsWhatGoesOn, SpinnerStops
<1> QED
  BY <1>1, <1>2, <1>3 DEF DashboardNext

LEMMA DashboardInvHolds == DashboardSpec => []DashboardInv
BY DashboardInitInv, DashboardNextInv, PTL DEF DashboardSpec

LEMMA DashboardInvGives ==
  DashboardInv => DashboardTypeOK /\ OneRefreshLoop /\ ShowsWhatGoesOn /\ SpinnerStops
BY DEF DashboardInv, LoopsInv

(***************************************************************************)
(* The copilot                                                             *)
(***************************************************************************)

QuestionAsked(c) == chat[c].pc \in {"generate", "answer"}
QuestionOn(k) == [role |-> "USER", on |-> k]
AnswerOn(k) == [role |-> "ASSISTANT", on |-> k]
RoleOfTurn(k) == IF k % 2 = 1 THEN "USER" ELSE "ASSISTANT"

(* Whatever happens, a chat that has put its question has it on record.    *)
QuestionFits(c) ==
    /\ QuestionAsked(c) => chat[c].question \in DOMAIN talk
                   /\ talk[chat[c].question] = QuestionOn(chat[c].question)
    /\ ~QuestionAsked(c) => chat[c].question = 0

(* As long as chats come one after the other, questions and answers do, in *)
(* what is stored and in what was recalled of it.                          *)
OneAtATime == \A c, d \in Chats : Waiting(c) /\ Waiting(d) => c = d
TalkAlternates ==
    /\ \A k \in DOMAIN talk : talk[k] = IF k % 2 = 1 THEN QuestionOn(k) ELSE AnswerOn(k - 1)
    /\ \A c \in Chats : QuestionAsked(c) => chat[c].question = Len(talk) /\ Len(talk) % 2 = 1
    /\ Len(talk) % 2 = 1 => \E c \in Chats : QuestionAsked(c)
RecalledAlternates(c) ==
    chat[c].pc \in {"context", "question", "generate"} =>
        /\ Len(chat[c].recalled) % 2 = 0
        /\ \A k \in DOMAIN chat[c].recalled : chat[c].recalled[k].role = RoleOfTurn(k)
InOrder ==
    OneAtATime /\ TalkAlternates /\ \A c \in Chats : RecalledAlternates(c)

(* What is shown are whole pairs.                                          *)
ShownWhole == Len(shown) % 2 = 0 /\ ShownInPairs

CopilotInv ==
    /\ CopilotTypeOK
    /\ \A c \in Chats : QuestionFits(c)
    /\ ShownWhole
    /\ ~disturbed => InOrder

LEMMA NoChatTyped == NoChat \in Chat /\ NoChat.pc = "idle" /\ NoChat.question = 0
BY DEF NoChat, Chat, ChatPc

LEMMA CopilotInitInv == CopilotInit => CopilotInv
<1> SUFFICES ASSUME CopilotInit PROVE CopilotInv
  OBVIOUS
<1>1. talk = <<>> /\ shown = <<>> /\ disturbed = FALSE /\ chat = [c \in Chats |-> NoChat]
  BY DEF CopilotInit
<1>2. CopilotTypeOK
  BY <1>1, NoChatTyped, EmptySeq DEF CopilotTypeOK
<1>3. \A c \in Chats : chat[c].pc = "idle" /\ chat[c].question = 0
  BY <1>1, NoChatTyped
<1>4. Len(talk) = 0 /\ DOMAIN talk = {} /\ Len(shown) = 0 /\ DOMAIN shown = {}
  BY <1>1
<1>5. \A c \in Chats : QuestionFits(c) /\ ~Waiting(c) /\ ~QuestionAsked(c) /\ RecalledAlternates(c)
  BY <1>3 DEF QuestionFits, QuestionAsked, Waiting, RecalledAlternates
<1>6. Len(talk) % 2 = 0 /\ Len(shown) % 2 = 0
  BY <1>4
<1>7. TalkAlternates /\ ShownWhole
  BY <1>4, <1>5, <1>6 DEF TalkAlternates, ShownWhole, ShownInPairs
<1> QED
  BY <1>2, <1>5, <1>7 DEF CopilotInv, InOrder, OneAtATime

-----------------------------------------------------------------------------
(* A step of one chat that stores nothing.                                 *)
LEMMA ChatMoves ==
  ASSUME CopilotInv, NEW c \in Chats, NEW new \in Chat, chat' = [chat EXCEPT ![c] = new],
         UNCHANGED <<talk, shown>>,
         disturbed' \in BOOLEAN, disturbed => disturbed',
         QuestionFits(c)',
         ~disturbed' => /\ OneAtATime'
                        /\ RecalledAlternates(c)'
                        /\ QuestionAsked(c)' = QuestionAsked(c) /\ (QuestionAsked(c) => new.question = chat[c].question)
  PROVE  CopilotInv'
<1>1. CopilotTypeOK'
  BY DEF CopilotInv, CopilotTypeOK
<1>2. /\ chat \in [Chats -> Chat] /\ chat'[c] = new
      /\ \A d \in Chats : d # c => chat'[d] = chat[d]
  BY DEF CopilotInv, CopilotTypeOK
<1>3. \A d \in Chats : QuestionFits(d)'
  BY <1>2 DEF CopilotInv, QuestionFits, QuestionAsked
<1>4. ShownWhole'
  BY DEF CopilotInv, ShownWhole, ShownInPairs
<1>5. ASSUME ~disturbed' PROVE InOrder'
  <2>1. InOrder
    BY <1>5 DEF CopilotInv
  <2>2. \A d \in Chats : QuestionAsked(d)' = QuestionAsked(d) /\ (QuestionAsked(d) => chat'[d].question = chat[d].question)
    BY <1>2, <1>5 DEF QuestionAsked
  <2>3. TalkAlternates'
    BY <2>1, <2>2 DEF InOrder, TalkAlternates
  <2>4. \A d \in Chats : RecalledAlternates(d)'
    BY <1>2, <1>5, <2>1 DEF InOrder, RecalledAlternates
  <2> QED
    BY <1>5, <2>3, <2>4 DEF InOrder
<1> QED
  BY <1>1, <1>3, <1>4, <1>5 DEF CopilotInv

(* What is recalled of an orderly conversation ends with an answer.        *)
LEMMA RecalledInOrder ==
  ASSUME talk \in Seq(TalkMessage)
  PROVE  /\ Recalled \in Seq(TalkMessage)
         /\ TalkAlternates /\ (\A c \in Chats : ~QuestionAsked(c)) =>
                /\ Len(Recalled) % 2 = 0
                /\ \A k \in DOMAIN Recalled : Recalled[k].role = RoleOfTurn(k)
<1> DEFINE n == IF Len(talk) < Recall THEN Len(talk) ELSE Recall
<1>1. n \in Nat /\ n <= Len(talk) /\ Len(talk) \in Nat /\ Recall \in Nat /\ Recall % 2 = 0
  BY CopilotAssumption
<1>2. /\ \A i \in 1..n : talk[i] \in TalkMessage
      /\ Recalled = SubSeq(talk, 1, n)
  BY <1>1 DEF Recalled
<1>3. /\ Recalled \in Seq(TalkMessage) /\ Len(Recalled) = n
      /\ \A i \in 1..n : Recalled[i] = talk[i]
  <2> HIDE DEF n
  <2>1. /\ SubSeq(talk, 1, n) \in Seq(TalkMessage)
        /\ Len(SubSeq(talk, 1, n)) = IF 1 <= n THEN n - 1 + 1 ELSE 0
        /\ \A i \in 1..(n - 1 + 1) : SubSeq(talk, 1, n)[i] = talk[1 + i - 1]
    BY <1>1, <1>2, SubSeqProperties
  <2> QED
    BY <1>1, <1>2, <2>1
<1>4. ASSUME TalkAlternates, \A c \in Chats : ~QuestionAsked(c)
      PROVE  Len(Recalled) % 2 = 0 /\ \A k \in DOMAIN Recalled : Recalled[k].role = RoleOfTurn(k)
  <2>1. Len(talk) % 2 # 1
    BY <1>4 DEF TalkAlternates
  <2>2. Len(talk) % 2 = 0
    BY <1>1, <2>1
  <2>3. n % 2 = 0
    BY <1>1, <2>2
  <2>4. ASSUME NEW k \in DOMAIN Recalled PROVE Recalled[k].role = RoleOfTurn(k)
    <3>1. k \in 1..n /\ k \in DOMAIN talk /\ Recalled[k] = talk[k]
      BY <1>1, <1>3
    <3>2. talk[k] = IF k % 2 = 1 THEN QuestionOn(k) ELSE AnswerOn(k - 1)
      BY <1>4, <3>1 DEF TalkAlternates
    <3> QED
      BY <3>1, <3>2 DEF RoleOfTurn, QuestionOn, AnswerOn
  <2> QED
    BY <1>3, <2>3, <2>4
<1> QED
  BY <1>3, <1>4

(* An orderly chat is the only one that waits.                             *)
LEMMA OneGoesOn ==
  ASSUME InOrder, NEW c \in Chats, Waiting(c), NEW new \in Chat, chat \in [Chats -> Chat],
         chat' = [chat EXCEPT ![c] = new]
  PROVE  OneAtATime' /\ \A d \in Chats : d # c => ~Waiting(d) /\ ~QuestionAsked(d) /\ chat'[d] = chat[d]
BY DEF InOrder, OneAtATime, Waiting, QuestionAsked

LEMMA StoreQuestionInv ==
  ASSUME CopilotInv, NEW c \in Chats, StoreQuestion(c)
  PROVE  CopilotInv'
<1> DEFINE n == Len(talk) + 1
           new == [chat[c] EXCEPT !.pc = "generate", !.question = n]
<1>0. talk \in Seq(TalkMessage) /\ chat \in [Chats -> Chat] /\ Len(talk) \in Nat /\ n \in Nat
  BY DEF CopilotInv, CopilotTypeOK
<1>1. /\ talk' = Append(talk, QuestionOn(n)) /\ chat' = [chat EXCEPT ![c] = new] /\ chat[c].pc = "question"
      /\ UNCHANGED <<shown, disturbed>>
  BY <1>0 DEF StoreQuestion, QuestionOn
<1>2. new \in Chat /\ new.pc = "generate" /\ new.question = n /\ new.recalled = chat[c].recalled
  BY <1>0 DEF Chat, ChatPc
<1>3. QuestionOn(n) \in TalkMessage
  BY <1>0 DEF QuestionOn, TalkMessage, TalkRole
<1> HIDE DEF n, new
<1>4. /\ talk' \in Seq(TalkMessage) /\ Len(talk') = n /\ talk'[n] = QuestionOn(n)
      /\ DOMAIN talk = 1..Len(talk) /\ DOMAIN talk' = 1..n
      /\ \A k \in DOMAIN talk : talk'[k] = talk[k] /\ k \in DOMAIN talk'
  BY <1>0, <1>1, <1>3, AppendProperties DEF n
<1>5. chat'[c] = new /\ \A d \in Chats : d # c => chat'[d] = chat[d]
  BY <1>0, <1>1
<1>6. CopilotTypeOK'
  BY <1>1, <1>2, <1>4 DEF CopilotInv, CopilotTypeOK
<1>7. ASSUME NEW d \in Chats PROVE QuestionFits(d)'
  <2>1. CASE d = c
    BY <1>0, <1>2, <1>4, <1>5, <2>1 DEF QuestionFits, QuestionAsked, n
  <2>2. CASE d # c
    BY <1>4, <1>5, <2>2 DEF CopilotInv, QuestionFits, QuestionAsked
  <2> QED
    BY <2>1, <2>2
<1>8. ShownWhole'
  BY <1>1 DEF CopilotInv, ShownWhole, ShownInPairs
<1>9. ASSUME ~disturbed PROVE InOrder'
  <2>1. InOrder
    BY <1>9 DEF CopilotInv
  <2>2. OneAtATime' /\ \A d \in Chats : d # c => ~QuestionAsked(d)
    BY <1>0, <1>1, <1>2, <2>1, OneGoesOn DEF Waiting
  <2>3. n % 2 = 1
    <3>1. Len(talk) % 2 # 1
      BY <1>1, <2>1, <2>2 DEF InOrder, TalkAlternates, QuestionAsked
    <3> QED
      BY <1>0, <3>1 DEF n
  <2>4. TalkAlternates'
    <3>1. \A k \in DOMAIN talk' : talk'[k] = IF k % 2 = 1 THEN QuestionOn(k) ELSE AnswerOn(k - 1)
      <4>1. \A k \in DOMAIN talk' : k \in DOMAIN talk \/ k = n
        BY <1>0, <1>4 DEF n
      <4> QED
        BY <1>4, <2>1, <2>3, <4>1 DEF InOrder, TalkAlternates
    <3>2. \A d \in Chats : QuestionAsked(d)' => chat'[d].question = n
      BY <1>2, <1>5, <2>2 DEF QuestionAsked
    <3>3. QuestionAsked(c)'
      BY <1>2, <1>5 DEF QuestionAsked
    <3> QED
      BY <1>4, <2>3, <3>1, <3>2, <3>3 DEF TalkAlternates
  <2>5. ASSUME NEW d \in Chats PROVE RecalledAlternates(d)'
    <3>1. chat'[d].recalled = chat[d].recalled
      BY <1>2, <1>5
    <3>2. chat'[d].pc \in {"context", "question", "generate"} => chat[d].pc \in {"context", "question", "generate"}
      BY <1>1, <1>2, <1>5
    <3>3. RecalledAlternates(d)
      BY <2>1 DEF InOrder
    <3> QED
      BY <3>1, <3>2, <3>3 DEF RecalledAlternates
  <2> QED
    BY <2>2, <2>4, <2>5 DEF InOrder
<1> QED
  BY <1>1, <1>6, <1>7, <1>8, <1>9 DEF CopilotInv

LEMMA StoreAnswerInv ==
  ASSUME CopilotInv, NEW c \in Chats, StoreAnswer(c)
  PROVE  CopilotInv'
<1> DEFINE q == chat[c].question
           n == Len(talk) + 1
<1>0. /\ talk \in Seq(TalkMessage) /\ chat \in [Chats -> Chat] /\ Len(talk) \in Nat /\ n \in Nat
      /\ shown \in Seq(TalkMessage) /\ Len(shown) \in Nat /\ Len(shown) % 2 = 0
      /\ DOMAIN shown = 1..Len(shown)
  BY DEF CopilotInv, CopilotTypeOK, ShownWhole
<1>1. /\ talk' = Append(talk, AnswerOn(q)) /\ chat' = [chat EXCEPT ![c] = NoChat]
      /\ shown' = shown \o Additions(c) /\ UNCHANGED disturbed /\ QuestionAsked(c)
  BY DEF StoreAnswer, AnswerOn, QuestionAsked
<1>2. q \in DOMAIN talk /\ talk[q] = QuestionOn(q) /\ q \in Nat
  BY <1>0, <1>1 DEF CopilotInv, QuestionFits
<1>3. AnswerOn(q) \in TalkMessage /\ QuestionOn(q) \in TalkMessage
  BY <1>2 DEF AnswerOn, QuestionOn, TalkMessage, TalkRole
<1>4. Additions(c) = <<QuestionOn(q), AnswerOn(q)>>
  BY <1>2 DEF Additions, AnswerOn
<1> HIDE DEF q, n
<1>5. /\ talk' \in Seq(TalkMessage) /\ Len(talk') = n /\ talk'[n] = AnswerOn(q)
      /\ DOMAIN talk = 1..Len(talk) /\ DOMAIN talk' = 1..n
      /\ \A k \in DOMAIN talk : talk'[k] = talk[k] /\ k \in DOMAIN talk'
  BY <1>0, <1>1, <1>3, AppendProperties DEF n
<1>6. chat'[c] = NoChat /\ \A d \in Chats : d # c => chat'[d] = chat[d]
  BY <1>0, <1>1
<1>7. /\ shown' \in Seq(TalkMessage) /\ Len(shown') = Len(shown) + 2
      /\ \A k \in 1..Len(shown) : shown'[k] = shown[k]
      /\ shown'[Len(shown) + 1] = QuestionOn(q) /\ shown'[Len(shown) + 2] = AnswerOn(q)
  <2> DEFINE both == <<QuestionOn(q), AnswerOn(q)>>
  <2>1. both \in Seq(TalkMessage) /\ Len(both) = 2 /\ both[1] = QuestionOn(q) /\ both[2] = AnswerOn(q)
    BY <1>3
  <2> HIDE DEF both
  <2>2. /\ shown \o both \in Seq(TalkMessage)
        /\ Len(shown \o both) = Len(shown) + Len(both)
        /\ \A i \in 1..(Len(shown) + Len(both)) :
               (shown \o both)[i] = IF i <= Len(shown) THEN shown[i] ELSE both[i - Len(shown)]
    BY <1>0, <2>1, ConcatProperties
  <2>3. shown' = shown \o both
    BY <1>1, <1>4 DEF both
  <2> QED
    BY <1>0, <2>1, <2>2, <2>3
<1>8. CopilotTypeOK'
  BY <1>1, <1>5, <1>7, NoChatTyped DEF CopilotInv, CopilotTypeOK
<1>9. ASSUME NEW d \in Chats PROVE QuestionFits(d)'
  <2>1. CASE d = c
    BY <1>6, <2>1, NoChatTyped DEF QuestionFits, QuestionAsked
  <2>2. CASE d # c
    BY <1>5, <1>6, <2>2 DEF CopilotInv, QuestionFits, QuestionAsked
  <2> QED
    BY <2>1, <2>2
<1>10. ShownWhole'
  <2>1. Len(shown') % 2 = 0 /\ DOMAIN shown' = 1..(Len(shown) + 2)
    BY <1>0, <1>7
  <2>2. ASSUME NEW k \in DOMAIN shown', k % 2 = 1
        PROVE  /\ k + 1 \in DOMAIN shown'
               /\ shown'[k].role = "USER" /\ shown'[k + 1].role = "ASSISTANT"
               /\ shown'[k].on = shown'[k + 1].on
    <3>1. CASE k \in 1..Len(shown)
      <4>1. /\ k + 1 \in 1..Len(shown)
            /\ shown[k].role = "USER" /\ shown[k + 1].role = "ASSISTANT"
            /\ shown[k].on = shown[k + 1].on
        BY <1>0, <2>2, <3>1 DEF CopilotInv, ShownWhole, ShownInPairs
      <4> QED
        BY <1>0, <1>7, <2>1, <3>1, <4>1
    <3>2. CASE k \notin 1..Len(shown)
      <4>1. k = Len(shown) + 1
        BY <1>0, <2>1, <2>2, <3>2
      <4> QED
        BY <1>0, <1>7, <2>1, <4>1 DEF QuestionOn, AnswerOn
    <3> QED
      BY <3>1, <3>2
  <2> QED
    BY <2>1, <2>2 DEF ShownWhole, ShownInPairs
<1>11. ASSUME ~disturbed PROVE InOrder'
  <2>1. InOrder
    BY <1>11 DEF CopilotInv
  <2>2. OneAtATime' /\ \A d \in Chats : d # c => ~QuestionAsked(d)
    BY <1>0, <1>1, <2>1, NoChatTyped, OneGoesOn DEF Waiting, QuestionAsked
  <2>3. q = Len(talk) /\ n - 1 = q /\ n % 2 = 0
    <3>1. q = Len(talk) /\ Len(talk) % 2 = 1
      BY <1>1, <2>1 DEF InOrder, TalkAlternates, q
    <3> QED
      BY <1>0, <3>1 DEF n
  <2>4. TalkAlternates'
    <3>1. \A k \in DOMAIN talk' : talk'[k] = IF k % 2 = 1 THEN QuestionOn(k) ELSE AnswerOn(k - 1)
      <4>1. \A k \in DOMAIN talk' : k \in DOMAIN talk \/ k = n
        BY <1>0, <1>5 DEF n
      <4>2. talk'[n] = AnswerOn(n - 1) /\ n % 2 # 1
        BY <1>5, <2>3
      <4>3. \A k \in DOMAIN talk : talk'[k] = IF k % 2 = 1 THEN QuestionOn(k) ELSE AnswerOn(k - 1)
        BY <1>5, <2>1 DEF InOrder, TalkAlternates
      <4> QED
        BY <4>1, <4>2, <4>3
    <3>2. \A d \in Chats : ~QuestionAsked(d)'
      BY <1>6, <2>2, NoChatTyped DEF QuestionAsked
    <3> QED
      BY <1>5, <2>3, <3>1, <3>2 DEF TalkAlternates
  <2>5. \A d \in Chats : RecalledAlternates(d)'
    BY <1>6, <2>1, NoChatTyped DEF InOrder, RecalledAlternates
  <2> QED
    BY <2>2, <2>4, <2>5 DEF InOrder
<1> QED
  BY <1>1, <1>8, <1>9, <1>10, <1>11 DEF CopilotInv

LEMMA CopilotStepInv == ASSUME CopilotInv, NEW c \in Chats, CopilotStep(c) PROVE CopilotInv'
<1>0. /\ chat \in [Chats -> Chat] /\ chat[c] \in Chat /\ talk \in Seq(TalkMessage)
      /\ disturbed \in BOOLEAN /\ QuestionFits(c) /\ (~disturbed => InOrder)
  BY DEF CopilotInv, CopilotTypeOK
<1>1. CASE SendPrompt(c)
  <2> DEFINE new == [chat[c] EXCEPT !.pc = "recall"]
  <2>1. /\ new \in Chat /\ new.pc = "recall" /\ new.question = chat[c].question
        /\ chat' = [chat EXCEPT ![c] = new] /\ chat[c].pc = "idle"
        /\ disturbed' = (disturbed \/ \E other \in Chats : Waiting(other))
        /\ UNCHANGED <<talk, shown>>
    BY <1>0, <1>1 DEF SendPrompt, Chat, ChatPc
  <2> HIDE DEF new
  <2>2. chat'[c] = new /\ \A d \in Chats : d # c => chat'[d] = chat[d]
    BY <1>0, <2>1
  <2>3. QuestionFits(c)' /\ RecalledAlternates(c)' /\ QuestionAsked(c)' = QuestionAsked(c) /\ ~QuestionAsked(c)
    <3>1. ~QuestionAsked(c) /\ ~QuestionAsked(c)' /\ chat[c].question = 0
      BY <1>0, <2>1, <2>2 DEF QuestionFits, QuestionAsked
    <3>2. QuestionFits(c)'
      BY <2>1, <2>2, <3>1 DEF QuestionFits
    <3>3. RecalledAlternates(c)'
      BY <2>1, <2>2 DEF RecalledAlternates
    <3>4. QuestionAsked(c)' = QuestionAsked(c)
      BY <3>1 DEF QuestionAsked
    <3> QED
      BY <3>1, <3>2, <3>3, <3>4
  <2>4. ~disturbed' => OneAtATime'
    BY <2>1, <2>2 DEF OneAtATime, Waiting
  <2>5. disturbed' \in BOOLEAN /\ (disturbed => disturbed')
    BY <1>0, <2>1
  <2> QED
    BY <2>1, <2>3, <2>4, <2>5, ChatMoves
<1>2. CASE RecallTalk(c)
  <2> DEFINE new == [chat[c] EXCEPT !.pc = "context", !.recalled = Recalled]
  <2>1. /\ chat' = [chat EXCEPT ![c] = new] /\ chat[c].pc = "recall"
        /\ UNCHANGED <<talk, shown, disturbed>>
    BY <1>0, <1>2 DEF RecallTalk
  <2>2. new \in Chat /\ new.pc = "context" /\ new.recalled = Recalled /\ new.question = chat[c].question
    BY <1>0, RecalledInOrder DEF Chat, ChatPc
  <2> HIDE DEF new
  <2>3. chat'[c] = new
    BY <1>0, <2>1
  <2>4. QuestionFits(c)' /\ QuestionAsked(c)' = QuestionAsked(c) /\ ~QuestionAsked(c)
    BY <1>0, <2>1, <2>2, <2>3 DEF QuestionFits, QuestionAsked
  <2>5. ASSUME ~disturbed PROVE OneAtATime' /\ RecalledAlternates(c)'
    <3>1. OneAtATime' /\ \A d \in Chats : ~QuestionAsked(d)
      BY <1>0, <2>1, <2>2, <2>4, <2>5, OneGoesOn DEF Waiting
    <3>2. /\ Len(Recalled) % 2 = 0
          /\ \A k \in DOMAIN Recalled : Recalled[k].role = RoleOfTurn(k)
      BY <1>0, <2>5, <3>1, RecalledInOrder DEF InOrder
    <3>3. /\ Len(chat'[c].recalled) % 2 = 0
          /\ \A k \in DOMAIN chat'[c].recalled : chat'[c].recalled[k].role = RoleOfTurn(k)
      BY <2>2, <2>3, <3>2
    <3> QED
      BY <3>1, <3>3 DEF RecalledAlternates
  <2> QED
    BY <1>0, <2>1, <2>2, <2>4, <2>5, ChatMoves
<1>3. ASSUME NEW from \in {"context", "generate"}, NEW to \in {"question", "answer"},
             ChatGoes(c, from, to), QuestionAsked(c) <=> to = "answer"
      PROVE  CopilotInv'
  <2> DEFINE new == [chat[c] EXCEPT !.pc = to]
  <2>1. /\ new \in Chat /\ new.pc = to /\ new.question = chat[c].question
        /\ new.recalled = chat[c].recalled
        /\ chat' = [chat EXCEPT ![c] = new] /\ chat[c].pc = from
        /\ UNCHANGED <<talk, shown, disturbed>>
    BY <1>0, <1>3 DEF ChatGoes, Chat, ChatPc
  <2> HIDE DEF new
  <2>2. chat'[c] = new
    BY <1>0, <2>1
  <2>3. QuestionFits(c)' /\ QuestionAsked(c)' = QuestionAsked(c)
    BY <1>0, <1>3, <2>1, <2>2 DEF QuestionFits, QuestionAsked
  <2>4. ASSUME ~disturbed PROVE OneAtATime' /\ RecalledAlternates(c)'
    <3>1. OneAtATime'
      BY <1>0, <1>3, <2>1, <2>4, OneGoesOn DEF Waiting
    <3>2. RecalledAlternates(c)
      BY <1>0, <2>4 DEF InOrder
    <3> QED
      BY <1>3, <2>1, <2>2, <3>1, <3>2 DEF RecalledAlternates
  <2> QED
    BY <1>0, <2>1, <2>3, <2>4, ChatMoves
<1>4. CASE ReadContext(c)
  BY <1>3, <1>4 DEF ReadContext, ChatGoes, QuestionAsked
<1>5. CASE GenerateAnswer(c)
  BY <1>3, <1>5 DEF GenerateAnswer, ChatGoes, QuestionAsked, AfterThrow
<1>6. CASE ChatThrows(c)
  <2>1. disturbed' = TRUE /\ chat' = [chat EXCEPT ![c] = NoChat] /\ UNCHANGED <<talk, shown>>
    BY <1>6 DEF ChatThrows
  <2>2. QuestionFits(c)'
    BY <1>0, <2>1, NoChatTyped DEF QuestionFits, QuestionAsked
  <2> QED
    BY <2>1, <2>2, NoChatTyped, ChatMoves
<1> QED
  BY <1>1, <1>2, <1>4, <1>5, <1>6, StoreQuestionInv, StoreAnswerInv DEF CopilotStep

LEMMA CopilotNextInv == CopilotInv /\ [CopilotNext]_copilotVars => CopilotInv'
<1> SUFFICES ASSUME CopilotInv, [CopilotNext]_copilotVars PROVE CopilotInv'
  OBVIOUS
<1>1. CASE CopilotNext
  BY <1>1, CopilotStepInv DEF CopilotNext
<1>2. CASE UNCHANGED copilotVars
  BY <1>2 DEF copilotVars, CopilotInv, CopilotTypeOK, QuestionFits, QuestionAsked, ShownWhole, ShownInPairs,
     InOrder, OneAtATime, Waiting, TalkAlternates, RecalledAlternates
<1> QED
  BY <1>1, <1>2

LEMMA CopilotInvHolds == CopilotSpec => []CopilotInv
BY CopilotInitInv, CopilotNextInv, PTL DEF CopilotSpec

LEMMA CopilotInvGives == CopilotInv => CopilotTypeOK /\ TalkIsKept
<1> SUFFICES ASSUME CopilotInv PROVE TalkIsKept
  BY DEF CopilotInv
<1>1. PromptAlternates
  <2> SUFFICES ASSUME NEW c \in Chats, chat[c].pc = "generate", ~disturbed,
                      NEW k \in DOMAIN Prompt(c)
               PROVE  Prompt(c)[k].role = RoleOfTurn(k)
    BY DEF PromptAlternates, RoleOfTurn
  <2> DEFINE r == chat[c].recalled
             q == chat[c].question
  <2>1. /\ r \in Seq(TalkMessage) /\ Len(r) \in Nat /\ Len(r) % 2 = 0
        /\ \A i \in DOMAIN r : r[i].role = RoleOfTurn(i)
    <3>1. r \in Seq(TalkMessage)
      BY DEF CopilotInv, CopilotTypeOK, Chat
    <3>2. RecalledAlternates(c)
      BY DEF CopilotInv, InOrder
    <3>3. Len(r) % 2 = 0 /\ \A i \in DOMAIN r : r[i].role = RoleOfTurn(i)
      BY <3>2, Zenon DEF RecalledAlternates
    <3> HIDE DEF r
    <3> QED
      BY <3>1, <3>3
  <2>2. talk[q] = QuestionOn(q) /\ talk[q] \in TalkMessage
    BY DEF CopilotInv, CopilotTypeOK, QuestionFits, QuestionAsked
  <2> HIDE DEF r, q
  <2>3. /\ Prompt(c) \in Seq(TalkMessage) /\ Len(Prompt(c)) = Len(r) + 1
        /\ \A i \in 1..Len(r) : Prompt(c)[i] = r[i]
        /\ Prompt(c)[Len(r) + 1] = QuestionOn(q)
    BY <2>1, <2>2, AppendProperties DEF Prompt, r, q
  <2>4. k \in 1..Len(r) \/ k = Len(r) + 1
    BY <2>1, <2>3
  <2>5. (Len(r) + 1) % 2 = 1
    BY <2>1
  <2> QED
    BY <2>1, <2>3, <2>4, <2>5 DEF QuestionOn, RoleOfTurn
<1>2. QuestionsAreAnswered
  <2> SUFFICES ASSUME ~disturbed, NEW k \in DOMAIN talk, talk[k].role = "USER"
               PROVE  \/ \E n \in DOMAIN talk : talk[n] = [role |-> "ASSISTANT", on |-> k]
                      \/ \E c \in Chats : chat[c].question = k
    BY DEF QuestionsAreAnswered
  <2>1. TalkAlternates /\ DOMAIN talk = 1..Len(talk) /\ Len(talk) \in Nat
    BY DEF CopilotInv, CopilotTypeOK, InOrder
  <2>2. k % 2 = 1
    BY <2>1 DEF TalkAlternates, QuestionOn, AnswerOn
  <2>3. CASE k = Len(talk)
    <3>1. \E c \in Chats : QuestionAsked(c) /\ chat[c].question = k
      BY <2>1, <2>2, <2>3 DEF TalkAlternates
    <3> QED
      BY <3>1
  <2>4. CASE k # Len(talk)
    <3>1. k + 1 \in DOMAIN talk /\ (k + 1) % 2 = 0 /\ (k + 1) - 1 = k
      BY <2>1, <2>2, <2>4
    <3>2. talk[k + 1] = AnswerOn((k + 1) - 1)
      BY <2>1, <3>1 DEF TalkAlternates
    <3> QED
      BY <3>1, <3>2 DEF AnswerOn
  <2> QED
    BY <2>3, <2>4
<1> QED
  BY <1>1, <1>2 DEF TalkIsKept, CopilotInv, ShownWhole

(***************************************************************************)
(* The crawler                                                             *)
(***************************************************************************)

CrawlPc == {"start", "verify", "preauth", "loop", "read", "click", "audit", "ai", "block", "cut",
            "offline", "unblock", "restore", "contract", "report", "thrown", "crashed", "done"}
WalkPc == {"start", "verify", "preauth", "loop", "read", "click"}
OnPage == {"read", "click"}
Ended == {"thrown", "crashed", "done"}
OutagePc == {"block", "cut", "offline", "unblock", "restore"}
CrawlType ==
    [pc : CrawlPc, queue : Seq(SiteRoutes), visited : SUBSET SiteRoutes, pages : Seq(SiteRoutes),
     route : SiteRoutes, at : SiteRoutes, clicks : 0..MaxClicks, links : SUBSET SiteRoutes,
     passed : SUBSET Probe, failed : SUBSET Probe]
IssueType ==
    [severity : {"critical", "medium", "minor"}, finding : BOOLEAN, route : SiteRoutes \cup {NoRoute}]
Blocked == {"none", "api", "copilot"}
OutageType ==
    [capture : BOOLEAN, blocked : Blocked, left : Seq({"api", "copilot"}), graceful : BOOLEAN]
LaunchType == [started : SUBSET Started, running : SUBSET Started, exit : {NoExit, 0, 1}]
Everyone == {"Delivery Manager", "Owner", "Staff"}
EscalationType ==
    [pc : {"waits", "send", "done", "refused"}, told : Seq(Range(Webhooks)), roles : SUBSET Everyone]

CrawlTyped ==
    /\ crawl \in CrawlType
    /\ issues \subseteq IssueType /\ IsFiniteSet(issues)
    /\ outage \in OutageType
    /\ launched \in LaunchType
    /\ escalation \in EscalationType

Expected == Range(ExpectedRoutes)
(* Every route that is expected or linked to is visited or in the queue,   *)
(* and one that is not expected behind all those that are.                 *)
QueueFits(c) ==
    /\ Expected \cup c.links \subseteq c.visited \cup Range(c.queue)
    /\ \A k \in DOMAIN c.queue : c.queue[k] \notin Expected =>
           \A e \in Expected : e \in c.visited \/ \E j \in DOMAIN c.queue : j < k /\ c.queue[j] = e
PagesFit(c) ==
    /\ IsFiniteSet(Range(c.pages)) /\ Cardinality(Range(c.pages)) = Len(c.pages)
    /\ Len(c.pages) <= MaxPages
    /\ \A n \in DOMAIN c.pages : c.pages[n] \notin Expected =>
           \A e \in Expected : \E j \in DOMAIN c.pages : j <= n /\ c.pages[j] = e
WalkFits(c) ==
    /\ PagesFit(c)
    /\ c.pc \in OnPage =>
           /\ c.route \notin Range(c.pages) /\ c.visited = Range(c.pages) \cup {c.route}
           /\ Len(c.pages) < MaxPages
           /\ c.route \notin Expected => Expected \subseteq Range(c.pages)
    /\ c.pc \notin OnPage \cup Ended => c.visited = Range(c.pages)
    /\ c.pc \in WalkPc => QueueFits(c)
    /\ c.pc \notin WalkPc \cup {"thrown", "crashed"} /\ Len(c.pages) < MaxPages =>
           Expected \cup c.links \subseteq Range(c.pages)

(* A probe that is over has passed or failed.                              *)
ProbesFit(c) ==
    /\ c.pc \in OutagePc \cup {"contract", "report", "done"} => "ai" \in c.passed \cup c.failed
    /\ c.pc \in {"contract", "report", "done"} => "outage" \in c.passed \cup c.failed
    /\ c.pc \in {"report", "done"} => "contract" \in c.passed \cup c.failed

OutageFits(c, o) ==
    /\ c.pc \in {"cut", "offline", "unblock", "restore"} => ~o.capture
    /\ o.blocked # "none" => c.pc \in {"offline", "unblock"}
    /\ c.pc \in OutagePc \cup WalkPc \cup {"audit", "ai"} => o.left # <<>>

EndFits(c, l) ==
    /\ c.pc \notin Ended => l.exit = NoExit
    /\ c.pc \in {"thrown", "crashed"} => l.exit = 1
    /\ c.pc \in {"thrown", "done"} => l.running = {}
PassFits == launched.exit = 0 /\ GateEnforced => FailedKeys = {}

EscalationFits(e) ==
    /\ Len(e.told) <= Len(Webhooks)
    /\ \A n \in DOMAIN e.told : e.told[n] = Webhooks[n]
    /\ e.pc = "send" => Len(e.told) < Len(Webhooks)
    /\ e.pc = "done" => Len(e.told) = Len(Webhooks)
    /\ e.pc = "waits" => e.told = <<>>
    /\ e.pc # "waits" => e.roles = Everyone

CrawlerInv ==
    /\ CrawlTyped
    /\ WalkFits(crawl) /\ ProbesFit(crawl)
    /\ OutageFits(crawl, outage) /\ EndFits(crawl, launched) /\ PassFits
    /\ EscalationFits(escalation)

-----------------------------------------------------------------------------

LEMMA CrawlerInitInv == CrawlerInit => CrawlerInv
<1> SUFFICES ASSUME CrawlerInit PROVE CrawlerInv
  OBVIOUS
<1>1. ExpectedRoutes \in Seq(SiteRoutes) /\ "/login" \in SiteRoutes /\ MaxClicks \in Nat /\ MaxPages \in Nat
      /\ Webhooks \in Seq(Range(Webhooks))
  BY CrawlerAssumption
<1>2. crawl = [pc |-> "start", queue |-> ExpectedRoutes, visited |-> {}, pages |-> <<>>,
                route |-> "/login", at |-> "/login", clicks |-> 0, links |-> {},
                passed |-> {}, failed |-> {}]
  BY DEF CrawlerInit
<1>3. \A S : <<>> \in Seq(S) /\ Len(<<>>) = 0
  BY EmptySeq
<1>4. crawl \in CrawlType
  <2>1. <<>> \in Seq(SiteRoutes) /\ 0 \in 0..MaxClicks /\ "start" \in CrawlPc
    BY <1>1, <1>3 DEF CrawlPc
  <2> QED
    BY <1>1, <1>2, <2>1 DEF CrawlType
<1>5. issues \subseteq IssueType /\ IsFiniteSet(issues)
  BY FS_EmptySet DEF CrawlerInit
<1>6. outage = [capture |-> TRUE, blocked |-> "none", left |-> <<"api", "copilot">>, graceful |-> TRUE]
  BY DEF CrawlerInit
<1>7. <<"api", "copilot">> \in Seq({"api", "copilot"}) /\ <<"api", "copilot">> # <<>>
  OBVIOUS
<1>8. outage \in OutageType
  BY <1>6, <1>7 DEF OutageType, Blocked
<1>9. launched = [started |-> {}, running |-> {}, exit |-> NoExit]
      /\ escalation = [pc |-> "waits", told |-> <<>>, roles |-> {}]
  BY DEF CrawlerInit
<1>10. launched \in LaunchType
  BY <1>9 DEF LaunchType
<1>11. escalation \in EscalationType
  BY <1>3, <1>9 DEF EscalationType
<1>12. WalkFits(crawl)
  <2>1. Range(<<>>) = {} /\ DOMAIN <<>> = {}
    BY <1>3 DEF Range
  <2>2. crawl.pc = "start" /\ crawl.pages = <<>> /\ crawl.visited = {} /\ crawl.queue = ExpectedRoutes /\ crawl.links = {}
    BY <1>2
  <2>3. PagesFit(crawl)
    BY <1>1, <1>3, <2>1, <2>2, FS_EmptySet DEF PagesFit
  <2>4. \A k \in DOMAIN ExpectedRoutes : ExpectedRoutes[k] \in Expected
    BY DEF Expected, Range
  <2>5. QueueFits(crawl)
    BY <2>2, <2>4 DEF QueueFits, Expected
  <2> QED
    BY <2>1, <2>2, <2>3, <2>5 DEF WalkFits, OnPage, Ended, WalkPc
<1>13. ProbesFit(crawl)
  BY <1>2 DEF ProbesFit, OutagePc
<1>14. OutageFits(crawl, outage)
  BY <1>2, <1>6, <1>7 DEF OutageFits
<1>15. EndFits(crawl, launched)
  BY <1>2, <1>9 DEF EndFits, Ended
<1>16. PassFits
  BY <1>9, CrawlerAssumption DEF PassFits
<1>17. EscalationFits(escalation)
  BY <1>1, <1>3, <1>9, LenProperties DEF EscalationFits
<1> QED
  BY <1>4, <1>5, <1>8, <1>10, <1>11, <1>12, <1>13, <1>14, <1>15, <1>16, <1>17 DEF CrawlerInv, CrawlTyped

-----------------------------------------------------------------------------
(* What is noted is an issue.                                              *)
LEMMA IssuesNoted ==
  ASSUME CrawlTyped, NEW types, IsFiniteSet(types), NEW route \in SiteRoutes \cup {NoRoute}, Note(types, route)
  PROVE  issues' \subseteq IssueType /\ IsFiniteSet(issues')
<1> DEFINE added == {Issue(t, route) : t \in types}
           f == [t \in types |-> Issue(t, route)]
<1>1. added \subseteq IssueType
  <2>1. ASSUME NEW t \in types PROVE Issue(t, route) \in IssueType
    <3>1. (IF t \in Critical THEN "critical" ELSE IF t \in Medium THEN "medium" ELSE "minor")
              \in {"critical", "medium", "minor"}
      OBVIOUS
    <3>2. (t \notin NotActionable) \in BOOLEAN
      OBVIOUS
    <3> QED
      BY <3>1, <3>2 DEF Issue, IssueType
  <2> QED
    BY <2>1
<1>2. f \in Surjection(types, added)
  BY DEF Surjection
<1>3. IsFiniteSet(added)
  BY <1>2, FS_Surjection
<1> HIDE DEF added, f
<1>4. issues' = issues \cup added
  BY DEF Note, added
<1> QED
  BY <1>1, <1>3, <1>4, FS_Union DEF CrawlTyped

LEMMA FiniteOfFew ==
  /\ \A a : IsFiniteSet({a})
  /\ \A a, b, c : IsFiniteSet({a, b, c}) /\ \A S \in SUBSET {a, b, c} : IsFiniteSet(S)
  /\ \A a, b : \A S \in SUBSET {a, b} : IsFiniteSet(S)
<1>1. \A a : IsFiniteSet({a})
  BY FS_Singleton
<1>2. ASSUME NEW a, NEW b, NEW c PROVE IsFiniteSet({a, b, c})
  <2>1. IsFiniteSet(({a} \cup {b}) \cup {c})
    BY <1>1, FS_AddElement
  <2> QED
    BY <2>1
<1>3. ASSUME NEW a, NEW b, NEW c, NEW S \in SUBSET {a, b, c} PROVE IsFiniteSet(S)
  BY <1>2, FS_Subset
<1>4. ASSUME NEW a, NEW b, NEW S \in SUBSET {a, b} PROVE IsFiniteSet(S)
  BY <1>3
<1> QED
  BY <1>1, <1>2, <1>3, <1>4

(* Steps that leave the walk as it is.                                     *)
SameWalk(c, d) ==
    /\ d.queue = c.queue /\ d.visited = c.visited /\ d.pages = c.pages /\ d.links = c.links
    /\ d.route = c.route

LEMMA WalkStays ==
  ASSUME NEW c \in CrawlType, NEW d \in CrawlType, WalkFits(c), SameWalk(c, d),
         \/ d.pc = c.pc \/ d.pc \in {"thrown", "crashed"}
         \/ c.pc \in WalkPc \ OnPage /\ d.pc \in WalkPc \ OnPage
         \/ c.pc \notin WalkPc \cup Ended /\ d.pc \notin WalkPc
  PROVE  WalkFits(d)
<1>1. PagesFit(d) /\ (QueueFits(c) => QueueFits(d))
  BY DEF WalkFits, PagesFit, QueueFits, SameWalk
<1> QED
  BY <1>1 DEF WalkFits, SameWalk, WalkPc, OnPage, Ended

(* A step of the script that touches neither issues, outage nor services.  *)
LEMMA CrawlMoves ==
  ASSUME CrawlerInv, NEW d \in CrawlType, crawl' = d, crawl.pc \notin Ended, d.pc # "crashed",
         d.pc \notin Ended,
         issues' \subseteq IssueType, IsFiniteSet(issues'), outage' \in OutageType,
         UNCHANGED escalation, launched' \in LaunchType, launched'.exit = launched.exit,
         WalkFits(d), ProbesFit(d), OutageFits(d, outage')
  PROVE  CrawlerInv'
<1>1. CrawlTyped'
  BY DEF CrawlerInv, CrawlTyped
<1>2. launched'.exit = NoExit
  BY DEF CrawlerInv, EndFits
<1>3. EndFits(d, launched')
  BY <1>2 DEF EndFits, Ended
<1>4. PassFits'
  BY <1>2, CrawlerAssumption DEF PassFits
<1>5. EscalationFits(escalation')
  BY DEF CrawlerInv
<1>6. WalkFits(crawl)' /\ ProbesFit(crawl)' /\ OutageFits(crawl, outage)' /\ EndFits(crawl, launched)'
      /\ EscalationFits(escalation)'
  BY <1>3, <1>5 DEF WalkFits, PagesFit, QueueFits, ProbesFit, OutageFits, EndFits, EscalationFits
<1> QED
  BY <1>1, <1>4, <1>6 DEF CrawlerInv

-----------------------------------------------------------------------------
(* The services, and the ends of the script *)

LEMMA TypedNow ==
  ASSUME CrawlerInv
  PROVE  /\ crawl \in CrawlType /\ issues \subseteq IssueType /\ IsFiniteSet(issues)
         /\ outage \in OutageType /\ launched \in LaunchType /\ escalation \in EscalationType
         /\ WalkFits(crawl) /\ ProbesFit(crawl) /\ OutageFits(crawl, outage) /\ EndFits(crawl, launched)
BY DEF CrawlerInv, CrawlTyped

LEMMA StartEnvironmentInv == ASSUME CrawlerInv, StartEnvironment PROVE CrawlerInv'
<1> DEFINE d == [crawl EXCEPT !.pc = "verify"]
<1>1. crawl' = d /\ crawl.pc = "start" /\ UNCHANGED <<issues, outage, escalation>>
  BY DEF StartEnvironment
<1>2. d \in CrawlType /\ d.pc = "verify" /\ SameWalk(crawl, d)
  BY TypedNow DEF CrawlType, CrawlPc, SameWalk
<1> HIDE DEF d
<1>3. launched' \in LaunchType /\ launched'.exit = launched.exit
  BY TypedNow DEF StartEnvironment, LaunchType
<1>4. WalkFits(d)
  BY <1>1, <1>2, TypedNow, WalkStays DEF WalkPc, OnPage
<1>5. ProbesFit(d) /\ OutageFits(d, outage')
  BY <1>1, <1>2, TypedNow DEF ProbesFit, OutageFits, OutagePc, WalkPc
<1>6. crawl.pc \notin Ended /\ d.pc \notin Ended /\ d.pc # "crashed"
  BY <1>1, <1>2 DEF Ended
<1> QED
  BY <1>1, <1>2, <1>3, <1>4, <1>5, <1>6, TypedNow, CrawlMoves

(* The walk of the next state.                                             *)
LEMMA WalkNext == ASSUME NEW d, crawl' = d, WalkFits(d) PROVE WalkFits(crawl)'
<1>1. (PagesFit(crawl)' <=> PagesFit(d)) /\ (QueueFits(crawl)' <=> QueueFits(d))
  BY DEF PagesFit, QueueFits
<1> QED
  BY <1>1 DEF WalkFits

(* The script ends with the exit code 1.                                   *)
LEMMA FailsInv ==
  ASSUME CrawlerInv, NEW pc \in {"thrown", "crashed"}, crawl' = [crawl EXCEPT !.pc = pc],
         crawl.pc \in {"start", "verify", "preauth", "read", "report"},
         UNCHANGED <<issues, outage, escalation>>, launched' \in LaunchType, launched'.exit = 1,
         pc = "thrown" => launched'.running = {}
  PROVE  CrawlerInv'
<1> DEFINE d == [crawl EXCEPT !.pc = pc]
<1>1. d \in CrawlType /\ d.pc = pc /\ SameWalk(crawl, d)
  BY TypedNow DEF CrawlType, CrawlPc, SameWalk
<1>2. crawl' = d
  OBVIOUS
<1> HIDE DEF d
<1>3. CrawlTyped'
  BY <1>1, <1>2 DEF CrawlerInv, CrawlTyped
<1>4. WalkFits(d)
  BY <1>1, TypedNow, WalkStays
<1>5. ProbesFit(d) /\ EndFits(d, launched')
  BY <1>1 DEF ProbesFit, EndFits, OutagePc, Ended
<1>6. OutageFits(d, outage')
  BY <1>1, TypedNow DEF OutageFits, OutagePc, WalkPc
<1>7. PassFits'
  BY DEF PassFits
<1>8. EscalationFits(escalation')
  BY DEF CrawlerInv
<1>9. WalkFits(crawl)'
  BY <1>2, <1>4, WalkNext
<1>10. ProbesFit(crawl)' /\ EndFits(crawl, launched)'
  BY <1>2, <1>5 DEF ProbesFit, EndFits
<1>11. OutageFits(crawl, outage)' /\ EscalationFits(escalation)'
  BY <1>2, <1>6, <1>8 DEF OutageFits, EscalationFits
<1> QED
  BY <1>3, <1>7, <1>9, <1>10, <1>11 DEF CrawlerInv

LEMMA ThrowsInv == ASSUME CrawlerInv, StartThrows \/ LauncherMissing \/ CrawlThrows PROVE CrawlerInv'
<1>0. CASE StartThrows
  <2>1. PICK up \in SUBSET Started :
            launched' = [launched EXCEPT !.started = up, !.running = up, !.exit = 1]
    BY <1>0 DEF StartThrows
  <2>2. launched' \in LaunchType /\ launched'.exit = 1
    BY <2>1, TypedNow DEF LaunchType
  <2>3. crawl' = [crawl EXCEPT !.pc = "crashed"] /\ crawl.pc = "start" /\ UNCHANGED <<issues, outage, escalation>>
    BY <1>0 DEF StartThrows
  <2> QED
    BY <2>2, <2>3, FailsInv
<1>1. CASE LauncherMissing
  <2>1. PICK s \in launched.started : launched' = [launched EXCEPT !.running = @ \ {s}, !.exit = 1]
    BY <1>1 DEF LauncherMissing
  <2>2. launched' \in LaunchType /\ launched'.exit = 1
    BY <2>1, TypedNow DEF LaunchType
  <2>3. crawl' = [crawl EXCEPT !.pc = "crashed"] /\ crawl.pc = "verify" /\ UNCHANGED <<issues, outage, escalation>>
    BY <1>1 DEF LauncherMissing
  <2> QED
    BY <2>2, <2>3, FailsInv
<1>2. CASE CrawlThrows
  <2>1. launched' \in LaunchType /\ launched'.exit = 1 /\ launched'.running = {}
    BY <1>2, TypedNow DEF CrawlThrows, Exit, LaunchType
  <2>2. /\ crawl' = [crawl EXCEPT !.pc = "thrown"] /\ crawl.pc \in {"verify", "preauth", "read", "report"}
        /\ UNCHANGED <<issues, outage, escalation>>
    BY <1>2 DEF CrawlThrows
  <2> QED
    BY <2>1, <2>2, FailsInv
<1> QED
  BY <1>0, <1>1, <1>2

(* A step to another place of the script that changes nothing but issues.  *)
LEMMA GoesToInv ==
  ASSUME CrawlerInv, NEW d \in CrawlType, crawl' = d, SameWalk(crawl, d),
         d.passed = crawl.passed, d.failed = crawl.failed,
         UNCHANGED <<outage, launched, escalation>>, issues' \subseteq IssueType, IsFiniteSet(issues'),
         \/ crawl.pc \in {"verify", "preauth"} /\ d.pc \in {"preauth", "loop"}
         \/ crawl.pc = "audit" /\ d.pc = "ai"
         \/ crawl.pc \notin Ended /\ d.pc = crawl.pc
  PROVE  CrawlerInv'
<1>1. WalkFits(d)
  BY TypedNow, WalkStays DEF WalkPc, OnPage, Ended
<1>2. ProbesFit(d) /\ OutageFits(d, outage')
  BY TypedNow DEF ProbesFit, OutageFits, OutagePc, WalkPc, Ended
<1>3. crawl.pc \notin Ended /\ d.pc \notin Ended /\ d.pc # "crashed"
  BY DEF Ended
<1> QED
  BY <1>1, <1>2, <1>3, TypedNow, CrawlMoves

LEMMA VerifyServicesReadyInv == ASSUME CrawlerInv, VerifyServicesReady PROVE CrawlerInv'
<1> DEFINE d == [crawl EXCEPT !.pc = "preauth"]
<1>1. /\ d \in CrawlType /\ d.pc = "preauth" /\ SameWalk(crawl, d)
      /\ d.passed = crawl.passed /\ d.failed = crawl.failed
  BY TypedNow DEF CrawlType, CrawlPc, SameWalk
<1>2. crawl' = d /\ crawl.pc = "verify" /\ UNCHANGED <<issues, outage, launched, escalation>>
  BY DEF VerifyServicesReady
<1> HIDE DEF d
<1> QED
  BY <1>1, <1>2, TypedNow, GoesToInv

LEMMA PreAuthInv == ASSUME CrawlerInv, PreAuth PROVE CrawlerInv'
<1> DEFINE d == [crawl EXCEPT !.pc = "loop"]
<1>1. /\ d \in CrawlType /\ d.pc = "loop" /\ SameWalk(crawl, d)
      /\ d.passed = crawl.passed /\ d.failed = crawl.failed
  BY TypedNow DEF CrawlType, CrawlPc, SameWalk
<1>2. crawl' = d /\ crawl.pc = "preauth" /\ UNCHANGED <<outage, launched, escalation>>
  BY DEF PreAuth
<1>3. issues' \subseteq IssueType /\ IsFiniteSet(issues')
  <2>1. PICK found \in SUBSET {"missing-auth-form", "form-submit-check-failure"} : Note(found, "/login")
    BY DEF PreAuth
  <2>2. IsFiniteSet(found) /\ "/login" \in SiteRoutes
    BY FiniteOfFew, CrawlerAssumption
  <2> QED
    BY <2>1, <2>2, IssuesNoted DEF CrawlerInv
<1> HIDE DEF d
<1> QED
  BY <1>1, <1>2, <1>3, GoesToInv

LEMMA BrowserReportsInv == ASSUME CrawlerInv, BrowserReports PROVE CrawlerInv'
<1>1. crawl' = crawl /\ UNCHANGED <<outage, launched, escalation>> /\ crawl.pc \notin Ended
  BY DEF BrowserReports, Ended
<1>2. issues' \subseteq IssueType /\ IsFiniteSet(issues')
  <2>1. PICK type : Note({type}, crawl.at)
    BY DEF BrowserReports
  <2>2. IsFiniteSet({type}) /\ crawl.at \in SiteRoutes
    BY FiniteOfFew, TypedNow DEF CrawlType
  <2> QED
    BY <2>1, <2>2, IssuesNoted DEF CrawlerInv
<1>3. SameWalk(crawl, crawl)
  BY DEF SameWalk
<1> QED
  BY <1>1, <1>2, <1>3, TypedNow, GoesToInv

LEMMA BrokenLinkAuditInv == ASSUME CrawlerInv, BrokenLinkAudit PROVE CrawlerInv'
<1> DEFINE d == [crawl EXCEPT !.pc = "ai"]
<1>1. /\ d \in CrawlType /\ d.pc = "ai" /\ SameWalk(crawl, d)
      /\ d.passed = crawl.passed /\ d.failed = crawl.failed
  BY TypedNow DEF CrawlType, CrawlPc, SameWalk
<1>2. crawl' = d /\ crawl.pc = "audit" /\ UNCHANGED <<outage, launched, escalation>>
  BY DEF BrokenLinkAudit
<1>3. issues' \subseteq IssueType /\ IsFiniteSet(issues')
  <2>1. PICK broken \in {{}} \cup {{r} : r \in crawl.links} :
            issues' = issues \cup {Issue("broken-link", r) : r \in broken}
    BY DEF BrokenLinkAudit
  <2>2. CASE broken = {}
    BY <2>1, <2>2, TypedNow
  <2>3. CASE \E r \in crawl.links : broken = {r}
    <3>1. PICK r \in crawl.links : broken = {r}
      BY <2>3
    <3>2. Note({"broken-link"}, r) /\ r \in SiteRoutes
      BY <2>1, <3>1, TypedNow DEF Note, CrawlType
    <3> QED
      BY <3>2, FiniteOfFew, IssuesNoted DEF CrawlerInv
  <2> QED
    BY <2>1, <2>2, <2>3
<1> HIDE DEF d
<1> QED
  BY <1>1, <1>2, <1>3, GoesToInv

-----------------------------------------------------------------------------
(* The walk *)

LEMMA RangeOfTail ==
  ASSUME NEW S, NEW q \in Seq(S), q # <<>>
  PROVE  /\ Head(q) \in S /\ Tail(q) \in Seq(S) /\ Len(q) \in Nat \ {0}
         /\ DOMAIN q = 1..Len(q) /\ DOMAIN Tail(q) = 1..(Len(q) - 1) /\ q[1] = Head(q)
         /\ \A k \in DOMAIN Tail(q) : Tail(q)[k] = q[k + 1] /\ k + 1 \in DOMAIN q
         /\ \A k \in DOMAIN q : k = 1 \/ k - 1 \in DOMAIN Tail(q)
         /\ Range(q) = {Head(q)} \cup Range(Tail(q))
<1>1. /\ Head(q) \in S /\ Tail(q) \in Seq(S) /\ Len(q) \in Nat \ {0}
      /\ DOMAIN q = 1..Len(q) /\ Len(Tail(q)) = Len(q) - 1
      /\ \A k \in 1..Len(Tail(q)) : Tail(q)[k] = q[k + 1] /\ q[1] = Head(q)
  BY HeadTailProperties, LenProperties, EmptySeq
<1>2. DOMAIN Tail(q) = 1..(Len(q) - 1) /\ q[1] = Head(q)
  BY <1>1, LenProperties
<1>3. /\ \A k \in DOMAIN Tail(q) : Tail(q)[k] = q[k + 1] /\ k + 1 \in DOMAIN q
      /\ \A k \in DOMAIN q : k = 1 \/ k - 1 \in DOMAIN Tail(q)
  BY <1>1, <1>2
<1>4. ASSUME NEW k \in DOMAIN q PROVE q[k] \in {Head(q)} \cup Range(Tail(q))
  <2>1. CASE k = 1
    BY <1>2, <2>1
  <2>2. CASE k - 1 \in DOMAIN Tail(q)
    <3>1. Tail(q)[k - 1] = q[k]
      BY <1>1, <1>3, <2>2
    <3> QED
      BY <2>2, <3>1 DEF Range
  <2> QED
    BY <1>3, <2>1, <2>2
<1>5. \A k \in DOMAIN Tail(q) : Tail(q)[k] \in Range(q)
  BY <1>3 DEF Range
<1>6. 1 \in DOMAIN q
  BY <1>1
<1>7. Range(q) = {Head(q)} \cup Range(Tail(q))
  BY <1>2, <1>4, <1>5, <1>6 DEF Range
<1> QED
  BY <1>1, <1>2, <1>3, <1>7

LEMMA RangeOfAppended ==
  ASSUME NEW S, NEW p \in Seq(S), NEW x \in S
  PROVE  /\ Append(p, x) \in Seq(S) /\ Len(Append(p, x)) = Len(p) + 1 /\ Len(p) \in Nat
         /\ DOMAIN p = 1..Len(p) /\ DOMAIN Append(p, x) = 1..(Len(p) + 1)
         /\ \A k \in 1..Len(p) : Append(p, x)[k] = p[k]
         /\ Append(p, x)[Len(p) + 1] = x
         /\ Range(Append(p, x)) = Range(p) \cup {x}
<1>1. /\ Append(p, x) \in Seq(S) /\ Len(Append(p, x)) = Len(p) + 1 /\ Len(p) \in Nat
      /\ \A k \in 1..Len(p) : Append(p, x)[k] = p[k]
      /\ Append(p, x)[Len(p) + 1] = x
  BY AppendProperties, LenProperties
<1>2. DOMAIN p = 1..Len(p) /\ DOMAIN Append(p, x) = 1..(Len(p) + 1)
  BY <1>1, LenProperties
<1>3. ASSUME NEW k \in 1..(Len(p) + 1) PROVE Append(p, x)[k] \in Range(p) \cup {x}
  <2>1. k \in 1..Len(p) \/ k = Len(p) + 1
    BY <1>1
  <2> QED
    BY <1>1, <1>2, <2>1 DEF Range
<1>4. \A k \in 1..Len(p) : p[k] \in Range(Append(p, x))
  <2>1. \A k \in 1..Len(p) : k \in 1..(Len(p) + 1)
    BY <1>1
  <2> QED
    BY <1>1, <1>2, <2>1 DEF Range
<1>5. x \in Range(Append(p, x))
  <2>1. Len(p) + 1 \in 1..(Len(p) + 1)
    BY <1>1
  <2> QED
    BY <1>1, <1>2, <2>1 DEF Range
<1>6. Range(Append(p, x)) = Range(p) \cup {x}
  BY <1>2, <1>3, <1>4, <1>5 DEF Range
<1> QED
  BY <1>1, <1>2, <1>6

LEMMA RangeOfJoined ==
  ASSUME NEW S, NEW p \in Seq(S), NEW q \in Seq(S)
  PROVE  /\ p \o q \in Seq(S) /\ Len(p) \in Nat /\ DOMAIN p = 1..Len(p)
         /\ \A k \in DOMAIN p : k \in DOMAIN (p \o q) /\ (p \o q)[k] = p[k]
         /\ \A k \in DOMAIN (p \o q) : k \in DOMAIN p \/ k > Len(p)
         /\ Range(p \o q) = Range(p) \cup Range(q)
<1>1. /\ p \o q \in Seq(S) /\ Len(p \o q) = Len(p) + Len(q) /\ Len(p) \in Nat /\ Len(q) \in Nat
      /\ \A k \in 1..Len(p) : (p \o q)[k] = p[k]
  BY ConcatProperties, LenProperties
<1>2. DOMAIN p = 1..Len(p) /\ DOMAIN (p \o q) = 1..(Len(p) + Len(q))
  BY <1>1, LenProperties
<1>3. Range(p \o q) = Range(p) \cup Range(q)
  BY RangeConcatenation
<1> QED
  BY <1>1, <1>2, <1>3

(* The head of the queue is visited.                                       *)
LEMMA HeadTaken ==
  ASSUME NEW c \in CrawlType, NEW d \in CrawlType, c.queue # <<>>, QueueFits(c),
         d.queue = Tail(c.queue), d.visited = c.visited \cup {Head(c.queue)}, d.links = c.links
  PROVE  /\ QueueFits(d)
         /\ Head(c.queue) \notin Expected => Expected \subseteq c.visited
<1> DEFINE q == c.queue
<1>1. /\ q \in Seq(SiteRoutes) /\ Len(q) \in Nat \ {0}
      /\ DOMAIN q = 1..Len(q) /\ DOMAIN Tail(q) = 1..(Len(q) - 1) /\ q[1] = Head(q)
      /\ \A k \in DOMAIN Tail(q) : Tail(q)[k] = q[k + 1] /\ k + 1 \in DOMAIN q
      /\ \A k \in DOMAIN q : k = 1 \/ k - 1 \in DOMAIN Tail(q)
      /\ Range(q) = {Head(q)} \cup Range(Tail(q))
  <2>1. q \in Seq(SiteRoutes)
    BY DEF CrawlType
  <2> QED
    BY <2>1, RangeOfTail
<1>2. Expected \cup d.links \subseteq d.visited \cup Range(d.queue)
  BY <1>1 DEF QueueFits
<1>3. ASSUME NEW k \in DOMAIN d.queue, d.queue[k] \notin Expected, NEW e \in Expected
      PROVE  e \in d.visited \/ \E j \in DOMAIN d.queue : j < k /\ d.queue[j] = e
  <2>1. k \in 1..(Len(q) - 1) /\ q[k + 1] = d.queue[k] /\ k + 1 \in DOMAIN q
    BY <1>1, <1>3
  <2>2. e \in c.visited \/ \E j \in DOMAIN q : j < k + 1 /\ q[j] = e
    BY <1>3, <2>1 DEF QueueFits
  <2>3. ASSUME NEW j \in DOMAIN q, j < k + 1, q[j] = e PROVE e \in d.visited \/ \E i \in DOMAIN d.queue : i < k /\ d.queue[i] = e
    <3>1. CASE j = 1
      BY <1>1, <2>3, <3>1
    <3>2. CASE j - 1 \in DOMAIN Tail(q)
      <4>1. Tail(q)[j - 1] = q[j] /\ j - 1 < k
        BY <1>1, <2>1, <2>3, <3>2
      <4> QED
        BY <2>3, <3>2, <4>1
    <3> QED
      BY <1>1, <3>1, <3>2
  <2> QED
    BY <2>2, <2>3
<1>4. ASSUME Head(q) \notin Expected, NEW e \in Expected PROVE e \in c.visited
  <2>1. 1 \in DOMAIN q
    BY <1>1
  <2>2. e \in c.visited \/ \E j \in DOMAIN q : j < 1 /\ q[j] = e
    BY <1>1, <1>4, <2>1 DEF QueueFits
  <2> QED
    BY <1>1, <2>2
<1> QED
  BY <1>2, <1>3, <1>4 DEF QueueFits

(* A page is tested that was not before.                                   *)
LEMMA PageTested ==
  ASSUME NEW c \in CrawlType, NEW route \in SiteRoutes, PagesFit(c), Len(c.pages) < MaxPages,
         route \notin Range(c.pages), route \notin Expected => Expected \subseteq Range(c.pages),
         NEW d \in CrawlType, d.pages = Append(c.pages, route)
  PROVE  PagesFit(d) /\ Range(d.pages) = Range(c.pages) \cup {route}
<1> DEFINE p == c.pages
           n == Len(c.pages)
<1>0. p \in Seq(SiteRoutes)
  BY DEF CrawlType
<1>1. /\ Len(d.pages) = n + 1 /\ n \in Nat /\ DOMAIN p = 1..n /\ DOMAIN d.pages = 1..(n + 1)
      /\ \A k \in 1..n : d.pages[k] = p[k]
      /\ d.pages[n + 1] = route /\ Range(d.pages) = Range(p) \cup {route}
  BY <1>0, RangeOfAppended
<1>2. MaxPages \in Nat
  BY CrawlerAssumption
<1>3. IsFiniteSet(Range(d.pages)) /\ Cardinality(Range(d.pages)) = Len(d.pages) /\ Len(d.pages) <= MaxPages
  <2>1. IsFiniteSet(Range(p)) /\ Cardinality(Range(p)) = n
    BY DEF PagesFit
  <2>2. IsFiniteSet(Range(p) \cup {route}) /\ Cardinality(Range(p) \cup {route}) = n + 1
    BY <2>1, FS_AddElement
  <2>3. n + 1 <= MaxPages
    BY <1>1, <1>2
  <2> QED
    BY <1>1, <2>2, <2>3
<1>4. ASSUME NEW k \in DOMAIN d.pages, d.pages[k] \notin Expected, NEW e \in Expected
      PROVE  \E j \in DOMAIN d.pages : j <= k /\ d.pages[j] = e
  <2>1. CASE k \in 1..n
    <3>1. \E j \in 1..n : j <= k /\ p[j] = e
      BY <1>1, <1>4, <2>1 DEF PagesFit
    <3> QED
      BY <1>1, <3>1
  <2>2. CASE k = n + 1
    <3>1. PICK j \in 1..n : p[j] = e
      BY <1>1, <1>4, <2>2 DEF Range
    <3> QED
      BY <1>1, <2>2, <3>1
  <2> QED
    BY <1>1, <2>1, <2>2
<1> QED
  BY <1>1, <1>3, <1>4 DEF PagesFit

LEMMA SkipVisitedInv == ASSUME CrawlerInv, SkipVisited PROVE CrawlerInv'
<1> DEFINE q == crawl.queue
           d == [crawl EXCEPT !.queue = Tail(@)]
<1>1. /\ crawl.pc = "loop" /\ q # <<>> /\ Head(q) \in crawl.visited /\ crawl' = d
      /\ UNCHANGED <<issues, outage, launched, escalation>>
  BY DEF SkipVisited, GoesOn
<1>2. Tail(q) \in Seq(SiteRoutes)
  BY <1>1, TypedNow, RangeOfTail DEF CrawlType
<1>3. /\ d \in CrawlType /\ d.pc = crawl.pc /\ d.queue = Tail(q) /\ d.visited = crawl.visited
      /\ d.links = crawl.links /\ d.pages = crawl.pages /\ d.passed = crawl.passed /\ d.failed = crawl.failed
  BY <1>2, TypedNow DEF CrawlType
<1> HIDE DEF d
<1>4. WalkFits(crawl) /\ QueueFits(crawl) /\ crawl \in CrawlType
  BY <1>1, TypedNow DEF WalkFits, WalkPc
<1>5. d.visited = crawl.visited \cup {Head(crawl.queue)}
  BY <1>1, <1>3
<1>6. QueueFits(d)
  BY <1>1, <1>3, <1>4, <1>5, HeadTaken
<1>7. WalkFits(d)
  <2>1. PagesFit(d)
    BY <1>3, <1>4 DEF WalkFits, PagesFit
  <2> QED
    BY <1>1, <1>3, <1>4, <1>6, <2>1 DEF WalkFits, WalkPc, OnPage, Ended
<1>8. ProbesFit(d) /\ OutageFits(d, outage')
  BY <1>1, <1>3, TypedNow DEF ProbesFit, OutageFits, OutagePc, WalkPc
<1>9. crawl.pc \notin Ended /\ d.pc \notin Ended /\ d.pc # "crashed"
  BY <1>1, <1>3 DEF Ended
<1> QED
  BY <1>1, <1>3, <1>7, <1>8, <1>9, TypedNow, CrawlMoves

(* The head of the queue, which was not visited, is taken off it.          *)
LEMMA Taken ==
  ASSUME CrawlerInv, crawl.pc = "loop", GoesOn(crawl), Head(crawl.queue) \notin crawl.visited
  PROVE  LET taken == TakeOff(crawl, Head(crawl.queue)) IN
         /\ taken \in CrawlType /\ taken.pc = "loop" /\ taken.queue = Tail(crawl.queue)
         /\ taken.visited = crawl.visited \cup {Head(crawl.queue)} /\ taken.links = crawl.links
         /\ taken.pages = crawl.pages /\ taken.route = Head(crawl.queue) /\ taken.route \in SiteRoutes
         /\ taken.passed = crawl.passed /\ taken.failed = crawl.failed
         /\ QueueFits(taken) /\ PagesFit(taken) /\ Len(taken.pages) < MaxPages
         /\ taken.route \notin Range(taken.pages)
         /\ taken.visited = Range(taken.pages) \cup {taken.route}
         /\ taken.route \notin Expected => Expected \subseteq Range(taken.pages)
<1> DEFINE taken == TakeOff(crawl, Head(crawl.queue))
<1>1. crawl.queue # <<>> /\ Len(crawl.pages) < MaxPages /\ crawl \in CrawlType
  BY TypedNow DEF GoesOn
<1>2. Tail(crawl.queue) \in Seq(SiteRoutes) /\ Head(crawl.queue) \in SiteRoutes
  BY <1>1, RangeOfTail DEF CrawlType
<1>3. /\ taken \in CrawlType /\ taken.pc = "loop" /\ taken.queue = Tail(crawl.queue)
      /\ taken.visited = crawl.visited \cup {Head(crawl.queue)} /\ taken.links = crawl.links
      /\ taken.pages = crawl.pages /\ taken.route = Head(crawl.queue)
      /\ taken.passed = crawl.passed /\ taken.failed = crawl.failed
  BY <1>1, <1>2 DEF TakeOff, CrawlType
<1> HIDE DEF taken
<1>4. WalkFits(crawl) /\ QueueFits(crawl) /\ PagesFit(crawl) /\ crawl.visited = Range(crawl.pages)
  BY TypedNow DEF WalkFits, WalkPc, OnPage, Ended
<1>5. QueueFits(taken) /\ (Head(crawl.queue) \notin Expected => Expected \subseteq crawl.visited)
  BY <1>1, <1>3, <1>4, HeadTaken
<1>6. PagesFit(taken)
  BY <1>3, <1>4 DEF PagesFit
<1> QED
  BY <1>1, <1>2, <1>3, <1>4, <1>5, <1>6 DEF taken

LEMMA VisitPageInv == ASSUME CrawlerInv, VisitPage PROVE CrawlerInv'
<1> DEFINE taken == TakeOff(crawl, Head(crawl.queue))
<1>1. PICK slow \in Slow(Head(crawl.queue)), landed \in {Head(crawl.queue), "/login"} :
          Note(slow, taken.route) /\ crawl' = [taken EXCEPT !.pc = "read", !.at = landed]
  BY DEF VisitPage
<1>2. /\ crawl.pc = "loop" /\ GoesOn(crawl) /\ Head(crawl.queue) \notin crawl.visited
      /\ UNCHANGED <<outage, launched, escalation>>
  BY DEF VisitPage
<1>3. /\ taken \in CrawlType /\ taken.route \in SiteRoutes /\ taken.route = Head(crawl.queue)
      /\ taken.passed = crawl.passed /\ taken.failed = crawl.failed
      /\ QueueFits(taken) /\ PagesFit(taken) /\ Len(taken.pages) < MaxPages
      /\ taken.route \notin Range(taken.pages)
      /\ taken.visited = Range(taken.pages) \cup {taken.route}
      /\ taken.route \notin Expected => Expected \subseteq Range(taken.pages)
  BY <1>2, Taken
<1> HIDE DEF taken
<1> DEFINE d == [taken EXCEPT !.pc = "read", !.at = landed]
<1>4. landed \in SiteRoutes
  BY <1>3, CrawlerAssumption
<1>5. /\ d \in CrawlType /\ d.pc = "read" /\ SameWalk(taken, d)
      /\ d.passed = taken.passed /\ d.failed = taken.failed
  BY <1>3, <1>4 DEF CrawlType, CrawlPc, SameWalk
<1>6. crawl' = d
  BY <1>1
<1> HIDE DEF d
<1>7. PagesFit(d) /\ QueueFits(d)
  BY <1>3, <1>5 DEF PagesFit, QueueFits, SameWalk
<1>8. WalkFits(d)
  BY <1>3, <1>5, <1>7 DEF WalkFits, SameWalk, OnPage, WalkPc, Ended
<1>9. ProbesFit(d) /\ OutageFits(d, outage')
  BY <1>2, <1>5, TypedNow DEF ProbesFit, OutageFits, OutagePc, WalkPc
<1>10. issues' \subseteq IssueType /\ IsFiniteSet(issues')
  <2>1. slow \subseteq {"slow-page"} /\ IsFiniteSet(slow)
    BY FiniteOfFew, FS_Subset DEF Slow
  <2> QED
    BY <1>1, <1>3, <2>1, IssuesNoted DEF CrawlerInv
<1>11. crawl.pc \notin Ended /\ d.pc \notin Ended /\ d.pc # "crashed"
  BY <1>2, <1>5 DEF Ended
<1> QED
  BY <1>2, <1>5, <1>6, <1>8, <1>9, <1>10, <1>11, TypedNow, CrawlMoves

(* A page has been tested, and the walk goes on.                           *)
LEMMA TestedInv ==
  ASSUME NEW c \in CrawlType, PagesFit(c), QueueFits(c), Len(c.pages) < MaxPages,
         c.route \notin Range(c.pages), c.visited = Range(c.pages) \cup {c.route},
         c.route \notin Expected => Expected \subseteq Range(c.pages),
         NEW d \in CrawlType, d.pages = Tested(c), d.queue = c.queue, d.visited = c.visited,
         d.links = c.links, d.pc = "loop"
  PROVE  WalkFits(d)
<1>1. c.route \in SiteRoutes /\ d.pages = Append(c.pages, c.route)
  BY DEF CrawlType, Tested
<1>2. PagesFit(d) /\ Range(d.pages) = Range(c.pages) \cup {c.route}
  <2>1. PICK route \in SiteRoutes : route = c.route
    BY <1>1
  <2>2. route \notin Range(c.pages) /\ (route \notin Expected => Expected \subseteq Range(c.pages))
        /\ d.pages = Append(c.pages, route)
    BY <1>1, <2>1
  <2>3. PagesFit(d) /\ Range(d.pages) = Range(c.pages) \cup {route}
    BY <2>2, PageTested
  <2> QED
    BY <2>1, <2>3
<1>3. QueueFits(d)
  BY DEF QueueFits
<1> QED
  BY <1>2, <1>3 DEF WalkFits, OnPage, WalkPc, Ended

LEMMA NavigationFailsInv == ASSUME CrawlerInv, NavigationFails PROVE CrawlerInv'
<1> DEFINE taken == TakeOff(crawl, Head(crawl.queue))
<1>1. PICK slow \in Slow(Head(crawl.queue)) :
          /\ Note({"navigation-failure"} \cup slow, taken.route)
          /\ crawl' = [taken EXCEPT !.pages = Tested(taken)]
  BY DEF NavigationFails
<1>2. /\ crawl.pc = "loop" /\ GoesOn(crawl) /\ Head(crawl.queue) \notin crawl.visited
      /\ UNCHANGED <<outage, launched, escalation>>
  BY DEF NavigationFails
<1>3. /\ taken \in CrawlType /\ taken.pc = "loop" /\ taken.route \in SiteRoutes
      /\ taken.passed = crawl.passed /\ taken.failed = crawl.failed
      /\ QueueFits(taken) /\ PagesFit(taken) /\ Len(taken.pages) < MaxPages
      /\ taken.route \notin Range(taken.pages)
      /\ taken.visited = Range(taken.pages) \cup {taken.route}
      /\ taken.route \notin Expected => Expected \subseteq Range(taken.pages)
  BY <1>2, Taken
<1> HIDE DEF taken
<1> DEFINE d == [taken EXCEPT !.pages = Tested(taken)]
<1>4. Tested(taken) \in Seq(SiteRoutes)
  BY <1>3, RangeOfAppended DEF CrawlType, Tested
<1>5. /\ d \in CrawlType /\ d.pc = "loop" /\ d.pages = Tested(taken) /\ d.queue = taken.queue
      /\ d.visited = taken.visited /\ d.links = taken.links
      /\ d.passed = taken.passed /\ d.failed = taken.failed
  BY <1>3, <1>4 DEF CrawlType
<1>6. crawl' = d
  BY <1>1
<1> HIDE DEF d
<1>7. WalkFits(d)
  BY <1>3, <1>5, TestedInv
<1>8. ProbesFit(d) /\ OutageFits(d, outage')
  BY <1>2, <1>5, TypedNow DEF ProbesFit, OutageFits, OutagePc, WalkPc
<1>9. issues' \subseteq IssueType /\ IsFiniteSet(issues')
  <2>1. {"navigation-failure"} \cup slow \in SUBSET {"navigation-failure", "slow-page"}
    BY DEF Slow
  <2>2. IsFiniteSet({"navigation-failure"} \cup slow)
    BY <2>1, FiniteOfFew
  <2> QED
    BY <1>1, <1>3, <2>2, IssuesNoted DEF CrawlerInv
<1>10. crawl.pc \notin Ended /\ d.pc \notin Ended /\ d.pc # "crashed"
  BY <1>2, <1>5 DEF Ended
<1> QED
  BY <1>2, <1>5, <1>6, <1>7, <1>8, <1>9, <1>10, TypedNow, CrawlMoves

LEMMA EndPageInv == ASSUME CrawlerInv, EndPage PROVE CrawlerInv'
<1> DEFINE d == [crawl EXCEPT !.pc = "loop", !.clicks = 0, !.pages = Tested(crawl)]
<1>1. crawl.pc = "click" /\ crawl' = d /\ UNCHANGED <<issues, outage, launched, escalation>>
  BY DEF EndPage
<1>2. /\ crawl \in CrawlType /\ QueueFits(crawl) /\ PagesFit(crawl) /\ Len(crawl.pages) < MaxPages
      /\ crawl.route \notin Range(crawl.pages)
      /\ crawl.visited = Range(crawl.pages) \cup {crawl.route}
      /\ crawl.route \notin Expected => Expected \subseteq Range(crawl.pages)
  BY <1>1, TypedNow DEF WalkFits, OnPage, WalkPc
<1>3. Tested(crawl) \in Seq(SiteRoutes) /\ 0 \in 0..MaxClicks
  BY <1>2, RangeOfAppended, CrawlerAssumption DEF CrawlType, Tested
<1>4. /\ d \in CrawlType /\ d.pc = "loop" /\ d.pages = Tested(crawl) /\ d.queue = crawl.queue
      /\ d.visited = crawl.visited /\ d.links = crawl.links
      /\ d.passed = crawl.passed /\ d.failed = crawl.failed
  BY <1>2, <1>3 DEF CrawlType, CrawlPc
<1> HIDE DEF d
<1>5. WalkFits(d)
  BY <1>2, <1>4, TestedInv
<1>6. ProbesFit(d) /\ OutageFits(d, outage')
  BY <1>1, <1>4, TypedNow DEF ProbesFit, OutageFits, OutagePc, WalkPc
<1>7. crawl.pc \notin Ended /\ d.pc \notin Ended /\ d.pc # "crashed"
  BY <1>1, <1>4 DEF Ended
<1> QED
  BY <1>1, <1>4, <1>5, <1>6, <1>7, TypedNow, CrawlMoves

LEMMA ClickTargetInv == ASSUME CrawlerInv, ClickTarget PROVE CrawlerInv'
<1>1. /\ crawl.pc = "click" /\ crawl.clicks > 0 /\ UNCHANGED <<outage, launched, escalation>>
      /\ crawl \in CrawlType /\ crawl.clicks - 1 \in 0..MaxClicks
  <2>1. crawl.pc = "click" /\ crawl.clicks > 0 /\ UNCHANGED <<outage, launched, escalation>>
    BY DEF ClickTarget
  <2>2. crawl \in CrawlType /\ crawl.clicks \in 0..MaxClicks /\ MaxClicks \in Nat
    BY TypedNow, CrawlerAssumption DEF CrawlType
  <2> QED
    BY <2>1, <2>2
<1>2. ASSUME NEW landed \in SiteRoutes, NEW d, d = [crawl EXCEPT !.clicks = @ - 1, !.at = landed], crawl' = d,
             issues' \subseteq IssueType, IsFiniteSet(issues')
      PROVE  CrawlerInv'
  <2>1. /\ d \in CrawlType /\ d.pc = crawl.pc /\ SameWalk(crawl, d)
        /\ d.passed = crawl.passed /\ d.failed = crawl.failed
    BY <1>1, <1>2 DEF CrawlType, SameWalk
  <2>2. crawl.pc \notin Ended
    BY <1>1 DEF Ended
  <2>3. crawl' = d /\ issues' \subseteq IssueType /\ IsFiniteSet(issues')
    BY <1>2
  <2> QED
    BY <1>1, <2>1, <2>2, <2>3, GoesToInv
<1>3. CASE /\ \E landed \in LinksOn[crawl.at] \cup {crawl.at} : crawl' = [crawl EXCEPT !.clicks = @ - 1, !.at = landed]
           /\ UNCHANGED issues
  <2>1. PICK landed \in LinksOn[crawl.at] \cup {crawl.at} : crawl' = [crawl EXCEPT !.clicks = @ - 1, !.at = landed]
    BY <1>3
  <2>2. landed \in SiteRoutes
    BY <1>1, CrawlerAssumption DEF CrawlType
  <2> QED
    BY <1>2, <1>3, <2>1, <2>2, TypedNow
<1>4. CASE /\ crawl' = [crawl EXCEPT !.clicks = @ - 1]
           /\ \E type \in {"no-op-click", "click-failure"} : Note({type}, crawl.route)
  <2>1. crawl' = [crawl EXCEPT !.clicks = @ - 1, !.at = crawl.at] /\ crawl.at \in SiteRoutes
    BY <1>1, <1>4 DEF CrawlType
  <2>2. issues' \subseteq IssueType /\ IsFiniteSet(issues')
    <3>1. PICK type : Note({type}, crawl.route)
      BY <1>4
    <3>2. crawl.route \in SiteRoutes
      BY <1>1 DEF CrawlType
    <3> QED
      BY <3>1, <3>2, FiniteOfFew, IssuesNoted DEF CrawlerInv
  <2> QED
    BY <1>2, <2>1, <2>2
<1> QED
  BY <1>3, <1>4 DEF ClickTarget(* The links, in whichever order they were found.                          *)
LEMMA OrderOfLinks ==
  ASSUME NEW S, IsFiniteSet(S), NEW s \in SetToSeqs(S)
  PROVE  s \in Seq(S) /\ Range(s) = S
<1> DEFINE D == 1..Cardinality(S)
<1>1. Cardinality(S) \in Nat
  BY FS_CardinalityType
<1>2. s \in [D -> S] /\ \A i, j \in D : i # j => s[i] # s[j]
  BY DEF SetToSeqs
<1>3. s \in Seq(S)
  BY <1>1, <1>2, SeqDef
<1>4. s \in Injection(D, S)
  BY <1>2 DEF Injection, IsInjective
<1>5. IsFiniteSet(D) /\ Cardinality(D) = Cardinality(S)
  <2>1. IsFiniteSet(D) /\ Cardinality(D) = IF 1 > Cardinality(S) THEN 0 ELSE Cardinality(S) - 1 + 1
    BY <1>1, FS_Interval
  <2> QED
    BY <1>1, <2>1
<1>6. s \in Surjection(D, S)
  BY <1>4, <1>5, FS_Injection
<1>7. Range(s) = S
  BY <1>2, <1>6 DEF Surjection, Range
<1> QED
  BY <1>3, <1>7

LEMMA LinksJoin ==
  ASSUME NEW c \in CrawlType, NEW d \in CrawlType, QueueFits(c), NEW found, NEW unseen \in Seq(SiteRoutes),
         Range(unseen) = found \ c.visited, d.queue = c.queue \o unseen,
         d.links = c.links \cup found, d.visited = c.visited
  PROVE  QueueFits(d)
<1> DEFINE q == c.queue
<1>1. q \in Seq(SiteRoutes)
  BY DEF CrawlType
<1>2. /\ Len(q) \in Nat /\ DOMAIN q = 1..Len(q)
      /\ \A k \in DOMAIN q : k \in DOMAIN d.queue /\ d.queue[k] = q[k]
      /\ \A k \in DOMAIN d.queue : k \in DOMAIN q \/ k > Len(q)
      /\ Range(d.queue) = Range(q) \cup Range(unseen)
  BY <1>1, RangeOfJoined
<1>3. Expected \cup d.links \subseteq d.visited \cup Range(d.queue)
  BY <1>2 DEF QueueFits
<1>4. ASSUME NEW k \in DOMAIN d.queue, d.queue[k] \notin Expected, NEW e \in Expected
      PROVE  e \in d.visited \/ \E j \in DOMAIN d.queue : j < k /\ d.queue[j] = e
  <2>1. CASE k \in DOMAIN q
    <3>1. e \in c.visited \/ \E j \in DOMAIN q : j < k /\ q[j] = e
      BY <1>2, <1>4, <2>1 DEF QueueFits
    <3> QED
      BY <1>2, <3>1
  <2>2. CASE k > Len(q)
    <3>1. e \in c.visited \/ e \in Range(q)
      BY DEF QueueFits
    <3>2. e \in Range(q) => \E j \in DOMAIN q : q[j] = e
      BY DEF Range
    <3>3. \A j \in DOMAIN q : j < k
      <4>1. d.queue \in Seq(SiteRoutes)
        BY DEF CrawlType
      <4>2. k \in Nat
        BY <1>4, <4>1, LenProperties
      <4> QED
        BY <1>2, <2>2, <4>2
    <3> QED
      BY <1>2, <3>1, <3>2, <3>3
  <2> QED
    BY <1>2, <1>4, <2>1, <2>2
<1> QED
  BY <1>3, <1>4 DEF QueueFits

LEMMA ReadPageInv == ASSUME CrawlerInv, ReadPage PROVE CrawlerInv'
<1> DEFINE found == LinksOn[crawl.at]
<1>1. PICK unseen \in SetToSeqs(found \ crawl.visited) :
          crawl' = [Discover(crawl, unseen) EXCEPT !.pc = "click", !.clicks = MaxClicks]
  BY DEF ReadPage
<1>2. crawl.pc = "read" /\ UNCHANGED <<outage, launched, escalation>>
  BY DEF ReadPage
<1>3. crawl \in CrawlType /\ WalkFits(crawl) /\ QueueFits(crawl)
  BY <1>2, TypedNow DEF WalkFits, WalkPc
<1>4. found \subseteq SiteRoutes /\ IsFiniteSet(found) /\ MaxClicks \in 0..MaxClicks
  BY <1>3, CrawlerAssumption DEF CrawlType
<1>5. unseen \in Seq(SiteRoutes) /\ Range(unseen) = found \ crawl.visited
  <2>1. IsFiniteSet(found \ crawl.visited)
    BY <1>4, FS_Subset
  <2>2. unseen \in Seq(found \ crawl.visited) /\ Range(unseen) = found \ crawl.visited
    BY <2>1, OrderOfLinks
  <2> QED
    BY <1>4, <2>2
<1>6. crawl.queue \o unseen \in Seq(SiteRoutes)
  BY <1>3, <1>5, RangeOfJoined DEF CrawlType
<1> DEFINE c == Discover(crawl, unseen)
           d == [c EXCEPT !.pc = "click", !.clicks = MaxClicks]
<1>7. /\ c \in CrawlType /\ c.queue = crawl.queue \o unseen /\ c.links = crawl.links \cup found
      /\ c.visited = crawl.visited /\ c.pages = crawl.pages /\ c.route = crawl.route
      /\ c.passed = crawl.passed /\ c.failed = crawl.failed
  BY <1>3, <1>4, <1>6 DEF Discover, CrawlType
<1>8. crawl' = d
  BY <1>1
<1> HIDE DEF c, found
<1>9. /\ d \in CrawlType /\ d.pc = "click" /\ d.queue = c.queue /\ d.links = c.links
      /\ d.visited = c.visited /\ d.pages = c.pages /\ d.route = c.route
      /\ d.passed = c.passed /\ d.failed = c.failed
  BY <1>4, <1>7 DEF CrawlType, CrawlPc
<1> HIDE DEF d
<1>10. QueueFits(d)
  <2>1. d.queue = crawl.queue \o unseen /\ d.links = crawl.links \cup found /\ d.visited = crawl.visited
    BY <1>7, <1>9
  <2> QED
    BY <1>3, <1>5, <1>9, <2>1, LinksJoin
<1>11. WalkFits(d)
  <2>1. PagesFit(d)
    BY <1>3, <1>7, <1>9 DEF WalkFits, PagesFit
  <2> QED
    BY <1>2, <1>3, <1>7, <1>9, <1>10, <2>1 DEF WalkFits, WalkPc, OnPage, Ended
<1>12. ProbesFit(d) /\ OutageFits(d, outage')
  BY <1>2, <1>9, TypedNow DEF ProbesFit, OutageFits, OutagePc, WalkPc
<1>13. issues' \subseteq IssueType /\ IsFiniteSet(issues')
  <2>1. PICK new \in SUBSET {"route-404", "blank-page", "a11y-unlabeled-inputs"} : Note(new, crawl.route)
    BY DEF ReadPage
  <2>2. IsFiniteSet(new) /\ crawl.route \in SiteRoutes
    BY <1>3, FiniteOfFew DEF CrawlType
  <2> QED
    BY <2>1, <2>2, IssuesNoted DEF CrawlerInv
<1>14. crawl.pc \notin Ended /\ d.pc \notin Ended /\ d.pc # "crashed"
  BY <1>2, <1>9 DEF Ended
<1> QED
  BY <1>2, <1>8, <1>9, <1>11, <1>12, <1>13, <1>14, TypedNow, CrawlMoves

LEMMA EndWalkInv == ASSUME CrawlerInv, EndWalk PROVE CrawlerInv'
<1> DEFINE d == [crawl EXCEPT !.pc = "audit"]
<1>1. crawl.pc = "loop" /\ ~GoesOn(crawl) /\ crawl' = d /\ UNCHANGED <<issues, outage, launched, escalation>>
  BY DEF EndWalk
<1>2. /\ d \in CrawlType /\ d.pc = "audit" /\ SameWalk(crawl, d)
      /\ d.passed = crawl.passed /\ d.failed = crawl.failed
  BY TypedNow DEF CrawlType, CrawlPc, SameWalk
<1> HIDE DEF d
<1>3. WalkFits(crawl) /\ QueueFits(crawl) /\ crawl.visited = Range(crawl.pages)
  BY <1>1, TypedNow DEF WalkFits, WalkPc, OnPage, Ended
<1>4. Len(d.pages) < MaxPages => Expected \cup d.links \subseteq Range(d.pages)
  <2>1. Len(crawl.pages) < MaxPages => crawl.queue = <<>>
    BY <1>1 DEF GoesOn
  <2>2. Range(<<>>) = {}
    BY EmptySeq DEF Range
  <2> QED
    BY <1>2, <1>3, <2>1, <2>2 DEF QueueFits, SameWalk
<1>5. WalkFits(d)
  <2>1. PagesFit(d)
    BY <1>2, <1>3 DEF WalkFits, PagesFit, SameWalk
  <2> QED
    BY <1>2, <1>3, <1>4, <2>1 DEF WalkFits, WalkPc, OnPage, Ended, SameWalk
<1>6. ProbesFit(d) /\ OutageFits(d, outage')
  BY <1>1, <1>2, TypedNow DEF ProbesFit, OutageFits, OutagePc, WalkPc
<1>7. crawl.pc \notin Ended /\ d.pc \notin Ended /\ d.pc # "crashed"
  BY <1>1, <1>2 DEF Ended
<1> QED
  BY <1>1, <1>2, <1>5, <1>6, <1>7, TypedNow, CrawlMoves

-----------------------------------------------------------------------------
(* The probes *)

(* A step of the probes: the walk stays, and the probes get further.       *)
LEMMA ProbeMovesInv ==
  ASSUME CrawlerInv, NEW d \in CrawlType, crawl' = d, SameWalk(crawl, d),
         crawl.pc \in OutagePc \cup {"ai", "contract"}, d.pc \in OutagePc \cup {"contract", "report"},
         UNCHANGED <<launched, escalation>>, issues' \subseteq IssueType, IsFiniteSet(issues'),
         outage' \in OutageType, ProbesFit(d), OutageFits(d, outage')
  PROVE  CrawlerInv'
<1>1. WalkFits(d)
  <2>1. crawl.pc \notin WalkPc \cup Ended /\ d.pc \notin WalkPc
    BY DEF WalkPc, Ended, OutagePc
  <2> QED
    BY <2>1, TypedNow, WalkStays
<1>2. crawl.pc \notin Ended /\ d.pc \notin Ended /\ d.pc # "crashed"
  BY DEF Ended, OutagePc
<1> QED
  BY <1>1, <1>2, TypedNow, CrawlMoves

(* What the end of a probe adds is an issue.                               *)
LEMMA ProbeNoted ==
  ASSUME CrawlerInv, NEW S \in SUBSET Probe, NEW probe \in Probe, Note({Failure(p) : p \in S \cap {probe}}, NoRoute)
  PROVE  issues' \subseteq IssueType /\ IsFiniteSet(issues')
<1> DEFINE types == {Failure(p) : p \in S \cap {probe}}
<1>1. IsFiniteSet(types)
  <2>1. types \subseteq {Failure(probe)}
    OBVIOUS
  <2> QED
    BY <2>1, FiniteOfFew, FS_Subset
<1> HIDE DEF types
<1>2. Note(types, NoRoute)
  BY DEF types
<1> QED
  BY <1>1, <1>2, IssuesNoted DEF CrawlerInv

LEMMA RunAiProbesInv == ASSUME CrawlerInv, RunAiProbes PROVE CrawlerInv'
<1>1. PICK c \in {Thrown(crawl, "ai"), [crawl EXCEPT !.failed = @ \cup {"ai"}],
                [crawl EXCEPT !.passed = @ \cup {"ai"}]} :
           EndProbe([c EXCEPT !.pc = "block", !.at = "/dashboard"], "ai")
  BY DEF RunAiProbes
<1>2. crawl.pc = "ai" /\ UNCHANGED <<outage, launched, escalation>> /\ crawl \in CrawlType
  BY TypedNow DEF RunAiProbes
<1>3. c \in CrawlType /\ SameWalk(crawl, c) /\ "ai" \in c.passed \cup c.failed
  BY <1>1, <1>2 DEF CrawlType, SameWalk, Thrown, Probe
<1> DEFINE d == [c EXCEPT !.pc = "block", !.at = "/dashboard"]
<1>4. /\ d \in CrawlType /\ SameWalk(crawl, d) /\ d.pc = "block"
      /\ d.passed = c.passed /\ d.failed = c.failed
  BY <1>3, CrawlerAssumption DEF CrawlType, CrawlPc, SameWalk
<1>5. crawl' = d /\ Note({Failure(p) : p \in d.failed \cap {"ai"}}, NoRoute)
  BY <1>1 DEF EndProbe
<1> HIDE DEF d
<1>6. issues' \subseteq IssueType /\ IsFiniteSet(issues')
  <2>1. d.failed \in SUBSET Probe /\ "ai" \in Probe
    BY <1>4 DEF CrawlType, Probe
  <2> QED
    BY <1>5, <2>1, ProbeNoted
<1>7. ProbesFit(d) /\ OutageFits(d, outage')
  BY <1>2, <1>3, <1>4, TypedNow DEF ProbesFit, OutageFits, OutagePc, WalkPc
<1>8. crawl.pc \in OutagePc \cup {"ai", "contract"} /\ d.pc \in OutagePc \cup {"contract", "report"}
  BY <1>2, <1>4 DEF OutagePc
<1> QED
  BY <1>2, <1>4, <1>5, <1>6, <1>7, <1>8, TypedNow, ProbeMovesInv

LEMMA RunContractLiteChecksInv == ASSUME CrawlerInv, RunContractLiteChecks PROVE CrawlerInv'
<1>1. PICK c \in {Thrown(crawl, "contract"), [crawl EXCEPT !.failed = @ \cup {"contract"}],
                [crawl EXCEPT !.passed = @ \cup {"contract"}]} :
           EndProbe([c EXCEPT !.pc = "report"], "contract")
  BY DEF RunContractLiteChecks
<1>2. crawl.pc = "contract" /\ UNCHANGED <<outage, launched, escalation>> /\ crawl \in CrawlType
  BY TypedNow DEF RunContractLiteChecks
<1>3. /\ c \in CrawlType /\ SameWalk(crawl, c) /\ "contract" \in c.passed \cup c.failed
      /\ crawl.passed \subseteq c.passed /\ crawl.failed \subseteq c.failed
  BY <1>1, <1>2 DEF CrawlType, SameWalk, Thrown, Probe
<1> DEFINE d == [c EXCEPT !.pc = "report"]
<1>4. /\ d \in CrawlType /\ SameWalk(crawl, d) /\ d.pc = "report"
      /\ d.passed = c.passed /\ d.failed = c.failed
  BY <1>3 DEF CrawlType, CrawlPc, SameWalk
<1>5. crawl' = d /\ Note({Failure(p) : p \in d.failed \cap {"contract"}}, NoRoute)
  BY <1>1 DEF EndProbe
<1> HIDE DEF d
<1>6. issues' \subseteq IssueType /\ IsFiniteSet(issues')
  <2>1. d.failed \in SUBSET Probe /\ "contract" \in Probe
    BY <1>4 DEF CrawlType, Probe
  <2> QED
    BY <1>5, <2>1, ProbeNoted
<1>7. ProbesFit(d)
  BY <1>2, <1>3, <1>4, TypedNow DEF ProbesFit
<1>8. OutageFits(d, outage')
  BY <1>2, <1>4, TypedNow DEF OutageFits, OutagePc, WalkPc
<1>9. crawl.pc \in OutagePc \cup {"ai", "contract"} /\ d.pc \in OutagePc \cup {"contract", "report"}
  BY <1>2, <1>4
<1> QED
  BY <1>2, <1>4, <1>5, <1>6, <1>7, <1>8, <1>9, TypedNow, ProbeMovesInv

LEMMA StopCaptureInv == ASSUME CrawlerInv, StopCapture PROVE CrawlerInv'
<1> DEFINE d == [crawl EXCEPT !.pc = "cut"]
<1>1. crawl.pc = "block" /\ crawl' = d /\ UNCHANGED <<issues, launched, escalation>>
  BY DEF StopCapture
<1>2. /\ d \in CrawlType /\ d.pc = "cut" /\ SameWalk(crawl, d)
      /\ d.passed = crawl.passed /\ d.failed = crawl.failed
  BY TypedNow DEF CrawlType, CrawlPc, SameWalk
<1> HIDE DEF d
<1>3. /\ outage' \in OutageType /\ ~outage'.capture /\ outage'.blocked = outage.blocked
      /\ outage'.left = outage.left
  BY TypedNow DEF StopCapture, OutageType
<1>4. ProbesFit(d) /\ OutageFits(d, outage')
  BY <1>1, <1>2, <1>3, TypedNow DEF ProbesFit, OutageFits, OutagePc, WalkPc
<1>5. crawl.pc \in OutagePc /\ d.pc \in OutagePc
  BY <1>1, <1>2 DEF OutagePc
<1> QED
  BY <1>1, <1>2, <1>3, <1>4, <1>5, TypedNow, ProbeMovesInv

LEMMA BlockCallsInv == ASSUME CrawlerInv, BlockCalls PROVE CrawlerInv'
<1> DEFINE d == [crawl EXCEPT !.pc = "offline"]
<1>1. crawl.pc = "cut" /\ crawl' = d /\ UNCHANGED <<issues, launched, escalation>>
  BY DEF BlockCalls
<1>2. /\ d \in CrawlType /\ d.pc = "offline" /\ SameWalk(crawl, d)
      /\ d.passed = crawl.passed /\ d.failed = crawl.failed
  BY TypedNow DEF CrawlType, CrawlPc, SameWalk
<1> HIDE DEF d
<1>3. Head(outage.left) \in {"api", "copilot"}
  <2>1. outage.left # <<>>
    BY <1>1, TypedNow DEF OutageFits, OutagePc
  <2>2. outage.left \in Seq({"api", "copilot"})
    BY TypedNow DEF OutageType
  <2> QED
    BY <2>1, <2>2, RangeOfTail
<1>4. /\ outage' \in OutageType /\ outage'.capture = outage.capture /\ outage'.left = outage.left
  BY <1>3, TypedNow DEF BlockCalls, OutageType, Blocked
<1>5. ProbesFit(d) /\ OutageFits(d, outage')
  BY <1>1, <1>2, <1>4, TypedNow DEF ProbesFit, OutageFits, OutagePc, WalkPc
<1>6. crawl.pc \in OutagePc /\ d.pc \in OutagePc
  BY <1>1, <1>2 DEF OutagePc
<1> QED
  BY <1>1, <1>2, <1>4, <1>5, <1>6, TypedNow, ProbeMovesInv

LEMMA OutageThrowsInv == ASSUME CrawlerInv, OutageThrows PROVE CrawlerInv'
<1> DEFINE c == Thrown(crawl, "outage")
           d == [c EXCEPT !.pc = "contract"]
<1>1. crawl.pc \in {"block", "cut"} /\ UNCHANGED <<outage, launched, escalation>> /\ crawl \in CrawlType
  BY TypedNow DEF OutageThrows
<1>2. /\ c \in CrawlType /\ SameWalk(crawl, c) /\ "outage" \in c.failed
      /\ crawl.passed = c.passed /\ crawl.failed \subseteq c.failed
  BY <1>1 DEF CrawlType, SameWalk, Thrown, Probe
<1>3. crawl' = d /\ Note({Failure(p) : p \in d.failed \cap {"outage"}}, NoRoute)
  BY DEF OutageThrows, EndProbe
<1> HIDE DEF c
<1>4. /\ d \in CrawlType /\ SameWalk(crawl, d) /\ d.pc = "contract"
      /\ d.passed = c.passed /\ d.failed = c.failed
  BY <1>2 DEF CrawlType, CrawlPc, SameWalk
<1> HIDE DEF d
<1>5. issues' \subseteq IssueType /\ IsFiniteSet(issues')
  <2>1. d.failed \in SUBSET Probe /\ "outage" \in Probe
    BY <1>4 DEF CrawlType, Probe
  <2> QED
    BY <1>3, <2>1, ProbeNoted
<1>6. ProbesFit(d) /\ OutageFits(d, outage')
  BY <1>1, <1>2, <1>4, TypedNow DEF ProbesFit, OutageFits, OutagePc, WalkPc
<1>7. crawl.pc \in OutagePc
  BY <1>1 DEF OutagePc
<1> QED
  BY <1>1, <1>3, <1>4, <1>5, <1>6, <1>7, TypedNow, ProbeMovesInv

LEMMA ProbeOutageInv == ASSUME CrawlerInv, ProbeOutage PROVE CrawlerInv'
<1> DEFINE d == [crawl EXCEPT !.pc = "unblock"]
<1>1. crawl.pc = "offline" /\ crawl' = d /\ UNCHANGED <<issues, launched, escalation>>
  BY DEF ProbeOutage
<1>2. /\ d \in CrawlType /\ d.pc = "unblock" /\ SameWalk(crawl, d)
      /\ d.passed = crawl.passed /\ d.failed = crawl.failed
  BY TypedNow DEF CrawlType, CrawlPc, SameWalk
<1> HIDE DEF d
<1>3. PICK graceful \in BOOLEAN : outage' = [outage EXCEPT !.graceful = @ /\ graceful]
  BY DEF ProbeOutage
<1>4. /\ outage' \in OutageType /\ outage'.capture = outage.capture /\ outage'.left = outage.left
      /\ outage'.blocked = outage.blocked
  <2>1. (outage.graceful /\ graceful) \in BOOLEAN
    OBVIOUS
  <2>2. \A b \in BOOLEAN : [outage EXCEPT !.graceful = b] \in OutageType
    BY TypedNow DEF OutageType
  <2>3. outage' \in OutageType
    BY <1>3, <2>1, <2>2
  <2> QED
    BY <1>3, <2>3, TypedNow DEF OutageType
<1>5. ProbesFit(d) /\ OutageFits(d, outage')
  BY <1>1, <1>2, <1>4, TypedNow DEF ProbesFit, OutageFits, OutagePc, WalkPc
<1>6. crawl.pc \in OutagePc /\ d.pc \in OutagePc
  BY <1>1, <1>2 DEF OutagePc
<1> QED
  BY <1>1, <1>2, <1>4, <1>5, <1>6, TypedNow, ProbeMovesInv

LEMMA UnblockCallsInv == ASSUME CrawlerInv, UnblockCalls PROVE CrawlerInv'
<1> DEFINE d == [crawl EXCEPT !.pc = "restore"]
<1>1. crawl.pc = "unblock" /\ crawl' = d /\ UNCHANGED <<issues, launched, escalation>>
  BY DEF UnblockCalls
<1>2. /\ d \in CrawlType /\ d.pc = "restore" /\ SameWalk(crawl, d)
      /\ d.passed = crawl.passed /\ d.failed = crawl.failed
  BY TypedNow DEF CrawlType, CrawlPc, SameWalk
<1> HIDE DEF d
<1>3. /\ outage' \in OutageType /\ outage'.capture = outage.capture /\ outage'.left = outage.left
      /\ outage'.blocked = "none"
  BY TypedNow DEF UnblockCalls, Unblocked, OutageType, Blocked
<1>4. ProbesFit(d) /\ OutageFits(d, outage')
  BY <1>1, <1>2, <1>3, TypedNow DEF ProbesFit, OutageFits, OutagePc, WalkPc
<1>5. crawl.pc \in OutagePc /\ d.pc \in OutagePc
  BY <1>1, <1>2 DEF OutagePc
<1> QED
  BY <1>1, <1>2, <1>3, <1>4, <1>5, TypedNow, ProbeMovesInv

LEMMA RestoreCaptureInv == ASSUME CrawlerInv, RestoreCapture PROVE CrawlerInv'
<1>1. /\ crawl.pc = "restore" /\ UNCHANGED <<launched, escalation>> /\ crawl \in CrawlType
      /\ crawl.pc \in OutagePc
  BY TypedNow DEF RestoreCapture, OutagePc
<1>2. outage.left # <<>> /\ outage.left \in Seq({"api", "copilot"}) /\ outage.blocked = "none"
  BY <1>1, TypedNow DEF OutageFits, OutageType
<1>3. Tail(outage.left) \in Seq({"api", "copilot"})
  BY <1>2, RangeOfTail
<1>4. outage' \in OutageType /\ outage'.blocked = "none"
  BY <1>2, <1>3, TypedNow DEF RestoreCapture, OutageType, Blocked
<1>5. CASE outage'.left # <<>>
  <2> DEFINE d == [crawl EXCEPT !.pc = "block"]
  <2>1. crawl' = d /\ UNCHANGED issues
    BY <1>5 DEF RestoreCapture
  <2>2. /\ d \in CrawlType /\ d.pc = "block" /\ SameWalk(crawl, d)
        /\ d.passed = crawl.passed /\ d.failed = crawl.failed
    BY <1>1 DEF CrawlType, CrawlPc, SameWalk
  <2> HIDE DEF d
  <2>3. ProbesFit(d) /\ OutageFits(d, outage') /\ d.pc \in OutagePc
    BY <1>1, <1>4, <1>5, <2>2, TypedNow DEF ProbesFit, OutageFits, OutagePc
  <2> QED
    BY <1>1, <1>4, <2>1, <2>2, <2>3, TypedNow, ProbeMovesInv
<1>6. CASE outage'.left = <<>>
  <2> DEFINE good == {p \in {"outage"} : outage.graceful}
             bad == {p \in {"outage"} : ~outage.graceful}
             d == [crawl EXCEPT !.pc = "contract", !.passed = @ \cup good, !.failed = @ \cup bad]
  <2>1. EndProbe(d, "outage")
    BY <1>6 DEF RestoreCapture
  <2>2. good \subseteq Probe /\ bad \subseteq Probe /\ "outage" \in good \cup bad
    BY DEF Probe
  <2> HIDE DEF good, bad
  <2>3. /\ d \in CrawlType /\ d.pc = "contract" /\ SameWalk(crawl, d)
        /\ d.passed = crawl.passed \cup good /\ d.failed = crawl.failed \cup bad
    BY <1>1, <2>2 DEF CrawlType, CrawlPc, SameWalk
  <2> HIDE DEF d
  <2>4. crawl' = d /\ Note({Failure(p) : p \in d.failed \cap {"outage"}}, NoRoute)
    BY <2>1 DEF EndProbe
  <2>5. issues' \subseteq IssueType /\ IsFiniteSet(issues')
    <3>1. d.failed \in SUBSET Probe /\ "outage" \in Probe
      BY <2>3 DEF CrawlType, Probe
    <3> QED
      BY <2>4, <3>1, ProbeNoted
  <2>6. ProbesFit(d) /\ OutageFits(d, outage')
    BY <1>1, <1>4, <2>2, <2>3, TypedNow DEF ProbesFit, OutageFits, OutagePc, WalkPc
  <2> QED
    BY <1>1, <1>4, <2>3, <2>4, <2>5, <2>6, ProbeMovesInv
<1> QED
  BY <1>5, <1>6

-----------------------------------------------------------------------------
(* The gate, and what is told of it *)

LEMMA EvaluateQaGateInv == ASSUME CrawlerInv, EvaluateQaGate PROVE CrawlerInv'
<1> DEFINE d == [crawl EXCEPT !.pc = "done"]
<1>1. crawl.pc = "report" /\ crawl' = d /\ UNCHANGED <<issues, outage, escalation>>
  BY DEF EvaluateQaGate
<1>2. /\ d \in CrawlType /\ d.pc = "done" /\ SameWalk(crawl, d)
      /\ d.passed = crawl.passed /\ d.failed = crawl.failed
  BY TypedNow DEF CrawlType, CrawlPc, SameWalk
<1> HIDE DEF d
<1>3. /\ launched' \in LaunchType /\ launched'.running = {}
      /\ launched'.exit = IF GateEnforced /\ FailedKeys # {} THEN 1 ELSE 0
  BY TypedNow DEF EvaluateQaGate, Exit, LaunchType
<1>4. CrawlTyped'
  BY <1>1, <1>2, <1>3 DEF CrawlerInv, CrawlTyped
<1>5. WalkFits(d)
  BY <1>1, <1>2, TypedNow, WalkStays DEF WalkPc, Ended
<1>6. ProbesFit(d) /\ OutageFits(d, outage') /\ EndFits(d, launched')
  BY <1>1, <1>2, <1>3, TypedNow DEF ProbesFit, OutageFits, EndFits, OutagePc, WalkPc, Ended
<1>7. FailedKeys' = FailedKeys
  <2>1. crawl'.failed = crawl.failed /\ crawl'.pages = crawl.pages /\ issues' = issues
    BY <1>1, <1>2 DEF SameWalk
  <2> QED
    BY <2>1 DEF FailedKeys, GateFails, ActionableFindings, PagesTested
<1>8. PassFits'
  BY <1>3, <1>7, CrawlerAssumption DEF PassFits
<1>9. WalkFits(crawl)'
  BY <1>1, <1>5, WalkNext
<1>10. ProbesFit(crawl)' /\ OutageFits(crawl, outage)' /\ EndFits(crawl, launched)'
  BY <1>1, <1>6 DEF ProbesFit, OutageFits, EndFits
<1>11. EscalationFits(escalation)'
  BY <1>1 DEF CrawlerInv, EscalationFits
<1> QED
  BY <1>4, <1>8, <1>9, <1>10, <1>11 DEF CrawlerInv

(* Steps that do not touch the crawler.                                    *)
LEMMA EscalationMovesInv ==
  ASSUME CrawlerInv, UNCHANGED <<crawl, issues, outage, launched>>,
         escalation' \in EscalationType, EscalationFits(escalation')
  PROVE  CrawlerInv'
<1>1. CrawlTyped'
  BY DEF CrawlerInv, CrawlTyped
<1>2. WalkFits(crawl)'
  <2>1. PagesFit(crawl)' /\ (QueueFits(crawl) => QueueFits(crawl)')
    BY DEF CrawlerInv, WalkFits, PagesFit, QueueFits
  <2> QED
    BY <2>1 DEF CrawlerInv, WalkFits
<1>3. ProbesFit(crawl)' /\ OutageFits(crawl, outage)' /\ EndFits(crawl, launched)'
  BY DEF CrawlerInv, ProbesFit, OutageFits, EndFits
<1>4. FailedKeys' = FailedKeys
  BY DEF FailedKeys, GateFails, ActionableFindings, PagesTested
<1>5. PassFits'
  BY <1>4 DEF CrawlerInv, PassFits
<1>6. EscalationFits(escalation)'
  BY DEF EscalationFits
<1> QED
  BY <1>1, <1>2, <1>3, <1>5, <1>6 DEF CrawlerInv

LEMMA ReadReportInv == ASSUME CrawlerInv, ReadReport PROVE CrawlerInv'
<1>1. /\ UNCHANGED <<crawl, issues, outage, launched>> /\ escalation.pc = "waits" /\ Webhooks # <<>>
      /\ escalation' = [escalation EXCEPT !.pc = "send", !.roles = EscalationTargets(KeysRead)]
      /\ escalation \in EscalationType
  BY TypedNow DEF ReadReport
<1>2. EscalationTargets(KeysRead) = Everyone
  <2>1. KeysRead # {} /\ KeysRead \cap HighSeverityKeys # {}
    BY DEF KeysRead, HighSeverityKeys
  <2> QED
    BY <2>1 DEF EscalationTargets, Everyone
<1>3. /\ escalation' \in EscalationType /\ escalation'.pc = "send" /\ escalation'.roles = Everyone
      /\ escalation'.told = escalation.told
  BY <1>1, <1>2 DEF EscalationType
<1>4. escalation.told = <<>>
  BY <1>1 DEF CrawlerInv, EscalationFits
<1>5. Webhooks \in Seq(Range(Webhooks))
  BY CrawlerAssumption
<1>6. Len(Webhooks) \in Nat /\ Len(Webhooks) # 0 /\ Len(<<>>) = 0 /\ DOMAIN <<>> = {}
  BY <1>1, <1>5, EmptySeq, LenProperties
<1>7. EscalationFits(escalation')
  BY <1>3, <1>4, <1>6 DEF EscalationFits
<1> QED
  BY <1>1, <1>3, <1>7, EscalationMovesInv

LEMMA SendNotificationInv == ASSUME CrawlerInv, SendNotification PROVE CrawlerInv'
<1>1. /\ UNCHANGED <<crawl, issues, outage, launched>> /\ escalation.pc = "send"
      /\ escalation \in EscalationType /\ EscalationFits(escalation)
  BY TypedNow DEF SendNotification, CrawlerInv
<1> DEFINE heard == escalation.told
           n == Len(heard)
<1>2. Webhooks \in Seq(Range(Webhooks)) /\ heard \in Seq(Range(Webhooks))
  BY <1>1, CrawlerAssumption DEF EscalationType
<1>3. n \in Nat /\ Len(Webhooks) \in Nat /\ n < Len(Webhooks) /\ escalation.roles = Everyone
      /\ DOMAIN heard = 1..n /\ DOMAIN Webhooks = 1..Len(Webhooks)
  BY <1>1, <1>2, LenProperties DEF EscalationFits
<1>4. Webhooks[n + 1] \in Range(Webhooks)
  <2>1. n + 1 \in DOMAIN Webhooks
    BY <1>3
  <2> QED
    BY <2>1 DEF Range
<1>5. CASE escalation' = [escalation EXCEPT !.told = Append(@, Webhooks[Len(@) + 1]), !.pc = AfterSent(escalation)]
  <2> DEFINE next == Append(heard, Webhooks[n + 1])
             after == AfterSent(escalation)
  <2>1. /\ next \in Seq(Range(Webhooks)) /\ Len(next) = n + 1 /\ DOMAIN next = 1..(n + 1)
        /\ \A k \in 1..n : next[k] = heard[k]
        /\ next[n + 1] = Webhooks[n + 1]
    BY <1>2, <1>4, RangeOfAppended
  <2>2. after \in {"done", "send"} /\ (after = "done" <=> n + 1 = Len(Webhooks))
    BY DEF AfterSent
  <2>3. escalation' = [escalation EXCEPT !.told = next, !.pc = after]
    BY <1>5
  <2> HIDE DEF next, after
  <2>4. /\ escalation' \in EscalationType /\ escalation'.told = next /\ escalation'.pc = after
        /\ escalation'.roles = Everyone
    BY <1>1, <1>3, <2>1, <2>2, <2>3 DEF EscalationType
  <2>5. \A k \in DOMAIN next : next[k] = Webhooks[k]
    <3>1. \A k \in 1..n : heard[k] = Webhooks[k]
      BY <1>1, <1>3 DEF EscalationFits
    <3>2. \A k \in 1..(n + 1) : k \in 1..n \/ k = n + 1
      BY <1>3
    <3> QED
      BY <2>1, <3>1, <3>2
  <2>6. Len(next) <= Len(Webhooks) /\ (after = "done" <=> Len(next) = Len(Webhooks))
        /\ (after = "send" => Len(next) < Len(Webhooks))
    <3>1. Len(next) = n + 1 /\ n \in Nat /\ Len(Webhooks) \in Nat /\ n < Len(Webhooks)
      BY <1>3, <2>1
    <3>2. n + 1 <= Len(Webhooks) /\ (n + 1 = Len(Webhooks) \/ n + 1 < Len(Webhooks))
      BY <3>1
    <3>3. after = "send" => after # "done"
      OBVIOUS
    <3> QED
      BY <2>2, <3>1, <3>2, <3>3
  <2>7. EscalationFits(escalation')
    BY <2>2, <2>4, <2>5, <2>6 DEF EscalationFits
  <2> QED
    BY <1>1, <2>4, <2>7, EscalationMovesInv
<1>6. CASE escalation' = [escalation EXCEPT !.pc = "refused"]
  <2>1. /\ escalation' \in EscalationType /\ escalation'.told = heard /\ escalation'.pc = "refused"
        /\ escalation'.roles = escalation.roles
    BY <1>1, <1>6 DEF EscalationType
  <2>2. EscalationFits(escalation')
    BY <1>1, <1>3, <2>1 DEF EscalationFits
  <2> QED
    BY <1>1, <2>1, <2>2, EscalationMovesInv
<1> QED
  BY <1>5, <1>6 DEF SendNotification

(* The invariant is kept by every step of the crawler and by every step of *)
(* another part.                                                           *)
LEMMA CrawlerNextInv == ASSUME CrawlerInv, CrawlerStep \/ UNCHANGED crawlVars PROVE CrawlerInv'
<1>1. ASSUME UNCHANGED crawlVars PROVE CrawlerInv'
  BY <1>1, TypedNow, EscalationMovesInv DEF crawlVars, CrawlerInv
<1> QED
  BY <1>1, StartEnvironmentInv, ThrowsInv, VerifyServicesReadyInv, PreAuthInv, SkipVisitedInv,
     VisitPageInv, NavigationFailsInv, ReadPageInv, ClickTargetInv, EndPageInv, BrowserReportsInv,
     EndWalkInv, BrokenLinkAuditInv, RunAiProbesInv, StopCaptureInv, BlockCallsInv, OutageThrowsInv,
     ProbeOutageInv, UnblockCallsInv, RestoreCaptureInv, RunContractLiteChecksInv,
     EvaluateQaGateInv, ReadReportInv, SendNotificationInv
     DEF CrawlerStep

-----------------------------------------------------------------------------
(* What the invariant of the crawler gives *)

LEMMA WalkGiven == ASSUME CrawlerInv PROVE WalkIsThorough
<1>1. PagesFit(crawl) /\ crawl.pages \in Seq(SiteRoutes)
  BY TypedNow DEF WalkFits, CrawlType
<1>2. ASSUME NEW n \in DOMAIN crawl.pages, crawl.pages[n] \notin Range(ExpectedRoutes),
             NEW e \in Range(ExpectedRoutes)
      PROVE  e \in Range(SubSeq(crawl.pages, 1, n))
  <2>1. PICK j \in DOMAIN crawl.pages : j <= n /\ crawl.pages[j] = e
    BY <1>1, <1>2 DEF PagesFit, Expected
  <2>2. Len(crawl.pages) \in Nat /\ DOMAIN crawl.pages = 1..Len(crawl.pages)
    BY <1>1, LenProperties
  <2>3. n \in 1..Len(crawl.pages) /\ j \in 1..n
    BY <1>2, <2>1, <2>2
  <2>4. /\ SubSeq(crawl.pages, 1, n) \in Seq(SiteRoutes) /\ Len(SubSeq(crawl.pages, 1, n)) = n
        /\ SubSeq(crawl.pages, 1, n)[j] = crawl.pages[j]
    <3>1. /\ SubSeq(crawl.pages, 1, n) \in Seq(SiteRoutes)
          /\ Len(SubSeq(crawl.pages, 1, n)) = IF 1 <= n THEN n - 1 + 1 ELSE 0
          /\ \A i \in 1..(n - 1 + 1) : SubSeq(crawl.pages, 1, n)[i] = crawl.pages[1 + i - 1]
      BY <1>1, <2>2, <2>3, SubSeqProperties
    <3>2. n - 1 + 1 = n /\ 1 + j - 1 = j /\ 1 <= n /\ j \in 1..(n - 1 + 1)
      BY <2>2, <2>3
    <3> QED
      BY <3>1, <3>2
  <2>5. DOMAIN SubSeq(crawl.pages, 1, n) = 1..n
    BY <2>4, LenProperties
  <2> QED
    BY <2>1, <2>3, <2>4, <2>5 DEF Range
<1>3. \A n \in DOMAIN crawl.pages :
          crawl.pages[n] \notin Range(ExpectedRoutes) =>
              Range(ExpectedRoutes) \subseteq Range(SubSeq(crawl.pages, 1, n))
  BY <1>2
<1>4. crawl.pc \in {"ai", "done"} /\ Len(crawl.pages) < MaxPages =>
          Range(ExpectedRoutes) \cup crawl.links \subseteq Range(crawl.pages)
  BY TypedNow DEF WalkFits, WalkPc, Expected
<1> QED
  BY <1>1, <1>3, <1>4 DEF WalkIsThorough, PagesFit

LEMMA PassGiven == ASSUME CrawlerInv PROVE PassedMeansClean
<1> SUFFICES ASSUME launched.exit = 0, GateEnforced PROVE PassedMeansClean
  BY DEF PassedMeansClean
<1>1. FailedKeys = {} /\ crawl.pc = "done"
  <2>1. NoExit # 0
    BY CrawlerAssumption
  <2> QED
    BY <2>1, TypedNow DEF CrawlerInv, PassFits, EndFits, Ended
<1>2. \A k \in GateKey : ~GateFails(k)
  BY <1>1 DEF FailedKeys
<1>3. ~GateFails("ai-failures") /\ ~GateFails("outage-fallback-failures") /\ ~GateFails("contract-lite-failures")
  BY <1>2 DEF GateKey
<1>4. crawl.failed \cap Probe = {}
  BY <1>3 DEF GateFails, Probe
<1>5. crawl.passed = Probe
  <2>1. ProbesFit(crawl) /\ crawl.passed \subseteq Probe
    BY TypedNow DEF CrawlType
  <2> QED
    BY <1>1, <1>4, <2>1 DEF ProbesFit, Probe
<1>6. ~GateFails("pages-tested") /\ ~GateFails("critical") /\ ~GateFails("medium")
      /\ ~GateFails("actionable-findings")
  BY <1>2 DEF GateKey
<1>7. Len(crawl.pages) >= MinPages
  <2>1. ~(PagesTested < MinPages)
    BY <1>6 DEF GateFails
  <2>2. Len(crawl.pages) \in Nat /\ MinPages \in Nat
    BY TypedNow, LenProperties, CrawlerAssumption DEF CrawlType
  <2> QED
    BY <2>1, <2>2 DEF PagesTested
<1>8. \A i \in issues : i.severity = "minor"
  <2>1. \A i \in issues : i.severity # "critical" /\ i.severity # "medium"
    BY <1>6 DEF GateFails
  <2>2. \A i \in issues : i.severity \in {"critical", "medium", "minor"}
    BY TypedNow DEF IssueType
  <2> QED
    BY <2>1, <2>2
<1>9. \/ Cardinality({i \in issues : i.finding}) <= MaxFindings
      \/ MaxFindings >= ListedFindings
  <2> DEFINE found == Cardinality({i \in issues : i.finding})
  <2>1. found \in Nat /\ ListedFindings \in Nat /\ MaxFindings \in Nat
    BY TypedNow, FS_Subset, FS_CardinalityType, CrawlerAssumption
  <2>2. ~(Min({found, ListedFindings}) > MaxFindings)
    BY <1>6 DEF GateFails, ActionableFindings
  <2>3. Min({found, ListedFindings}) \in {found, ListedFindings}
    <3>1. \E m \in {found, ListedFindings} : \A y \in {found, ListedFindings} : m =< y
      BY <2>1
    <3> QED
      BY <3>1 DEF Min
  <2> HIDE DEF found
  <2>4. found <= MaxFindings \/ MaxFindings >= ListedFindings
    BY <2>1, <2>2, <2>3
  <2> QED
    BY <2>4 DEF found
<1> QED
  BY <1>5, <1>7, <1>8, <1>9 DEF PassedMeansClean

LEMMA ToldGiven == ASSUME CrawlerInv PROVE FailureIsTold /\ Range(escalation.told) \subseteq Range(Webhooks)
<1>1. EscalationFits(escalation) /\ escalation.told \in Seq(Range(Webhooks)) /\ Webhooks \in Seq(Range(Webhooks))
  BY TypedNow, CrawlerAssumption DEF CrawlerInv, EscalationType
<1>2. /\ DOMAIN escalation.told = 1..Len(escalation.told) /\ DOMAIN Webhooks = 1..Len(Webhooks)
      /\ \A n \in DOMAIN escalation.told : escalation.told[n] \in Range(Webhooks)
  BY <1>1, LenProperties, ElementOfSeq
<1>3. Range(escalation.told) \subseteq Range(Webhooks)
  BY <1>2 DEF Range
<1>4. ASSUME escalation.pc = "done" PROVE escalation.told = Webhooks
  <2>1. Len(escalation.told) = Len(Webhooks)
    BY <1>1, <1>4 DEF EscalationFits
  <2>2. \A n \in 1..Len(escalation.told) : escalation.told[n] = Webhooks[n]
    BY <1>1, <1>2 DEF EscalationFits
  <2> QED
    BY <1>1, <2>1, <2>2, SeqEqual
<1>5. ASSUME escalation.pc = "done"
      PROVE  EscalationTargets(FailedKeys) \subseteq escalation.roles /\ "Owner" \in escalation.roles
  BY <1>1, <1>5 DEF EscalationFits, EscalationTargets, Everyone
<1>6. escalation.pc = "done" =>
          /\ escalation.told = Webhooks
          /\ EscalationTargets(FailedKeys) \subseteq escalation.roles /\ "Owner" \in escalation.roles
  BY <1>4, <1>5
<1>7. FailureIsTold
  BY <1>6 DEF FailureIsTold
<1> QED
  BY <1>3, <1>7

LEMMA CrawlerInvGives ==
  ASSUME CrawlerInv
  PROVE  /\ CrawlerTypeOK
         /\ WalkIsThorough /\ OwnOutageIsNotCaptured /\ PassedMeansClean
         /\ NothingLeftRunning /\ FailureIsTold
<1>1. OwnOutageIsNotCaptured
  BY TypedNow DEF OutageFits, OwnOutageIsNotCaptured
<1>2. NothingLeftRunning
  BY TypedNow DEF EndFits, Ended, NothingLeftRunning
<1>3. CrawlerTypeOK
  BY TypedNow, ToldGiven DEF CrawlerTypeOK, CrawlType, IssueType, OutageType, Blocked, LaunchType
<1> QED
  BY <1>1, <1>2, <1>3, WalkGiven, PassGiven, ToldGiven

(***************************************************************************)
(* One part at a time                                                      *)
(***************************************************************************)

LEMMA CastActs ==
  /\ \A part, S : At(part, S) \subseteq S
  /\ \A part, S : At(part, S) # {} => cast.part = part
<1> QED
  BY DEF At

(* A step is one of at most one of the parts.                              *)
LEMMA OneActs ==
  ASSUME [WorkspaceNext]_workspaceVars
  PROVE  /\ UNCHANGED cast
         /\ OfficeStep \/ UNCHANGED officeVars
         /\ AlertsStep \/ UNCHANGED alertVars
         /\ AdviceStep \/ UNCHANGED adviceVars
         /\ MetricsStep \/ UNCHANGED metricVars
         /\ AccountsStep \/ UNCHANGED memberVars
         /\ ImportsStep \/ UNCHANGED recordVars
         /\ FiguresStep \/ UNCHANGED figureVars
         /\ (cast.part = "navigation" /\ NavNext) \/ UNCHANGED navVars
         /\ (cast.part = "dashboard" /\ DashboardNext) \/ UNCHANGED dashboardVars
         /\ (\E c \in At("copilot", Chats) : CopilotStep(c)) \/ UNCHANGED copilotVars
         /\ CompetitiveStep \/ UNCHANGED competitiveVars
         /\ (cast.part = "crawler" /\ CrawlerStep) \/ UNCHANGED crawlVars
<1>1. CASE UNCHANGED workspaceVars
  BY <1>1 DEF workspaceVars, backVars, pageVars
<1>2. CASE BackStep /\ UNCHANGED <<cast, pageVars>>
  BY <1>2 DEF BackStep, pageVars, beyondOffice, beyondAlerts, beyondAdvice, beyondMetrics,
     beyondAccounts, beyondImports, beyondFigures
<1>3. CASE PageStep /\ UNCHANGED <<cast, backVars>>
  BY <1>3 DEF PageStep, backVars
<1> QED
  BY <1>1, <1>2, <1>3 DEF WorkspaceNext

(* What the workspace begins with is what its parts begin with.            *)
LEMMA PartsInit ==
  WorkspaceInit => /\ OpsInit /\ ReportsInit /\ AlertsInit /\ AgentsInit /\ ExperimentsInit
                   /\ VerifiedMetricsInit /\ MembersInit /\ RecordsInit /\ NavigationInit
                   /\ DashboardInit /\ CopilotInit /\ CompetitiveInit /\ CrawlerInit
<1> QED
  BY DEF WorkspaceInit

(***************************************************************************)
(* The parts that share nothing                                            *)
(***************************************************************************)

(* The alert rules of a workspace go by their own specification            *)
(* (AlertRulesService).                                                    *)
THEOREM AlertsGoOn == WorkspaceSafeSpec => AlertsSpec
<1>1. [WorkspaceNext]_workspaceVars => [AlertsNext]_alertVars
  BY OneActs, CastActs DEF AlertsStep, AlertsNext
<1> QED
  BY <1>1, PartsInit, PTL DEF WorkspaceSafeSpec, AlertsSpec

(* The verified metrics of a workspace go by their own specification       *)
(* (AnalyticsService, AnalyticsProcessor).                                 *)
THEOREM MetricsGoOn == WorkspaceSafeSpec => VerifiedMetricsSpec
<1>1. [WorkspaceNext]_workspaceVars => [VerifiedMetricsNext]_metricVars
  BY OneActs, CastActs DEF MetricsStep, VerifiedMetricsNext
<1> QED
  BY <1>1, PartsInit, PTL DEF WorkspaceSafeSpec, VerifiedMetricsSpec

(* The accounts of a workspace go by their own specification (AuthService, *)
(* AdminService).                                                          *)
THEOREM AccountsGoOn == WorkspaceSafeSpec => MembersSpec
<1>1. [WorkspaceNext]_workspaceVars => [MembersNext]_memberVars
  BY OneActs, CastActs DEF AccountsStep, MembersNext
<1> QED
  BY <1>1, PartsInit, PTL DEF WorkspaceSafeSpec, MembersSpec

(* The transactions that file the records of a workspace go by their own   *)
(* specification (IntegrationSyncProcessor).                               *)
THEOREM ImportsGoOn == WorkspaceSafeSpec => RecordsSpec
<1>1. [WorkspaceNext]_workspaceVars => [RecordsNext]_recordVars
  BY OneActs, CastActs DEF ImportsStep, RecordsNext
<1> QED
  BY <1>1, PartsInit, PTL DEF WorkspaceSafeSpec, RecordsSpec

(* The redirects (middleware.ts), the dashboard (dashboard/page.tsx), the  *)
(* copilot (CopilotService) and the competitive page                       *)
(* (competitive/page.tsx) go by their own specifications.                  *)
THEOREM PagesGoOn ==
  WorkspaceSafeSpec => NavSpec /\ DashboardSpec /\ CopilotSpec /\ CompetitiveSpec
<1>1. [WorkspaceNext]_workspaceVars => [NavNext]_navVars /\ [DashboardNext]_dashboardVars
  BY OneActs
<1>2. [WorkspaceNext]_workspaceVars => [CopilotNext]_copilotVars
  BY OneActs, CastActs DEF CopilotNext
<1>3. [WorkspaceNext]_workspaceVars => [CompetitiveNext]_competitiveVars
  BY OneActs, CastActs DEF CompetitiveStep, CompetitiveNext
<1> QED
  BY <1>1, <1>2, <1>3, PartsInit, PTL
  DEF WorkspaceSafeSpec, NavSpec, DashboardSpec, CopilotSpec, CompetitiveSpec

(* In the workspace, alerts are told as they are by themselves             *)
(* (AlertRulesService.evaluateDueRules).                                   *)
THEOREM WorkspaceAlertsAreTold == WorkspaceSafeSpec => []AlertsAreTold
<1> QED
  BY AlertsGoOn, AlertsAreRight

(* The figures of summaries and of verified rows agree with the stored     *)
(* snapshots, whatever else is at work (AnalyticsService.getSummary,       *)
(* AnalyticsAggregationService).                                           *)
THEOREM WorkspaceFiguresAgree == WorkspaceSafeSpec => []FiguresAgree
<1> QED
  BY MetricsGoOn, FiguresDoAgree

(* Whoever was told that it is registered has its account in the workspace *)
(* (AuthService.register).                                                 *)
THEOREM WorkspaceRegisteredIsMine == WorkspaceSafeSpec => []RegisteredIsMine
<1> QED
  BY AccountsGoOn, RegisteredKeepIt

(* What syncs file in the workspace is whole and filed once                *)
(* (IntegrationSyncProcessor.persistRecords).                              *)
THEOREM WorkspaceImportsAreWhole == WorkspaceSafeSpec => []ImportsAreWhole
<1> QED
  BY ImportsGoOn, ImportsWhole

(* A browser that settles is where its user wanted to be                   *)
(* (middleware.ts:48-116).                                                 *)
THEOREM WorkspaceArrives == WorkspaceSafeSpec => []ArrivesWhereAsked
<1> QED
  BY PagesGoOn, Arrives

(* In whichever order the answers come, no spinner stays and no second     *)
(* refresh loop runs, the status is of the last answer, panels are of      *)
(* their filter unless an older answer came last, and the copilot's talk   *)
(* is kept (dashboard/page.tsx, competitive/page.tsx, copilot.service.ts). *)
THEOREM PagesDoShowWhatIs == WorkspaceSafeSpec => []PagesShowWhatIs
<1>1. CopilotInv /\ DashboardInv /\ CompetitiveInv => PagesShowWhatIs
  BY CopilotInvGives, DashboardInvGives, CompetitiveInvGives DEF PagesShowWhatIs
<1> QED
  BY <1>1, PagesGoOn, CopilotInvHolds, DashboardInvHolds, CompetitiveInvHolds, PTL

LEMMA CrawlerHolds == WorkspaceSafeSpec => []CrawlerInv
<1>1. CrawlerInv /\ [WorkspaceNext]_workspaceVars => CrawlerInv'
  BY OneActs, CrawlerNextInv
<1> QED
  BY <1>1, PartsInit, CrawlerInitInv, PTL DEF WorkspaceSafeSpec

(* What the crawler of the quality gate reports it really met, and a gate  *)
(* that failed is told (ui_crawler.mjs, notify-qa-gate-failure.mjs).       *)
THEOREM GateStaysSound == WorkspaceSafeSpec => []GateIsSound
<1>1. CrawlerInv => GateIsSound
  BY CrawlerInvGives DEF GateIsSound
<1> QED
  BY <1>1, CrawlerHolds, PTL

(* A workspace keeps an administrator and its settings, but for            *)
(* administrators who demote themselves or each other (AdminService).      *)
THEOREM WorkspaceAccountsAreKept == WorkspaceSafeSpec => AccountsAreKept
<1> QED
  BY AccountsGoOn, LockedOutOnlyByOverlap, SettingsStaySaved DEF AccountsAreKept

(***************************************************************************)
(* The office: operations and reports, which share the checklist           *)
(***************************************************************************)

OfficeInv == OpsInv /\ RowsInv /\ LimitInv

LEMMA OfficeActs ==
  ASSUME [WorkspaceNext]_workspaceVars
  PROVE  \/ OpsNext /\ UNCHANGED reportVars
         \/ ReportsNext /\ UNCHANGED orderVars
         \/ UNCHANGED officeVars
<1>1. OfficeStep \/ UNCHANGED officeVars
  BY OneActs
<1>0. \A r : DeskAsks(r) => OpsAsk(r)
  BY DEF DeskAsks, OpsAsk
<1>2. CreateMessage \/ (\E r \in At("office", Desks) : DeskAsks(r) \/ OpsStep(r)) => OpsNext
  BY <1>0, CastActs DEF OpsNext
<1>3. \/ \E c \in At("office", Clerks) : AskReport(c) \/ AskSchedule(c)
      \/ \E g \in At("office", Clerks \cup Tickers) : ReportWorks(g) \/ ReportCallFails(g)
      \/ ReportCrash \/ AccessChanges \/ ReportClock
      => ReportsNext
  BY CastActs DEF ReportsNext
<1>4. OfficeStep => \/ /\ CreateMessage \/ (\E r \in At("office", Desks) : DeskAsks(r) \/ OpsStep(r))
                       /\ UNCHANGED reportVars
                    \/ /\ \/ \E c \in At("office", Clerks) : AskReport(c) \/ AskSchedule(c)
                          \/ \E g \in At("office", Clerks \cup Tickers) : ReportWorks(g) \/ ReportCallFails(g)
                          \/ ReportCrash \/ AccessChanges \/ ReportClock
                       /\ UNCHANGED orderVars
  BY DEF OfficeStep
<1> QED
  BY <1>1, <1>2, <1>3, <1>4

(* A change of the checklist disturbs neither the orders nor the reports.  *)
LEMMA OrdersUndisturbed ==
  ASSUME OpsInv, UNCHANGED orderVars, OnboardingTypeOK'
  PROVE  OpsInv'
<1>1. UNCHANGED <<orders, messages, desk>>
  BY DEF orderVars
<1>2. \A d : DeskFits(d)' = DeskFits(d)
  BY <1>1 DEF DeskFits, OnOrder, OnMessage, Converts, Links
<1>3. LinkedBothWays' = LinkedBothWays
  BY <1>1 DEF LinkedBothWays
<1> QED
  BY <1>1, <1>2, <1>3 DEF OpsInv, OpsTypeOK

LEMMA ReportsUndisturbed ==
  ASSUME RowsInv, LimitInv, UNCHANGED reportVars, OnboardingTypeOK'
  PROVE  RowsInv' /\ LimitInv'
<1>1. UNCHANGED <<reports, schedules, last, reporters, gen, fired, clock, reportFaults>>
  BY DEF reportVars
<1>2. \A g \in Gens : GenFits(g, gen[g])'
  BY <1>1 DEF RowsInv, GenFits, HasRow, MadeBy
<1>3. OwnRows' /\ TriggeredMeansCompleted' /\ UnfinishedIsInProgress'
  BY <1>1 DEF RowsInv, OwnRows, TriggeredMeansCompleted, UnfinishedIsInProgress
<1>4. ReportsTypeOK'
  BY <1>1 DEF RowsInv, ReportsTypeOK
<1>5. LimitInv'
  BY <1>1 DEF LimitInv, LimitOf, PendingTick, CronRuns, MostRuns, RunsBound
<1> QED
  BY <1>2, <1>3, <1>4, <1>5 DEF RowsInv

LEMMA OfficeStepInv == OfficeInv /\ [WorkspaceNext]_workspaceVars => OfficeInv'
<1> SUFFICES ASSUME OfficeInv, [WorkspaceNext]_workspaceVars PROVE OfficeInv'
  OBVIOUS
<1>1. CASE OpsNext /\ UNCHANGED reportVars
  <2>1. OpsInv'
    BY <1>1, OpsNextInv DEF OfficeInv
  <2>2. OnboardingTypeOK'
    BY <2>1 DEF OpsInv, OpsTypeOK
  <2> QED
    BY <1>1, <2>1, <2>2, ReportsUndisturbed DEF OfficeInv
<1>2. CASE ReportsNext /\ UNCHANGED orderVars
  <2>1. RowsInv' /\ LimitInv'
    BY <1>2, RowsNext, LimitStep DEF OfficeInv
  <2>2. OnboardingTypeOK'
    BY <2>1 DEF RowsInv, ReportsTypeOK
  <2> QED
    BY <1>2, <2>1, <2>2, OrdersUndisturbed DEF OfficeInv
<1>3. CASE UNCHANGED officeVars
  <2>1. UNCHANGED <<checklist, orderVars, reportVars>>
    BY <1>3 DEF officeVars
  <2>2. OnboardingTypeOK'
    BY <2>1 DEF OfficeInv, OpsInv, OpsTypeOK, OnboardingTypeOK
  <2> QED
    BY <2>1, <2>2, OrdersUndisturbed, ReportsUndisturbed DEF OfficeInv
<1> QED
  BY <1>1, <1>2, <1>3, OfficeActs

LEMMA OfficeHolds == WorkspaceSafeSpec => []OfficeInv
<1>1. WorkspaceInit => OfficeInv
  BY PartsInit, OpsInitInv, RowsInit, LimitInit DEF OfficeInv
<1> QED
  BY <1>1, OfficeStepInv, PTL DEF WorkspaceSafeSpec

(* A message's order names it, whoever writes the checklist                *)
(* (createOrderFromMessage).                                               *)
THEOREM WorkspaceLinksHold == WorkspaceSafeSpec => []LinkedBothWays
<1>1. OfficeInv => LinkedBothWays
  BY DEF OfficeInv, OpsInv
<1> QED
  BY <1>1, OfficeHolds, PTL

(* The rows of reports and schedules say what was done                     *)
(* (generateReport, runDueSchedules).                                      *)
THEOREM WorkspaceReportsAccountedFor == WorkspaceSafeSpec => []ReportsAreAccountedFor
<1>1. OfficeInv => ReportsAreAccountedFor
  BY RowsGive DEF OfficeInv
<1> QED
  BY <1>1, OfficeHolds, PTL

LEMMA OpsOrNot ==
  ASSUME [WorkspaceNext]_workspaceVars
  PROVE  [OpsNext]_opsVars \/ UNCHANGED <<orders, messages>>
<1> QED
  BY OfficeActs DEF orderVars, officeVars

LEMMA ReportsOrNot ==
  ASSUME [WorkspaceNext]_workspaceVars
  PROVE  [ReportsNext]_repVars \/ UNCHANGED reports
<1> QED
  BY OfficeActs DEF reportVars, officeVars

(* Statuses of orders follow the flow but for stale requests               *)
(* (updateOrderStatus).                                                    *)
THEOREM WorkspaceFlowIsKept == WorkspaceSafeSpec => FlowUnlessStale
<1>1. OfficeInv /\ [WorkspaceNext]_workspaceVars => [\A o \in DOMAIN orders : OrderFlows(o)]_opsVars
  BY OpsOrNot, FlowStep DEF OfficeInv, OrderFlows
<1>2. WorkspaceSafeSpec => [][\A o \in DOMAIN orders : OrderFlows(o)]_opsVars
  BY <1>1, OfficeHolds, PTL DEF WorkspaceSafeSpec
<1> QED
  BY <1>2 DEF FlowUnlessStale, OrderFlows

(* What was written into a message is undone by stale requests only        *)
(* (resolveMessage, reconcileProviderEvent, createOrderFromMessage).       *)
THEOREM WorkspaceNothingUndone == WorkspaceSafeSpec => NothingUndoneUnlessStale
<1>1. UNCHANGED messages => \A m \in DOMAIN messages : MessageKeeps(m)
  BY DEF MessageKeeps
<1>2. OfficeInv /\ [WorkspaceNext]_workspaceVars => [\A m \in DOMAIN messages : MessageKeeps(m)]_opsVars
  BY <1>1, OpsOrNot, KeepStep DEF OfficeInv
<1>3. WorkspaceSafeSpec => [][\A m \in DOMAIN messages : MessageKeeps(m)]_opsVars
  BY <1>2, OfficeHolds, PTL DEF WorkspaceSafeSpec
<1> QED
  BY <1>3 DEF NothingUndoneUnlessStale, MessageKeeps

(* A completed report stays as it is (generateReport).                     *)
THEOREM WorkspaceCompletedStays == WorkspaceSafeSpec => CompletedIsFinal
<1>1. OfficeInv /\ [WorkspaceNext]_workspaceVars => [\A i \in DOMAIN reports : ReportStays(i)]_repVars
  BY ReportsOrNot, StayStep DEF OfficeInv, ReportStays
<1>2. WorkspaceSafeSpec => [][\A i \in DOMAIN reports : ReportStays(i)]_repVars
  BY <1>1, OfficeHolds, PTL DEF WorkspaceSafeSpec
<1> QED
  BY <1>2 DEF CompletedIsFinal, ReportStays

(* Only two requests write a checklist that is there.                      *)
LEMMA ChecklistWriters ==
  ASSUME [WorkspaceNext]_workspaceVars, checklist # None, checklist' # checklist
  PROVE  \/ \E r \in Desks : SaveChecklist(r)
         \/ \E c \in Clerks : SaveForSchedule(c)
<1>1. CASE OpsNext /\ UNCHANGED reportVars
  BY <1>1 DEF OpsNext, CreateMessage, OpsAsk, AskCreateOrder, AskUpdateOrderStatus, AskAssignOrder,
     AskCreateOrderFromMessage, AskResolveMessage, AskReconcileProviderEvent, AskUpdateStep, Starts,
     OpsStep, PassGate, MakeRow, InsertRow, FindOrder, WriteOrder, InsertOrder, FindMessage,
     WriteMessage, LinkMessage, ReadChecklist, ReadProgress, GivesUp
<1>2. CASE ReportsNext /\ UNCHANGED orderVars
  BY <1>2 DEF ReportsNext, AskReport, AskSchedule, ReportWorks, ClerkStep, PassReportGate,
     MakeReportRow, InsertRow, InsertSchedule, ReadForSchedule, TickStep, StartTick, NextSchedule,
     EndTick, TriggerSchedule, DispatchReport, GenerateStep, AccessReport, CreateRun, StartRun,
     BuildPayload, CompleteRun, FailRun, RereadRun, ReportCallFails, ReportCrash, AccessChanges,
     ReportClock, GenOnly, RowOnly
<1>3. CASE UNCHANGED officeVars
  BY <1>3 DEF officeVars
<1> QED
  BY <1>1, <1>2, <1>3, OfficeActs

(* A step of the checklist is set by its own request or a stale one.       *)
MilestoneKept(s) ==
    checklist # None /\ checklist'[s] # checklist[s] =>
        \/ \E r \in Desks : /\ desk[r].pc = "save"
                            /\ Saves(desk[r].seen, Milestone(desk[r]), s)
        \/ \E c \in Clerks : /\ gen[c].pc = "save"
                             /\ Saves(gen[c].seen, "schedule_first_report", s)

LEMMA MilestoneStep ==
  ASSUME OfficeInv, [WorkspaceNext]_workspaceVars, NEW s \in Steps PROVE MilestoneKept(s)
<1> SUFFICES ASSUME checklist # None, checklist'[s] # checklist[s] PROVE MilestoneKept(s)
  BY DEF MilestoneKept
<1>1. ASSUME NEW seen \in Checklist, NEW step, NEW done, SaveStep(seen, step, done)
      PROVE  Saves(seen, step, s)
  BY <1>1 DEF SaveStep, Saves, Checklist
<1>2. ASSUME NEW r \in Desks, SaveChecklist(r) PROVE MilestoneKept(s)
  <2>1. desk[r].pc = "save" /\ desk[r].seen \in Checklist
    BY <1>2 DEF SaveChecklist, OfficeInv, OpsInv, DeskFits
  <2> QED
    BY <1>1, <1>2, <2>1 DEF SaveChecklist, MilestoneKept
<1>3. ASSUME NEW c \in Clerks, SaveForSchedule(c) PROVE MilestoneKept(s)
  <2>1. gen[c].pc = "save" /\ gen[c].seen \in Checklist
    BY <1>3 DEF SaveForSchedule, OfficeInv, RowsInv, GenFits, Gens
  <2> QED
    BY <1>1, <1>3, <2>1 DEF SaveForSchedule, MilestoneKept
<1> QED
  BY <1>2, <1>3, ChecklistWriters

(* A milestone is set or cleared by a request that is for it, and          *)
(* otherwise only by a request of either service whose copy of the         *)
(* checklist is stale (onboarding.service.ts:71-85).                       *)
THEOREM MilestonesAreKept == WorkspaceSafeSpec => MilestoneUnlessStale
<1>1. OfficeInv /\ [WorkspaceNext]_workspaceVars => [\A s \in Steps : MilestoneKept(s)]_officeVars
  BY MilestoneStep
<1>2. WorkspaceSafeSpec => [][\A s \in Steps : MilestoneKept(s)]_officeVars
  BY <1>1, OfficeHolds, PTL DEF WorkspaceSafeSpec
<1> QED
  BY <1>2 DEF MilestoneUnlessStale, MilestoneKept
(***************************************************************************)
(* The advice: agents and experiments, which share the recommendations     *)
(***************************************************************************)

RunsAtRest ==
    /\ runs = [r \in Runners |-> IdleRun]
    /\ runlog = [r \in Runners |-> "none"]
ExperimentsAtRest ==
    /\ experiment = NewExperiment
    /\ req = [x \in Experimenters |-> IdleReq]

(* Without experiments at work, what is recommended comes from agents.     *)
OfAgents(trace) == trace \in SummaryTraces \cup AgentTraces
AgentsOnly ==
    /\ \A i \in DOMAIN recs : OfAgents(recs[i].trace)
    /\ \A p \in Persisters : persist[p].pc # "idle" => OfAgents(persist[p].trace)

(* Recommendations are those of the part that is at work.                  *)
AdviceInv ==
    /\ cast.part = "experiments" => ExperimentsInv /\ RunsAtRest
    /\ cast.part # "experiments" => AgentsInv /\ AgentsOnly /\ ExperimentsAtRest

LEMMA AdviceActs ==
  ASSUME [WorkspaceNext]_workspaceVars
  PROVE  \/ cast.part = "agents" /\ AgentsNext /\ UNCHANGED experimentVars
         \/ cast.part = "experiments" /\ ExperimentsNext /\ UNCHANGED runVars
         \/ UNCHANGED adviceVars
<1>1. AdviceStep \/ UNCHANGED adviceVars
  BY OneActs
<1>2. \/ \E r \in At("agents", Runners) : AskRun(r) \/ RunStep(r)
      \/ \E d \in At("agents", Deciders) : DecideStep(d) /\ UNCHANGED runVars
      => cast.part = "agents" /\ AgentsNext
  BY CastActs DEF AgentsNext, runVars
<1>3. \/ cast.part = "experiments" /\ CreateExperiment
      \/ \E x \in At("experiments", Experimenters) : ExperimentStep(x)
      => cast.part = "experiments" /\ ExperimentsNext
  BY CastActs DEF ExperimentsNext
<1>4. AdviceStep =>
      \/ /\ \/ \E r \in At("agents", Runners) : AskRun(r) \/ RunStep(r)
            \/ \E d \in At("agents", Deciders) : DecideStep(d) /\ UNCHANGED runVars
         /\ UNCHANGED experimentVars
      \/ /\ \/ cast.part = "experiments" /\ CreateExperiment
            \/ \E x \in At("experiments", Experimenters) : ExperimentStep(x)
         /\ UNCHANGED runVars
  BY DEF AdviceStep
<1> QED
  BY <1>1, <1>2, <1>3, <1>4

LEMMA AgentsOnlyPersist ==
  ASSUME RecsTypeOK, AgentsOnly, UNCHANGED recs, NEW r \in Persisters,
         \/ UNCHANGED persist
         \/ PersistEnds(r)
         \/ \E trace \in SummaryTraces \cup AgentTraces : PersistStarts(r, trace)
  PROVE  AgentsOnly'
<1>1. \A p \in Persisters : persist'[p].pc # "idle" => OfAgents(persist'[p].trace)
  BY DEF RecsTypeOK, AgentsOnly, OfAgents, PersistEnds, PersistStarts
<1> QED
  BY <1>1 DEF AgentsOnly, OfAgents

LEMMA AgentsOnlyKept ==
  ASSUME AgentsInv, AgentsOnly, AgentsNext
  PROVE  AgentsOnly'
<1>0. RecsInv /\ RecsTypeOK /\ Runners \subseteq Persisters
  BY AgentsAssumption DEF AgentsInv, RecsInv
<1>1. ASSUME NEW r \in Runners, AskRun(r) \/ Succeed(r) \/ Fail(r) PROVE AgentsOnly'
  BY <1>0, <1>1, AgentsOnlyPersist DEF AskRun, Succeed, Fail, recVars
<1>2. ASSUME NEW r \in Runners, Summarize(r) \/ Advise(r) PROVE AgentsOnly'
  BY <1>0, <1>2, AgentsOnlyPersist DEF Summarize, Advise
<1>3. ASSUME NEW r \in Runners, Advised(r) \/ AttemptThrows(r) PROVE AgentsOnly'
  BY <1>0, <1>3, AgentsOnlyPersist DEF Advised, AttemptThrows
<1>4. (\E p \in Persisters : PersistStep(p)) \/ (\E d \in Deciders : DecideStep(d))
      => \A i \in DOMAIN recs' : OfAgents(recs'[i].trace)
  BY <1>0, TracesCome DEF AgentsOnly
<1>5. ASSUME NEW r \in Runners, PersistStep(r) PROVE AgentsOnly'
  <2>1. /\ persist[r].pc # "idle" /\ persist'[r].trace = persist[r].trace
        /\ \A q \in Persisters \ {r} : persist'[q] = persist[q]
    BY <1>0, <1>5, TraceKept
  <2>2. \A p \in Persisters : persist'[p].pc # "idle" => OfAgents(persist'[p].trace)
    BY <2>1 DEF AgentsOnly
  <2> QED
    BY <1>0, <1>4, <1>5, <2>2 DEF AgentsOnly, OfAgents
<1>6. ASSUME NEW d \in Deciders, DecideStep(d) PROVE AgentsOnly'
  <2>1. UNCHANGED persist
    BY <1>6 DEF DecideStep, ReadDecisions, WriteDecision, DecisionThrows
  <2> QED
    BY <1>4, <1>6, <2>1 DEF AgentsOnly, OfAgents
<1> QED
  BY <1>1, <1>2, <1>3, <1>5, <1>6 DEF AgentsNext, RunStep

LEMMA AdviceStepInv == AdviceInv /\ [WorkspaceNext]_workspaceVars => AdviceInv'
<1> SUFFICES ASSUME AdviceInv, [WorkspaceNext]_workspaceVars PROVE AdviceInv'
  OBVIOUS
<1>0. UNCHANGED cast
  BY OneActs
<1>1. CASE cast.part = "agents" /\ AgentsNext /\ UNCHANGED experimentVars
  <2>1. AgentsInv /\ AgentsOnly /\ ExperimentsAtRest
    BY <1>1 DEF AdviceInv
  <2>2. AgentsInv' /\ AgentsOnly'
    BY <1>1, <2>1, AgentsNextInv, AgentsOnlyKept
  <2>3. ExperimentsAtRest'
    BY <1>1, <2>1 DEF experimentVars, ExperimentsAtRest
  <2> QED
    BY <1>0, <1>1, <2>2, <2>3 DEF AdviceInv
<1>2. CASE cast.part = "experiments" /\ ExperimentsNext /\ UNCHANGED runVars
  <2>1. ExperimentsInv /\ RunsAtRest
    BY <1>2 DEF AdviceInv
  <2>2. ExperimentsInv'
    BY <1>2, <2>1, ExperimentsNextInv DEF ExperimentsNext
  <2>3. RunsAtRest'
    BY <1>2, <2>1 DEF runVars, RunsAtRest
  <2> QED
    BY <1>0, <1>2, <2>2, <2>3 DEF AdviceInv
<1>3. CASE UNCHANGED adviceVars
  <2>1. /\ UNCHANGED <<recVars, runs, runlog, experiment, req>>
        /\ UNCHANGED agentVars
    BY <1>3 DEF adviceVars, runVars, experimentVars, agentVars
  <2>2. UNCHANGED <<recs, logs, persist, decider>>
    BY <2>1 DEF recVars
  <2>3. AgentsInv => AgentsInv'
    BY <2>1, AgentsNextInv
  <2>4. ExperimentsInv => ExperimentsInv'
    BY <2>1, <2>2 DEF ExperimentsInv, RecsInv, RecsTypeOK, Traced, Deciding, Writing, WrittenBy,
       OnceForEachCaller, PersistedIsThere, Recommended, RecommendsWinners, PersistsWinners,
       RealTrace, IsReal, Checked, Blank
  <2>5. AgentsOnly => AgentsOnly'
    BY <2>2 DEF AgentsOnly, OfAgents
  <2>6. (RunsAtRest => RunsAtRest') /\ (ExperimentsAtRest => ExperimentsAtRest')
    BY <2>1 DEF RunsAtRest, ExperimentsAtRest
  <2> QED
    BY <1>0, <2>3, <2>4, <2>5, <2>6 DEF AdviceInv
<1> QED
  BY <1>1, <1>2, <1>3, AdviceActs

LEMMA AdviceHolds == WorkspaceSafeSpec => []AdviceInv
<1>1. ASSUME WorkspaceInit PROVE AdviceInv
  <2>1. AgentsInit /\ ExperimentsInit
    BY <1>1, PartsInit
  <2>2. AgentsInv /\ ExperimentsInv
    BY <2>1, AgentsInitInv, ExperimentsInitInv
  <2>3. RunsAtRest /\ ExperimentsAtRest /\ AgentsOnly
    BY <2>1 DEF AgentsInit, ExperimentsInit, RecsInit, RunsAtRest, ExperimentsAtRest, AgentsOnly
  <2> QED
    BY <2>2, <2>3 DEF AdviceInv
<1> QED
  BY <1>1, AdviceStepInv, PTL DEF WorkspaceSafeSpec

(* Whoever calls for a recommendation finds it on record once, with a log  *)
(* that says how it went, and an experiment recommends none but a winner   *)
(* (RecommendationsService, AgentsService, ExperimentsService).            *)
THEOREM AdviceStaysOnRecord == WorkspaceSafeSpec => []AdviceIsOnRecord
<1>1. ASSUME AdviceInv, cast.part = "experiments" PROVE AdviceIsOnRecord
  <2>1. ExperimentsInv /\ RunsAtRest
    BY <1>1 DEF AdviceInv
  <2>2. RunLogIsTrue
    BY <2>1 DEF RunsAtRest, RunLogIsTrue
  <2> QED
    BY <2>1, <2>2, InvGivesWinners DEF AdviceIsOnRecord, ExperimentsInv, RecsInv
<1>2. ASSUME AdviceInv, cast.part # "experiments" PROVE AdviceIsOnRecord
  <2>1. AgentsInv /\ AgentsOnly
    BY <1>2 DEF AdviceInv
  <2>2. WinnersAreReal
    BY <2>1, WorkspaceAssumption DEF AgentsOnly, OfAgents, WinnersAreReal, Recommended
  <2> QED
    BY <2>1, <2>2 DEF AdviceIsOnRecord, AgentsInv, RecsInv
<1>3. AdviceInv => AdviceIsOnRecord
  BY <1>1, <1>2
<1> QED
  BY <1>3, AdviceHolds, PTL

LEMMA ExperimentsDecideNothing ==
  ASSUME ExperimentsNext PROVE UNCHANGED decider
<1> QED
  BY DEF ExperimentsNext, CreateExperiment, ExperimentStep, GetExperiment, LaunchExperiment,
     ArchiveExperiment, AddVariant, RecordResult, CompleteExperiment, Attribute, CompletionEnds,
     ReqStops, PersistStep, FindExisting, LogExecution, CreateInsight, CreateRecommendation,
     LogSuccess, PersistThrows, LogFailure, recVars

(* No decision is lost but by a stale one (transitionRecommendationStatus).*)
THEOREM WorkspaceDecisionsAreKept == WorkspaceSafeSpec => NoDecisionLostUnlessStale
<1>1. UNCHANGED decider => \A d \in Deciders : DecisionKept(d)
  BY DEF DecisionKept
<1>2. ASSUME AdviceInv, [WorkspaceNext]_workspaceVars
      PROVE  [\A d \in Deciders : DecisionKept(d)]_recVars
  <2>1. CASE cast.part = "agents" /\ AgentsNext
    BY <1>2, <2>1, DecisionStep DEF AdviceInv
  <2>2. CASE ExperimentsNext
    BY <1>1, <2>2, ExperimentsDecideNothing
  <2>3. CASE UNCHANGED adviceVars
    BY <2>3 DEF adviceVars
  <2> QED
    BY <1>2, <2>1, <2>2, <2>3, AdviceActs
<1>3. WorkspaceSafeSpec => [][\A d \in Deciders : DecisionKept(d)]_recVars
  BY <1>2, AdviceHolds, PTL DEF WorkspaceSafeSpec
<1> QED
  BY <1>3 DEF NoDecisionLostUnlessStale, DecisionKept

LEMMA ExperimentsOrNot ==
  ASSUME AdviceInv, [WorkspaceNext]_workspaceVars
  PROVE  \/ ExperimentsInv /\ (CreateExperiment \/ \E x \in Experimenters : ExperimentStep(x))
         \/ UNCHANGED experiment
<1> QED
  BY AdviceActs DEF AdviceInv, ExperimentsNext, experimentVars, adviceVars

(* Experiments go through their statuses in one direction                  *)
(* (ExperimentsService).                                                   *)
THEOREM WorkspaceExperimentFlow == WorkspaceSafeSpec => LifeCycleUnlessOvertaken
<1> DEFINE Kept ==
      experiment'.status # experiment.status /\ ~Overtaken =>
          \/ <<experiment.status, experiment'.status>> \in {<<"none", "DRAFT">>, <<"RUNNING", "COMPLETED">>}
          \/ /\ <<experiment.status, experiment'.status>> = <<"DRAFT", "RUNNING">>
             /\ Cardinality(Controls(experiment)) = 1
          \/ experiment'.status = "PAUSED"
<1>1. AdviceInv /\ [WorkspaceNext]_workspaceVars => [Kept]_expVars
  BY ExperimentsOrNot, StatusStep
<1>2. WorkspaceSafeSpec => [][Kept]_expVars
  BY <1>1, AdviceHolds, PTL DEF WorkspaceSafeSpec
<1> QED
  BY <1>2 DEF LifeCycleUnlessOvertaken

(* The arms of an experiment that runs stay what they are                  *)
(* (ExperimentsService).                                                   *)
THEOREM WorkspaceArmsAreKept == WorkspaceSafeSpec => AssignmentSticks
<1> DEFINE Kept ==
      experiment.status # "DRAFT" /\ ~Overtaken =>
          /\ experiment'.variants = experiment.variants
          /\ experiment'.results # experiment.results => experiment.status = "RUNNING"
<1>1. AdviceInv /\ [WorkspaceNext]_workspaceVars => [Kept]_expVars
  BY ExperimentsOrNot, ArmsStep
<1>2. WorkspaceSafeSpec => [][Kept]_expVars
  BY <1>1, AdviceHolds, PTL DEF WorkspaceSafeSpec
<1> QED
  BY <1>2 DEF AssignmentSticks

(* What is read, changed and written back whole loses nothing but by a     *)
(* request whose copy is stale: orders and messages, the checklist, the    *)
(* history of decisions (operations.service.ts:213-260,                    *)
(* onboarding.service.ts:71-85, recommendations.service.ts:64-116).        *)
THEOREM NothingIsLost == WorkspaceSafeSpec => NothingLostUnlessStale
<1> QED
  BY WorkspaceFlowIsKept, WorkspaceNothingUndone, MilestonesAreKept, WorkspaceDecisionsAreKept
  DEF NothingLostUnlessStale

(* Reports and experiments go through their statuses in one direction      *)
(* (reports.service.ts:92-134, experiments.service.ts:113-283).            *)
THEOREM LifeCyclesStay == WorkspaceSafeSpec => LifeCyclesAreKept
<1> QED
  BY WorkspaceCompletedStays, WorkspaceExperimentFlow, WorkspaceArmsAreKept DEF LifeCyclesAreKept

(***************************************************************************)
(* The figures, and the types of the whole workspace                       *)
(***************************************************************************)

(* A figure is computed by one part at a time from tables of its own.      *)
FiguresInv == AnalyticsInv /\ FoundedInv /\ MarketInv /\ GovernanceInv

LEMMA FiguresStepInv == FiguresInv /\ [WorkspaceNext]_workspaceVars => FiguresInv'
<1> SUFFICES ASSUME FiguresInv, [WorkspaceNext]_workspaceVars PROVE FiguresInv'
  OBVIOUS
<1>1. FiguresStep \/ UNCHANGED figureVars
  BY OneActs
<1>2. /\ (\E what : AnalyticsStep(what)) \/ UNCHANGED analyticsVars
      /\ (\E what : InsightsStep(what)) \/ UNCHANGED insightVars
      /\ (\E what : MarketStep(what)) \/ UNCHANGED marketVars
      /\ (\E what : GovernanceStep(what)) \/ UNCHANGED governanceVars
  BY <1>1 DEF FiguresStep, figureVars
<1>3. AnalyticsInv'
  BY <1>2, AnalyticsStepInv, AnalyticsUnchanged DEF FiguresInv
<1>4. FoundedInv'
  BY <1>2, FoundedStepInv, FoundedUnchanged DEF FiguresInv
<1>5. MarketInv'
  BY <1>2, MarketStepInv, MarketInvUnchanged DEF FiguresInv
<1>6. GovernanceInv'
  BY <1>2, GovernanceStepInv, GovernanceUnchanged DEF FiguresInv
<1> QED
  BY <1>3, <1>4, <1>5, <1>6 DEF FiguresInv

LEMMA FiguresHold == WorkspaceSafeSpec => []FiguresInv
<1>1. WorkspaceInit => FiguresInv
  BY AnalyticsInitInv, FoundedInitInv, MarketInitInv, GovernanceInitInv
  DEF WorkspaceInit, FiguresInv
<1> QED
  BY <1>1, FiguresStepInv, PTL DEF WorkspaceSafeSpec

(* Of a part of the advice that is not at work there is what it began with.*)
LEMMA AdviceTyped == AdviceInv => AgentsTypeOK /\ ExperimentsTypeOK
<1>1. ASSUME AdviceInv, cast.part = "experiments" PROVE AgentsTypeOK /\ ExperimentsTypeOK
  <2>1. ExperimentsInv /\ RunsAtRest
    BY <1>1 DEF AdviceInv
  <2>2. RecsTypeOK /\ experiment \in Experiment /\ req \in [Experimenters -> Req]
    BY <2>1 DEF ExperimentsInv, RecsInv
  <2>3. IdleRun \in Run /\ "none" \in ExecutionStatus
    BY DEF IdleRun, Run, RunPc, ExecutionStatus
  <2>4. runs \in [Runners -> Run] /\ runlog \in [Runners -> ExecutionStatus]
    BY <2>1, <2>3 DEF RunsAtRest
  <2> QED
    BY <2>2, <2>4 DEF AgentsTypeOK, ExperimentsTypeOK
<1>2. ASSUME AdviceInv, cast.part # "experiments" PROVE AgentsTypeOK /\ ExperimentsTypeOK
  <2>1. AgentsInv /\ ExperimentsAtRest
    BY <1>2 DEF AdviceInv
  <2>2. AgentsTypeOK
    BY <2>1 DEF AgentsInv, RecsInv, AgentsTypeOK
  <2>3. experiment \in Experiment /\ req \in [Experimenters -> Req]
    BY <2>1, NewIsExperiment DEF ExperimentsAtRest
  <2> QED
    BY <2>2, <2>3 DEF AgentsTypeOK, ExperimentsTypeOK
<1> QED
  BY <1>1, <1>2

LEMMA CastHolds == WorkspaceSafeSpec => [](cast \in Casts)
<1>1. WorkspaceInit => cast \in Casts
  BY DEF WorkspaceInit
<1>2. cast \in Casts /\ [WorkspaceNext]_workspaceVars => (cast \in Casts)'
  BY OneActs
<1> QED
  BY <1>1, <1>2, PTL DEF WorkspaceSafeSpec

LEMMA MembersInvHolds == MembersSpec => []MembersInv
BY MembersInitInv, MembersStepInv, PTL DEF MembersSpec

(* Every table and every request of a workspace is of its type, whoever is *)
(* at work (the services, the jobs and the pages of apps/api and apps/web).*)
THEOREM WorkspaceTypeCorrect == WorkspaceSafeSpec => []WorkspaceTypeOK
<1>1. OfficeInv => OpsTypeOK /\ ReportsTypeOK
  BY DEF OfficeInv, OpsInv, RowsInv
<1>2. MetricsInv => VerifiedMetricsTypeOK
  BY MetricsInvAgrees
<1>3. MembersInv => MembersTypeOK
  BY DEF MembersInv
<1>4. RecordsInv => RecordsTypeOK
  BY DEF RecordsInv
<1>5. FiguresInv => AnalyticsTypeOK /\ InsightsTypeOK /\ MarketTypeOK /\ GovernanceTypeOK
  BY DEF FiguresInv, AnalyticsInv, FoundedInv, InsightsInv, MarketInv, GovernanceInv
<1>6. NavInv /\ DashboardInv /\ CopilotInv /\ CompetitiveInv
      => NavigationTypeOK /\ DashboardTypeOK /\ CopilotTypeOK /\ CompetitiveTypeOK
  BY CopilotInvGives, CompetitiveInvGives DEF NavInv, DashboardInv
<1>7. CrawlerInv => CrawlerTypeOK
  BY CrawlerInvGives
<1>8. /\ cast \in Casts /\ OfficeInv /\ AlertsTypeOK /\ AdviceInv /\ MetricsInv /\ MembersInv
      /\ RecordsInv /\ FiguresInv /\ NavInv /\ DashboardInv /\ CopilotInv /\ CompetitiveInv
      /\ CrawlerInv
      => WorkspaceTypeOK
  BY <1>1, <1>2, <1>3, <1>4, <1>5, <1>6, <1>7, AdviceTyped, Zenon DEF WorkspaceTypeOK
<1>9. WorkspaceSafeSpec => [](/\ cast \in Casts /\ OfficeInv /\ AlertsTypeOK /\ AdviceInv /\ MetricsInv
                              /\ MembersInv /\ RecordsInv /\ FiguresInv)
  BY CastHolds, OfficeHolds, AlertsGoOn, AlertsTypeCorrect, AdviceHolds, MetricsGoOn, MetricsInvHolds,
     AccountsGoOn, MembersInvHolds, ImportsGoOn, RecordsInvHolds, FiguresHold, PTL
<1>10. WorkspaceSafeSpec => [](NavInv /\ DashboardInv /\ CopilotInv /\ CompetitiveInv /\ CrawlerInv)
  BY PagesGoOn, NavInvHolds, DashboardInvHolds, CopilotInvHolds, CompetitiveInvHolds, CrawlerHolds, PTL
<1> QED
  BY <1>8, <1>9, <1>10, PTL

(* Each part's figures are what they should be whoever is at work.         *)
LEMMA CalculationsAgree ==
  WorkspaceSafeSpec => [](MetricsAddUp /\ AdviceIsFounded /\ MarketIsCounted /\ SuccessMetricsAreRates)
<1>1. FiguresInv => MetricsAddUp /\ AdviceIsFounded /\ SuccessMetricsAreRates
  BY MetricsHold, FoundedInvGives, GovernanceInvRates DEF FiguresInv
<1>2. FiguresInv => MarketIsCounted
  BY CountsAgree, InOrderOfScenarios, GraphHangsTogether, BenchmarksFound DEF FiguresInv, MarketIsCounted
<1>3. FiguresInv => MetricsAddUp /\ AdviceIsFounded /\ MarketIsCounted /\ SuccessMetricsAreRates
  BY <1>1, <1>2
<1> QED
  BY <1>3, FiguresHold, PTL

(* What is computed beside the recommendations adds up, whatever rows are  *)
(* written and in whichever order.  The metrics of overlapping requests    *)
(* agree and are what the audit expects, for any months and ranges         *)
(* (analytics.service.ts:349-749, 831-940, forecasting.ts:6-55,            *)
(* audit-aggregation.ts:287-675); a metric has one anomaly a day, and      *)
(* advice needs fresh data and all of its metrics                          *)
(* (data-quality.service.ts:55-276); a benchmark is found where one covers *)
(* what is asked, with quartiles in order that split the figures as they   *)
(* say, and the counts of signals agree, as do scenarios and the graph     *)
(* (benchmark-aggregation.service.ts:14-115,                               *)
(* competitive.service.ts:195-465); and success metrics are rates.         *)
THEOREM FiguresAreSound == WorkspaceSafeSpec => []CalculationsHold
<1>1. MetricsAddUp /\ AdviceIsFounded /\ MarketIsCounted /\ SuccessMetricsAreRates => CalculationsHold
  BY DEF CalculationsHold
<1> QED
  BY <1>1, CalculationsAgree, PTL
=============================================================================
