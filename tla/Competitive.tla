----------------------------- MODULE Competitive -----------------------------
(***************************************************************************)
(* Competitor signals: the service that files them and the page that lists *)
(* them, with its trend, its comparison and its alert rules.  Requests of  *)
(* the page are answered in any order or fail; nothing cancels them.  A    *)
(* signal is what createSignal compares: competitor, type, value, source   *)
(* and date.                                                               *)
(*                                                                         *)
(* The operators named Bug... are faulty variants of definitions after     *)
(* them; no specification uses them.                                       *)
(***************************************************************************)
EXTENDS Naturals, Sequences, FiniteSets, SequencesExt

CONSTANTS
    Analysts,   \* users that add signals on the page
    Signals,    \* what they may add
    Panels,     \* a subset of {"trends", "comparison"}: tabs that load on their filter
    Filters,    \* the filters of a panel
    Watches,    \* alert rules that may be on the page
    MaxAsked,   \* bound: unanswered requests of a panel
    NoFilter    \* nothing is shown

ASSUME CompetitiveAssumption ==
    /\ Panels \subseteq {"trends", "comparison"}
    /\ Filters # {}
    /\ NoFilter \notin Filters \cup Watches \cup Signals
    /\ MaxAsked \in Nat

VARIABLES
    signals,    \* the rows of competitor_signals, and whose request made them
    form,       \* the signal form of each analyst, and the list under it
    tab,        \* the open tab of one page
    panel,      \* its panels
    watch       \* its alert rules, their results and the running evaluation

competitiveVars == <<signals, form, tab, panel, watch>>

FormPc == {"open", "find", "create", "reload", "loading"}
Form == [pc : FormPc, draft : Signals \cup {NoFilter}, saved : SUBSET Signals,
         list : SUBSET Signals, stale : BOOLEAN]
(* settled is a ghost: the newest request was the last to be answered.     *)
Panel == [filter : Filters, data : Filters \cup {NoFilter}, asked : Seq(Filters),
          loading : BOOLEAN, newest : BOOLEAN, settled : BOOLEAN]
(* changed and late are ghosts: the rules changed while they were being    *)
(* evaluated, and so did those of the results.                             *)
NoRules == {NoFilter}
Watch == [rules : SUBSET Watches, results : (SUBSET Watches) \cup {NoRules},
          asked : (SUBSET Watches) \cup {NoRules},
          changed : BOOLEAN, late : BOOLEAN]

CompetitiveTypeOK ==
    /\ signals \in Seq([signal : Signals, by : Analysts])
    /\ form \in [Analysts -> Form]
    /\ tab \in Panels \cup {"overview"}
    /\ panel \in [Panels -> Panel]
    /\ watch \in Watch

CompetitiveInit ==
    /\ signals = <<>>
    /\ form = [a \in Analysts |-> [pc |-> "open", draft |-> NoFilter, saved |-> {},
                                   list |-> {}, stale |-> FALSE]]
    /\ tab = "overview"
    /\ panel = [p \in Panels |-> [filter |-> CHOOSE f \in Filters : TRUE, data |-> NoFilter,
                   asked |-> <<>>, loading |-> FALSE, newest |-> FALSE, settled |-> FALSE]]
    /\ watch = [rules |-> Watches, results |-> NoRules, asked |-> NoRules,
                changed |-> FALSE, late |-> FALSE]

-----------------------------------------------------------------------------
(* Adding a signal *)

FormOnly == UNCHANGED <<signals, tab, panel, watch>>
Filed == {signals[k].signal : k \in DOMAIN signals}

(* The button of the form is disabled while it is saved and reloaded.      *)
SaveSignal(a) ==
    /\ form[a].pc = "open"
    /\ \E s \in Signals :
           form' = [form EXCEPT ![a].pc = "find", ![a].draft = s]
    /\ FormOnly

BugNotFound(a) ==
    /\ form[a].pc = "find"
    /\ form' = [form EXCEPT ![a].pc = "create"]
    /\ FormOnly

(* createSignal of the service: the signal that exists is answered. *)
FindSignal(a) ==
    /\ form[a].pc = "find"
    /\ form' = [form EXCEPT ![a].pc = IF form[a].draft \in Filed THEN "reload" ELSE "create"]
    /\ FormOnly

BugNotInserted(a) ==
    /\ form[a].pc = "create"
    /\ form' = [form EXCEPT ![a].pc = "reload"]
    /\ FormOnly

InsertSignal(a) ==
    /\ form[a].pc = "create"
    /\ signals' = Append(signals, [signal |-> form[a].draft, by |-> a])
    /\ form' = [form EXCEPT ![a].pc = "reload"]
    /\ UNCHANGED <<tab, panel, watch>>
(* The page says that it failed, also when only the answer was lost.       *)
SaveFails(a) ==
    /\ form[a].pc \in {"find", "create", "reload"}
    /\ form' = [form EXCEPT ![a].pc = "open", ![a].draft = NoFilter]
    /\ FormOnly

(* The answer arrives, the form is emptied and loadData runs; its three    *)
(* reads are one here.  An error of it is shown, and the list stays.       *)
SignalSaved(a) ==
    /\ form[a].pc = "reload"
    /\ form' = [form EXCEPT ![a].pc = "loading", ![a].draft = NoFilter,
                            ![a].saved = @ \cup {form[a].draft}]
    /\ FormOnly
LoadData(a, ok) ==
    /\ form[a].pc = "loading"
    /\ form' = [form EXCEPT ![a].pc = "open", ![a].list = IF ok THEN Filed ELSE @,
                            ![a].stale = ~ok]
    /\ FormOnly

FormStep(a) ==
    \/ SaveSignal(a) \/ FindSignal(a) \/ InsertSignal(a) \/ SaveFails(a)
    \/ SignalSaved(a) \/ \E ok \in BOOLEAN : LoadData(a, ok)

-----------------------------------------------------------------------------
(* The trend and the comparison *)

PanelOnly == UNCHANGED <<signals, form, watch>>

BugFilterBefore(pnl, filter) ==
    [pnl EXCEPT !.filter = filter, !.asked = Append(@, pnl.filter), !.loading = TRUE,
                !.newest = TRUE, !.settled = FALSE]

(* loadTrend, loadComparison: called by the effect when the tab is opened  *)
(* or the filter of the open tab changes, and by the refresh button.       *)
Load(pnl, filter) ==
    [pnl EXCEPT !.filter = filter, !.asked = Append(@, filter), !.loading = TRUE,
                !.newest = TRUE, !.settled = FALSE]
MayAsk(p) == Len(panel[p].asked) < MaxAsked

OpenTab(t) ==
    /\ t # tab /\ tab' = t
    /\ IF t \in Panels
       THEN MayAsk(t) /\ panel' = [panel EXCEPT ![t] = Load(@, @.filter)]
       ELSE UNCHANGED panel
    /\ PanelOnly
ChangeFilter(filter) ==
    /\ tab \in Panels /\ MayAsk(tab)
    /\ panel' = [panel EXCEPT ![tab] = Load(@, filter)]
    /\ UNCHANGED tab /\ PanelOnly

BugSpinnerKept(p, k, ok) ==
    LET pnl == panel[p]
        isNewest == pnl.newest /\ k = Len(pnl.asked)
    IN  /\ k \in DOMAIN pnl.asked
        /\ panel' = [panel EXCEPT ![p] =
               [pnl EXCEPT !.data = IF ok THEN pnl.asked[k] ELSE @,
                           !.asked = RemoveAt(@, k),
                           !.loading = ~ok,
                           !.newest = @ /\ ~isNewest,
                           !.settled = isNewest /\ ok]]
        /\ UNCHANGED tab /\ PanelOnly

(* An answer is shown whatever was asked since; an error says nothing.     *)
PanelAnswers(p, k, ok) ==
    LET pnl == panel[p]
        isNewest == pnl.newest /\ k = Len(pnl.asked)
    IN  /\ k \in DOMAIN pnl.asked
        /\ panel' = [panel EXCEPT ![p] =
               [pnl EXCEPT !.data = IF ok THEN pnl.asked[k] ELSE @,
                           !.asked = RemoveAt(@, k),
                           !.loading = FALSE,
                           !.newest = @ /\ ~isNewest,
                           !.settled = isNewest /\ ok]]
        /\ UNCHANGED tab /\ PanelOnly

PanelStep ==
    \/ \E t \in Panels \cup {"overview"} : OpenTab(t)
    \/ \E f \in Filters : ChangeFilter(f)
    \/ \E p \in Panels, ok \in BOOLEAN : \E k \in 1..MaxAsked : PanelAnswers(p, k, ok)

-----------------------------------------------------------------------------
(* The alert rules of the page *)

WatchOnly == UNCHANGED <<signals, form, tab, panel>>

BugResultsKept(rules) ==
    [watch EXCEPT !.rules = rules, !.changed = watch.asked # NoRules]

(* addAlertRule and removeAlertRule *)
ChangeRules(rules) ==
    [watch EXCEPT !.rules = rules, !.results = NoRules, !.changed = watch.asked # NoRules]
AddAlertRule(w) ==
    /\ w \notin watch.rules
    /\ watch' = ChangeRules(watch.rules \cup {w})
    /\ WatchOnly
RemoveAlertRule(w) ==
    /\ w \in watch.rules
    /\ watch' = ChangeRules(watch.rules \ {w})
    /\ WatchOnly

(* handleEvaluateAlerts; the button is disabled while it runs. *)
EvaluateAlerts ==
    /\ watch.asked = NoRules /\ watch.rules # {}
    /\ watch' = [watch EXCEPT !.asked = watch.rules, !.changed = FALSE]
    /\ WatchOnly
AlertsEvaluated(ok) ==
    /\ watch.asked # NoRules
    /\ watch' = [watch EXCEPT !.results = IF ok THEN watch.asked ELSE @, !.asked = NoRules,
                               !.late = IF ok THEN watch.changed ELSE @]
    /\ WatchOnly

WatchStep ==
    \/ \E w \in Watches : AddAlertRule(w) \/ RemoveAlertRule(w)
    \/ EvaluateAlerts \/ \E ok \in BOOLEAN : AlertsEvaluated(ok)

CompetitiveNext == (\E a \in Analysts : FormStep(a)) \/ PanelStep \/ WatchStep
CompetitiveSpec == CompetitiveInit /\ [][CompetitiveNext]_competitiveVars

-----------------------------------------------------------------------------
(* Safety *)

(* An analyst that saves a signal again, because the first answer was lost *)
(* or because it is listed already, makes no second row: two rows of one   *)
(* signal are of two analysts (competitive.service.ts:83-109).              *)
FiledOnceByEach ==
    \A j, k \in DOMAIN signals :
        j # k /\ signals[j].signal = signals[k].signal => signals[j].by # signals[k].by

(* What the page called saved is filed, and it is in the list as soon as   *)
(* the list was loaded, whoever else adds signals                          *)
(* (competitive/page.tsx:310-328, 415-446).                                *)
SavedIsListed ==
    \A a \in Analysts :
        /\ form[a].saved \subseteq Filed
        /\ form[a].pc = "open" /\ ~form[a].stale => form[a].saved \subseteq form[a].list

(* An open panel shows the data of its filter once its newest request was  *)
(* answered, unless an older answer came after it: no change of a filter   *)
(* is without a request of its own (competitive/page.tsx:338-381).         *)
PanelShowsItsFilter ==
    \A p \in Panels : panel[p].settled => panel[p].data = panel[p].filter

(* A panel does not show a spinner for ever: when it does, an answer is on *)
(* its way (competitive/page.tsx:338-381).                                 *)
PanelSpinnerStops == \A p \in Panels : panel[p].loading => panel[p].asked # <<>>

(* The results on the page are those of the rules beside them, unless the  *)
(* rules were changed while they were evaluated                            *)
(* (competitive/page.tsx:462-495).                                         *)
ResultsAreOfTheRules ==
    watch.results # NoRules => watch.results = watch.rules \/ watch.late
===============================================================================
