-------------------------------- MODULE ExtApp --------------------------------
(***************************************************************************)
(* The browser extension around its stored tunnels.  Its parts share no   *)
(* state but the status of a tunnel, which each of them takes as it comes, *)
(* so that they are explored one at a time: the tunnels across popup,      *)
(* worker and document (ExtTunnels), the page of the popup (ExtPopup), the *)
(* counters of the document (ExtStats), and the worker's badge and rules   *)
(* (ExtRules).                                                             *)
(***************************************************************************)
EXTENDS ExtTunnels, ExtPopup, ExtStats, ExtRules

VARIABLE scenario        \* the part that runs

appVars == <<vars, extPopup, extStats, extRules, scenario>>

PopupIdle ==
  /\ settings = Default /\ sysDark = FALSE /\ pop = Shut /\ clicks = 0
  /\ stored = [t \in Cards |-> NoCard]
RulesIdle ==
  /\ rules = Foreign /\ kept = [t \in Rewriters |-> Gone]
  /\ sync = [at |-> "done", active |-> {}, stale |-> {}] /\ updates = <<>> /\ badge = 0 /\ writes = 0

AppInit ==
  /\ Init /\ StatsInit
  /\ \/ scenario \in {"tunnels", "stats"} /\ PopupIdle /\ RulesIdle
     \/ scenario = "popup" /\ PopupInit /\ RulesIdle
     \/ scenario = "rules" /\ PopupIdle /\ RulesInit

AppNext ==
  \/ scenario = "tunnels" /\ Next /\ UNCHANGED <<extPopup, extStats, extRules, scenario>>
  \/ scenario = "popup" /\ PopupNext /\ UNCHANGED <<vars, extStats, extRules, scenario>>
  \/ scenario = "stats" /\ StatsNext /\ UNCHANGED <<vars, extPopup, extRules, scenario>>
  \/ scenario = "rules" /\ RulesNext /\ UNCHANGED <<vars, extPopup, extStats, scenario>>

\* The fairness of ExtTunnels.  The rules and the page of the popup promise nothing
\* that must happen.
AppSpec == AppInit /\ [][AppNext]_appVars /\ Fairness
=============================================================================
