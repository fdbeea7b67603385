-------------------------------- MODULE WebProbes --------------------------------
(***************************************************************************)
(* The tests of the settings page (pages/settings-page.ts): the relay and  *)
(* the STUN server that are typed into it are tried by the daemon, the     *)
(* diagnostic report is fetched, and the inspector is asked by the browser *)
(* itself, half a second after its address was typed.  Each has its place  *)
(* on the page; what is typed, saved or notified in between does not stop  *)
(* what is under way, so a verdict may come for an address that is not     *)
(* there any more.                                                         *)
(***************************************************************************)
EXTENDS Naturals, FiniteSets

CONSTANT MaxProbeActs    \* bound: what the user does, and notifications

ASSUME ProbesAssumption == MaxProbeActs \in Nat

VARIABLES
  saved,                 \* the addresses of the settings
  fields,                \* the rows of the page
  due,                   \* the inspector's address was typed, the timer runs
  tests,                 \* under way
  leftProbes,            \* the page was left
  probeActs

probeVars == <<saved, fields, due, tests, leftProbes, probeActs>>

Testable == {"relay", "stun", "inspector"}
Buttons == {"relay", "stun", "doctor"}     \* the ones that wait for their answer
Unset == 0                                \* an empty address
ProbeAct == probeActs < MaxProbeActs /\ probeActs' = probeActs + 1

---------------------------------------------------------------------------
(* What the page shows.                                                    *)

NoVerdict == [told |-> FALSE, ok |-> FALSE, of |-> Unset]
Verdict(ok, address) == [told |-> TRUE, ok |-> ok, of |-> address]
FreshRow(address) == [address |-> address, testing |-> FALSE, verdict |-> NoVerdict]
\* _renderProbeRow: the dot, and whether the button can be pressed
Dot(what) == IF ~fields[what].verdict.told THEN "untested" ELSE IF fields[what].verdict.ok THEN "ok" ELSE "failed"
CanTest(what) == ~leftProbes /\ (what \in Buttons => ~fields[what].testing)

---------------------------------------------------------------------------
(* Typing, and what the store tells.                                       *)

\* another address, or another way to reach it, is not tested yet
TypeAddress(what, address) ==
  /\ ~leftProbes /\ ProbeAct /\ what \in {"relay", "stun"}
  /\ fields' = [fields EXCEPT ![what].address = address, ![what].verdict = NoVerdict]
  /\ UNCHANGED <<saved, due, tests, leftProbes>>
\* _onInspectorUrlChange
TypeInspector(address) ==
  /\ ~leftProbes /\ ProbeAct /\ fields' = [fields EXCEPT !["inspector"].address = address] /\ due' = TRUE
  /\ UNCHANGED <<saved, tests, leftProbes>>
\* A save, or the settings that arrive, sets every field, and leaves the verdicts;
\* the inspector's address is saved by itself.
Refilled(addresses) ==
  [w \in DOMAIN fields |-> IF w \in Testable THEN [fields[w] EXCEPT !.address = addresses[w]] ELSE fields[w]]
SaveAddresses(part) ==
  /\ ~leftProbes /\ ProbeAct /\ saved' = [w \in Testable |-> IF w \in part THEN fields[w].address ELSE saved[w]]
  /\ UNCHANGED <<fields, due, tests, leftProbes>>
SettingsNotify ==
  /\ ~leftProbes /\ ProbeAct /\ fields' = Refilled(saved) /\ UNCHANGED <<saved, due, tests, leftProbes>>

---------------------------------------------------------------------------
(* Tests.                                                                  *)

\* _testP2P, _testStun, _runDoctor: the verdict there is goes, but for the report
Testing(what) ==
  [fields EXCEPT ![what].testing = TRUE, ![what].verdict = IF what = "doctor" THEN @ ELSE NoVerdict]
\* testP2PRelay, testP2PStun, getP2PDoctor: what is typed is tried, not what is saved
Asked(what) == [what |-> what, of |-> fields[what].address]
Press(what) ==
  /\ what \in Buttons /\ CanTest(what) /\ ProbeAct /\ fields' = Testing(what)
  /\ tests' = tests \union {Asked(what)}
  /\ UNCHANGED <<saved, due, leftProbes>>
\* _checkLiveness: no address, no test
CheckLiveness ==
  IF fields["inspector"].address = Unset
  THEN fields' = [fields EXCEPT !["inspector"].verdict = NoVerdict] /\ UNCHANGED tests
  ELSE tests' = tests \union {Asked("inspector")} /\ UNCHANGED fields
PressInspector == CanTest("inspector") /\ ProbeAct /\ CheckLiveness /\ UNCHANGED <<saved, due, leftProbes>>
TypingEnds == due /\ due' = FALSE /\ CheckLiveness /\ UNCHANGED <<saved, leftProbes, probeActs>>

(* Mutant: a test that gets no answer leaves its button disabled *)
ProbeEndsIfAnswered(c, ok) ==
  /\ tests' = tests \ {c} /\ fields' = [fields EXCEPT ![c.what].verdict = Verdict(ok, c.of), ![c.what].testing = ~ok]
  /\ UNCHANGED <<saved, due, leftProbes, probeActs>>

\* a refusal, or no answer, is a verdict too
ProbeEnds(c, ok) ==
  /\ tests' = tests \ {c} /\ fields' = [fields EXCEPT ![c.what].verdict = Verdict(ok, c.of), ![c.what].testing = FALSE]
  /\ UNCHANGED <<saved, due, leftProbes, probeActs>>

\* disconnectedCallback
LeaveProbes ==
  /\ ~leftProbes /\ leftProbes' = TRUE /\ due' = FALSE /\ UNCHANGED <<saved, fields, tests, probeActs>>

---------------------------------------------------------------------------
ProbesInit ==
  /\ saved = [w \in Testable |-> Unset] /\ fields = [w \in Testable \union Buttons |-> FreshRow(Unset)]
  /\ due = FALSE /\ tests = {} /\ leftProbes = FALSE /\ probeActs = 0
ProbesNext ==
  \/ SettingsNotify \/ PressInspector \/ TypingEnds \/ LeaveProbes
  \/ \E what \in Buttons : Press(what)
  \/ \E part \in {{"relay", "stun"}, {"inspector"}} : SaveAddresses(part)
  \/ \E address \in 0..2 : TypeInspector(address) \/ \E what \in {"relay", "stun"} : TypeAddress(what, address)
  \/ \E c \in tests, ok \in BOOLEAN : ProbeEnds(c, ok)
\* every test is answered or given up
ProbesFairness == WF_probeVars(\E c \in tests, ok \in BOOLEAN : ProbeEnds(c, ok))

(* A button that starts a test can be pressed again, however the test ends  *)
(* and whatever is typed or notified meanwhile; there is never a second     *)
(* test of the same thing under way, whose verdict would be taken for the   *)
(* first; and while one is, no verdict of an earlier one is shown           *)
(* (settings-page.ts _testP2P, _testStun, _runDoctor, _renderProbeRow).     *)
UnderWay(what) == Cardinality({c \in tests : c.what = what})
TestsTold ==
  /\ []<>(\A what \in Buttons : ~fields[what].testing)
  /\ [](\A what \in Buttons :
          /\ UnderWay(what) = IF fields[what].testing THEN 1 ELSE 0
          /\ fields[what].testing /\ what # "doctor" => Dot(what) = "untested")
=============================================================================
