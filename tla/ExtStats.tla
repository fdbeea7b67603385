-------------------------------- MODULE ExtStats --------------------------------
(***************************************************************************)
(* The traffic counters of the hosted tunnels (lib/tunnel-stats.js), as    *)
(* the offscreen document keeps, samples and resets them (offscreen.js).   *)
(* Streams come and go, their handlers count through the wrapper of the    *)
(* stream, and once a second every tunnel is sampled and the rates since   *)
(* the sample before are told to the popup.                                *)
(***************************************************************************)
EXTENDS Integers, Sequences, FiniteSets

CONSTANTS
  Metered,               \* tunnels
  MaxTraffic,            \* bound: streams, reads and writes, and closings of streams
  MaxSamples             \* bound: samples, resets, starts and stops

ASSUME StatsAssumption == IsFiniteSet(Metered) /\ MaxTraffic \in Nat /\ MaxSamples \in Nat

VARIABLES
  meter,                 \* the TunnelStats of each tunnel
  linked,                \* connection.connected
  streams,               \* streams that are open
  told,                  \* the last messages to the popup
  traffic, samples       \* how much there was (bounds)

extStats == <<meter, linked, streams, told, traffic, samples>>

Nowhere == [input |-> -1, output |-> -1, requests |-> -1]
TunnelStats == [input |-> 0, output |-> 0, total |-> 0, current |-> 0, requests |-> 0, last |-> Nowhere]

Traffic == traffic < MaxTraffic /\ traffic' = traffic + 1
Sampling == samples < MaxSamples /\ samples' = samples + 1

---------------------------------------------------------------------------
(* Counting.                                                               *)

Decremented(n) == IF n > 0 THEN n - 1 ELSE 0
MarkRequest(t) ==
  /\ Traffic /\ linked[t]
  /\ meter' = [meter EXCEPT ![t].requests = @ + 1, ![t].total = @ + 1, ![t].current = @ + 1]
  /\ streams' = [streams EXCEPT ![t] = @ + 1]
  /\ UNCHANGED <<linked, told, samples>>
CountsRead(t) ==
  /\ Traffic /\ streams[t] > 0 /\ meter' = [meter EXCEPT ![t].input = @ + 1]
  /\ UNCHANGED <<linked, streams, told, samples>>
CountsWrite(t) ==
  /\ Traffic /\ streams[t] > 0 /\ meter' = [meter EXCEPT ![t].output = @ + 1]
  /\ UNCHANGED <<linked, streams, told, samples>>
\* a handler may close its stream more than once, and each time counts
CountsClose(t, again) ==
  /\ Traffic /\ streams[t] > 0 /\ meter' = [meter EXCEPT ![t].current = Decremented(@)]
  /\ streams' = [streams EXCEPT ![t] = IF again THEN @ ELSE @ - 1]
  /\ UNCHANGED <<linked, told, samples>>

---------------------------------------------------------------------------
(* Sampling.                                                               *)

Mark(m) == [input |-> m.input, output |-> m.output, requests |-> m.requests]
Snapshot(t, m) ==
  LET rate(now, before) == IF m.last = Nowhere THEN 0 ELSE now - before
  IN  [t |-> t, stats |->
        [input |-> m.input, output |-> m.output, current |-> m.current, total |-> m.total,
         inputRate |-> rate(m.input, m.last.input), outputRate |-> rate(m.output, m.last.output),
         connsRate |-> rate(m.requests, m.last.requests)]]
Sample(m) == [m EXCEPT !.last = Mark(m)]

\* every second; a tunnel without a connection is sampled and not told of
SampleAllStats ==
  /\ Sampling
  /\ meter' = [t \in Metered |-> Sample(meter[t])]
  /\ \E order \in [1..Cardinality({t \in Metered : linked[t]}) -> {t \in Metered : linked[t]}] :
       /\ \A i, j \in DOMAIN order : order[i] = order[j] => i = j
       /\ told' = told \o [i \in DOMAIN order |-> Snapshot(order[i], meter[order[i]])]
  /\ UNCHANGED <<linked, streams, traffic>>

(* Mutant: the counters start over, the sample before stays *)
ResetCounters(m) == [TunnelStats EXCEPT !.last = m.last]

Reset(m) == TunnelStats
\* the message reset-stats: the new sample is told at once
ResetStats(t) ==
  /\ Sampling
  /\ meter' = [meter EXCEPT ![t] = Sample(Reset(meter[t]))]
  /\ told' = Append(told, Snapshot(t, Reset(meter[t])))
  /\ UNCHANGED <<linked, streams, traffic>>

\* the tunnel is stopped and started again, or its connection is lost or back; what
\* the streams of before still count goes to the counters of before
Restarted(t) ==
  /\ Sampling /\ meter' = [meter EXCEPT ![t] = TunnelStats] /\ linked' = [linked EXCEPT ![t] = FALSE]
  /\ streams' = [streams EXCEPT ![t] = 0]
  /\ UNCHANGED <<told, traffic>>
Links(t) ==
  /\ linked' = [linked EXCEPT ![t] = ~@]
  /\ UNCHANGED <<meter, streams, told, traffic, samples>>

---------------------------------------------------------------------------
StatsInit ==
  /\ meter = [t \in Metered |-> TunnelStats] /\ linked = [t \in Metered |-> FALSE]
  /\ streams = [t \in Metered |-> 0] /\ told = <<>> /\ traffic = 0 /\ samples = 0

Meters(t) == MarkRequest(t) \/ CountsRead(t) \/ CountsWrite(t) \/ \E again \in BOOLEAN : CountsClose(t, again)
StatsNext == SampleAllStats \/ \E t \in Metered : Meters(t) \/ ResetStats(t) \/ Restarted(t) \/ Links(t)

---------------------------------------------------------------------------
(* What the popup is told makes sense, across resets, restarts and lost     *)
(* connections: no rate is negative or more than all the traffic there was, *)
(* and no more connections are open than there were (tunnel-stats.js).      *)
Sane(s) ==
  /\ 0 <= s.inputRate /\ s.inputRate <= s.input /\ 0 <= s.outputRate /\ s.outputRate <= s.output
  /\ 0 <= s.connsRate /\ s.connsRate <= s.total /\ s.current <= s.total
RatesAreSane == \A i \in DOMAIN told : Sane(told[i].stats)
=============================================================================
