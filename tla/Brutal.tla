------------------------------- MODULE Brutal -------------------------------
(***************************************************************************)
(* The congestion controller of a connection (AdaptiveCongestion): BBR or  *)
(* Reno until set_brutal_bandwidth, called by the handshake's task, turns  *)
(* Brutal on, while QUIC's driver reports acknowledgements and losses.     *)
(* Brutal paces at bandwidth / ack rate, the rate taken from a ring of one *)
(* slot per second.                                                        *)
(***************************************************************************)
EXTENDS Integers, FiniteSets, FiniteSetsExt

CONSTANTS
  SampleSlots,      \* SAMPLE_SLOT_COUNT; 5 in the code
  MinSamples,       \* MIN_SAMPLE_COUNT; 50 in the code
  MaxSeconds,       \* bound on the clock
  MaxSamples        \* bound on the packets reported in one second

ASSUME BrutalAssumption == SampleSlots \in Nat \ {0} /\ MaxSeconds \in Nat

MinRate == <<4, 5>>
Never == -1          \* a slot that was never used

VARIABLES
  compensate,       \* ~disable_loss_compensation
  enabled, bandwidth,   \* BrutalControl
  second,           \* seconds since the connection began
  slots,            \* per slot: timestamp, ack_count, loss_count
  ackRate,          \* <<ack_rate_numerator, ack_rate_denominator>>
  updated,          \* the second of the last update_ack_rate, or Never
  history           \* per second, the packets reported to Brutal

brutalVars == <<compensate, enabled, bandwidth, second, slots, ackRate, updated, history>>

Info(t, a, l) == [timestamp |-> t, acks |-> a, losses |-> l]
SlotSet == 0 .. SampleSlots - 1
SumOf(f, set) == MapThenSumSet(LAMBDA i : f[i], set)

BrutalInit ==
  /\ compensate \in BOOLEAN /\ enabled = FALSE /\ bandwidth = 0 /\ second = 0
  /\ slots = [i \in SlotSet |-> Info(Never, 0, 0)]
  /\ ackRate = <<1, 1>> /\ updated = Never
  /\ history = [s \in 0 .. MaxSeconds |-> Info(s, 0, 0)]

(* The rate for so many acknowledgements and losses. *)
RateFor(acks, losses) ==
  IF ~compensate \/ acks + losses < MinSamples THEN <<1, 1>>
  ELSE IF acks * MinRate[2] < (acks + losses) * MinRate[1] THEN MinRate
  ELSE <<acks, acks + losses>>

(* Mutant: every slot counts, however old. *)
UpdateAckRateAll(ring, timestamp) ==
  RateFor(SumOf([i \in SlotSet |-> ring[i].acks], SlotSet),
          SumOf([i \in SlotSet |-> ring[i].losses], SlotSet))

UpdateAckRate(ring, timestamp) ==
  LET recent == {i \in SlotSet : /\ ring[i].timestamp # Never
                                 /\ ring[i].timestamp >= timestamp - SampleSlots} IN
  RateFor(SumOf([i \in SlotSet |-> ring[i].acks], recent),
          SumOf([i \in SlotSet |-> ring[i].losses], recent))

(* record: a slot of an earlier round is overwritten. *)
Record(acks, losses) ==
  LET i == second % SampleSlots
      old == IF slots[i].timestamp = second THEN slots[i] ELSE Info(second, 0, 0)
      ring == [slots EXCEPT ![i] = Info(second, old.acks + acks, old.losses + losses)] IN
  /\ slots' = ring
  /\ ackRate' = UpdateAckRate(ring, second) /\ updated' = second
  /\ history' = [history EXCEPT ![second] = Info(second, @.acks + acks, @.losses + losses)]

Room == history[second].acks + history[second].losses < MaxSamples

(* on_ack and on_congestion_event go to the controller in charge. *)
OnAck ==
  /\ enabled /\ Room /\ Record(1, 0)
  /\ UNCHANGED <<compensate, enabled, bandwidth, second>>

OnCongestionEvent ==
  /\ enabled /\ Room /\ Record(0, 1)
  /\ UNCHANGED <<compensate, enabled, bandwidth, second>>

(* set_brutal_bandwidth: two stores, the second of which puts Brutal in    *)
(* charge.                                                                 *)
StoreBandwidth ==
  /\ bandwidth = 0 /\ bandwidth' = 1
  /\ UNCHANGED <<compensate, enabled, second, slots, ackRate, updated, history>>

Enable ==
  /\ bandwidth # 0 /\ ~enabled /\ enabled' = TRUE
  /\ UNCHANGED <<compensate, bandwidth, second, slots, ackRate, updated, history>>

Tick ==
  /\ second < MaxSeconds /\ second' = second + 1
  /\ UNCHANGED <<compensate, enabled, bandwidth, slots, ackRate, updated, history>>

BrutalNext == OnAck \/ OnCongestionEvent \/ StoreBandwidth \/ Enable \/ Tick

(* The rate Brutal paces by is the one of the packets reported in the last *)
(* SampleSlots seconds before its last update, whatever gaps there were    *)
(* between reports: no packet counts twice, none of an earlier round of    *)
(* the ring does, and none is missed.                                      *)
AckRateRecent ==
  updated # Never =>
    LET window == {s \in DOMAIN history : s <= updated /\ s > updated - SampleSlots} IN
    ackRate = RateFor(SumOf([s \in DOMAIN history |-> history[s].acks], window),
                      SumOf([s \in DOMAIN history |-> history[s].losses], window))
=============================================================================
