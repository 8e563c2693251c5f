----------------------------- MODULE Bme280Proofs -----------------------------
(***************************************************************************)
(* Theorems about Bme280, for any number of users, polls, measurements and *)
(* interruptions of the supply: its invariants, and FirstReadValid.        *)
(***************************************************************************)
EXTENDS Bme280, TLAPS

\* m_mutex is held by the one user that is inside a call.
Locked == \A u \in Users : pc[u] # "idle" <=> mutex = u

\* What a reader holds has been measured; from "convert" on m_tFine is its own.
Reads ==
  \A u \in Users :
    /\ raw[u] # None <=> pc[u] \in {"compensate", "convert"}
    /\ raw[u] # None => raw[u].m # 0 /\ raw[u].hum
    /\ pc[u] = "convert" => tFine = raw[u].m

\* What init() has established at each of its steps, unless the supply failed
\* while it was reading the coefficients.
Calibrates ==
  /\ CalibrationSound
  /\ \A u \in Users :
       /\ pc[u] \in InitStates => ~initialized
       /\ pc[u] \in ReadStates => initialized
       /\ pc[u] \in InitStates \ {"open"} => fdOpen
       /\ pc[u] \in {"calib00", "calib26"} => ~chip.copying \/ lost = "reading"
       /\ pc[u] = "calib26" => c0 = "good" \/ lost = "reading"
       /\ pc[u] \in {"hum", "config", "meas", "settle"} => calib = "good" \/ lost = "reading"

\* The chip that a driver has brought up without an interruption measures, and
\* measures humidity; its first measurement is made before init() returns.
Measuring == chip.mode = "normal" /\ chip.humOn /\ (chip.conv # 0 => chip.convHum)
BroughtUp ==
  lost = "never" =>
    /\ initialized => Measuring /\ chip.conv # 0
    /\ \A u \in Users :
         /\ pc[u] \in {"poll", "calib00", "calib26", "hum", "config", "meas"} =>
              chip.mode = "sleep" /\ chip.conv = 0
         /\ pc[u] \in {"config", "meas"} => chip.hum
         /\ pc[u] = "settle" => Measuring

IInv == TypeOK /\ Locked /\ Reads /\ ConsistentReading /\ NoPhantomReading /\ Calibrates /\ BroughtUp

\* Zero is a number of a measurement and of an attempt; so are their successors.
LEMMA Bounds ==
  /\ 0 \in Numbers /\ 0 \in 0 .. RESET_POLL_ATTEMPTS - 1
  /\ \A n \in Numbers : (n % MaxMeasure) + 1 \in Numbers /\ (n % MaxMeasure) + 1 # 0
BY DriverAssumption DEF Numbers

\* A register write that succeeds has its effect; one that fails may have it.
LEMMA WriteOutcomes ==
  ASSUME TypeOK, NEW u \in Users, NEW from \in InitStates, NEW to \in InitStates, from # to,
         NEW effect, Write(u, from, to, effect)
  PROVE  /\ pc[u] = from
         /\ \/ Goto(u, to) /\ UNCHANGED locals /\ chip' = effect
            \/ Fail(u, "EBUS") /\ chip' \in {chip, effect}
         /\ UNCHANGED <<members, losses, lost>>
BY DEF Write, Transfer, Goto, Fail, Return, TypeOK, InitStates

\* Nothing has been done with the driver yet.
LEMMA InitIInv == Init => IInv
<1> SUFFICES ASSUME Init PROVE IInv
  OBVIOUS
<1> USE DriverAssumption DEF Init, Reset
<1>1. TypeOK
  <2>1. chip \in Chips
    BY Bounds DEF Chips
  <2>2. pc \in [Users -> {"idle"} \cup InitStates \cup ReadStates] /\ raw \in [Users -> Raws \cup {None}]
    OBVIOUS
  <2>3. attempt \in 0 .. RESET_POLL_ATTEMPTS - 1 /\ tFine \in Numbers
    BY Bounds
  <2>4. losses \in 0..MaxLoss
    OBVIOUS
  <2> QED
    BY <2>1, <2>2, <2>3, <2>4 DEF TypeOK
<1>2. Locked
  BY DEF Locked, Numbers, InitStates, ReadStates
<1>3. Reads
  BY DEF Reads, Numbers, InitStates, ReadStates
<1>4. ConsistentReading
  BY DEF ConsistentReading, Numbers, InitStates, ReadStates
<1>5. NoPhantomReading
  BY DEF NoPhantomReading, Numbers, InitStates, ReadStates
<1>6. Calibrates
  BY DEF Calibrates, CalibrationSound, Numbers, InitStates, ReadStates
<1>7. BroughtUp
  BY DEF BroughtUp, Measuring, Numbers, InitStates, ReadStates
<1> QED
  BY <1>1, <1>2, <1>3, <1>4, <1>5, <1>6, <1>7 DEF IInv

\* Every transaction, and whatever the chip does in between, keeps it.
LEMMA NextIInv == IInv /\ [Next]_vars => IInv'
<1> SUFFICES ASSUME IInv, [Next]_vars PROVE IInv'
  OBVIOUS
<1> USE DriverAssumption DEF IInv, members, locals, chipVars
<1>1. ASSUME NEW u \in Users, InitCall(u) PROVE IInv'
  <2>1. TypeOK'
    BY <1>1, Bounds DEF At, InitCall, InitStates, Locked, ReadStates, Start, TypeOK
  <2>2. Locked'
    BY <1>1 DEF At, InitCall, InitStates, Locked, Numbers, ReadStates, Start, TypeOK
  <2>3. Reads'
    BY <1>1 DEF At, InitCall, InitStates, Locked, Numbers, ReadStates, Reads, Start, TypeOK
  <2>4. ConsistentReading'
    BY <1>1 DEF At, ConsistentReading, InitCall, InitStates, Locked, Numbers, ReadStates, Start, TypeOK
  <2>5. NoPhantomReading'
    BY <1>1 DEF At, InitCall, InitStates, Locked, NoPhantomReading, Numbers, ReadStates, Start, TypeOK
  <2>6. Calibrates'
    BY <1>1 DEF At, Calibrates, CalibrationSound, InitCall, InitStates, Locked, Numbers, ReadStates, Start, TypeOK
  <2>7. BroughtUp'
    BY <1>1 DEF At, BroughtUp, InitCall, InitStates, Locked, Measuring, Numbers, ReadStates, Start, TypeOK
  <2> QED
    BY <2>1, <2>2, <2>3, <2>4, <2>5, <2>6, <2>7
<1>2. ASSUME NEW u \in Users, OpenBus(u) PROVE IInv'
  <2>1. TypeOK'
    <3>1. chip' \in Chips
      BY <1>2, Bounds DEF OpenBus, TypeOK, Chips
    <3> QED
      BY <3>1, <1>2, Bounds DEF OpenBus, Fail, Goto, Return, TypeOK, InitStates, ReadStates
  <2>2. Locked'
    BY <1>2 DEF Fail, Goto, InitStates, Locked, Numbers, OpenBus, ReadStates, Return, TypeOK
  <2>3. Reads'
    BY <1>2 DEF Fail, Goto, InitStates, Locked, Numbers, OpenBus, ReadStates, Reads, Return, TypeOK
  <2>4. ConsistentReading'
    BY <1>2 DEF ConsistentReading, Fail, Goto, InitStates, Locked, Numbers, OpenBus, ReadStates, Return, TypeOK
  <2>5. NoPhantomReading'
    BY <1>2 DEF Fail, Goto, InitStates, Locked, NoPhantomReading, Numbers, OpenBus, ReadStates, Return, TypeOK
  <2>6. Calibrates'
    BY <1>2 DEF Calibrates, CalibrationSound, Fail, Goto, InitStates, Locked, Numbers, OpenBus, ReadStates, Return, TypeOK
  <2>7. BroughtUp'
    BY <1>2 DEF BroughtUp, Fail, Goto, InitStates, Locked, Measuring, Numbers, OpenBus, ReadStates, Return, TypeOK
  <2> QED
    BY <2>1, <2>2, <2>3, <2>4, <2>5, <2>6, <2>7
<1>3. ASSUME NEW u \in Users, CheckChipId(u) PROVE IInv'
  <2>1. TypeOK'
    BY <1>3, Bounds DEF CheckChipId, Fail, Goto, InitStates, Locked, ReadStates, Return, Transfer, TypeOK
  <2>2. Locked'
    BY <1>3 DEF CheckChipId, Fail, Goto, InitStates, Locked, Numbers, ReadStates, Return, Transfer, TypeOK
  <2>3. Reads'
    BY <1>3 DEF CheckChipId, Fail, Goto, InitStates, Locked, Numbers, ReadStates, Reads, Return, Transfer, TypeOK
  <2>4. ConsistentReading'
    BY <1>3 DEF CheckChipId, ConsistentReading, Fail, Goto, InitStates, Locked, Numbers, ReadStates, Return, Transfer, TypeOK
  <2>5. NoPhantomReading'
    BY <1>3 DEF CheckChipId, Fail, Goto, InitStates, Locked, NoPhantomReading, Numbers, ReadStates, Return, Transfer, TypeOK
  <2>6. Calibrates'
    BY <1>3 DEF Calibrates, CalibrationSound, CheckChipId, Fail, Goto, InitStates, Locked, Numbers, ReadStates, Return, Transfer, TypeOK
  <2>7. BroughtUp'
    BY <1>3 DEF BroughtUp, CheckChipId, Fail, Goto, InitStates, Locked, Measuring, Numbers, ReadStates, Return, Transfer, TypeOK
  <2> QED
    BY <2>1, <2>2, <2>3, <2>4, <2>5, <2>6, <2>7
<1>4. ASSUME NEW u \in Users, SoftReset(u) PROVE IInv'
  <2>0. /\ pc[u] = "reset"
        /\ \/ Goto(u, "poll") /\ UNCHANGED locals /\ chip' = Reset(chip.count)
           \/ Fail(u, "EBUS") /\ chip' \in {chip, Reset(chip.count)}
        /\ UNCHANGED <<members, losses, lost>>
    BY <1>4, WriteOutcomes DEF SoftReset, InitStates
  <2>1. TypeOK'
    <3>1. chip' \in Chips
      <4>1. chip.count \in Numbers /\ chip \in Chips
        BY DEF TypeOK, Chips
      <4>2. Reset(chip.count) \in Chips
        BY <4>1, Bounds DEF Reset, Chips
      <4> QED
        BY <2>0, <4>1, <4>2
    <3> QED
      BY <3>1, <2>0, Bounds DEF Fail, Goto, Return, TypeOK, InitStates, ReadStates
  <2>2. Locked'
    BY <2>0 DEF Fail, Goto, InitStates, Locked, Numbers, ReadStates, Reset, Return, TypeOK
  <2>3. Reads'
    BY <2>0 DEF Fail, Goto, InitStates, Locked, Numbers, ReadStates, Reads, Reset, Return, TypeOK
  <2>4. ConsistentReading'
    BY <2>0 DEF ConsistentReading, Fail, Goto, InitStates, Locked, Numbers, ReadStates, Reset, Return, TypeOK
  <2>5. NoPhantomReading'
    BY <2>0 DEF Fail, Goto, InitStates, Locked, NoPhantomReading, Numbers, ReadStates, Reset, Return, TypeOK
  <2>6. Calibrates'
    BY <2>0 DEF Calibrates, CalibrationSound, Fail, Goto, InitStates, Locked, Numbers, ReadStates, Reset, Return, TypeOK
  <2>7. BroughtUp'
    <3>1. ASSUME lost' = "never" PROVE initialized' = FALSE
      BY <2>0 DEF Calibrates, Fail, Goto, Return, TypeOK, InitStates
    <3>2. CASE Goto(u, "poll") /\ chip' = Reset(chip.count)
      <4>1. chip'.mode = "sleep" /\ chip'.conv = 0
        BY <3>2 DEF Reset
      <4> QED
        BY <2>0, <3>1, <3>2, <4>1 DEF BroughtUp, Goto, Locked, TypeOK
    <3>3. CASE Fail(u, "EBUS")
      <4>1. \A v \in Users : pc'[v] = "idle"
        BY <2>0, <3>3 DEF Fail, Return, Locked, TypeOK
      <4> QED
        BY <3>1, <4>1 DEF BroughtUp
    <3> QED
      BY <2>0, <3>2, <3>3
  <2> QED
    BY <2>1, <2>2, <2>3, <2>4, <2>5, <2>6, <2>7
<1>5. ASSUME NEW u \in Users, SoftResetPoll(u) PROVE IInv'
  <2>1. TypeOK'
    BY <1>5, Bounds DEF Fail, Goto, InitStates, Locked, ReadStates, Return, SoftResetPoll, Transfer, TypeOK
  <2>2. Locked'
    BY <1>5 DEF Fail, Goto, InitStates, Locked, Numbers, ReadStates, Return, SoftResetPoll, Transfer, TypeOK
  <2>3. Reads'
    BY <1>5 DEF Fail, Goto, InitStates, Locked, Numbers, ReadStates, Reads, Return, SoftResetPoll, Transfer, TypeOK
  <2>4. ConsistentReading'
    BY <1>5 DEF ConsistentReading, Fail, Goto, InitStates, Locked, Numbers, ReadStates, Return, SoftResetPoll, Transfer, TypeOK
  <2>5. NoPhantomReading'
    BY <1>5 DEF Fail, Goto, InitStates, Locked, NoPhantomReading, Numbers, ReadStates, Return, SoftResetPoll, Transfer, TypeOK
  <2>6. Calibrates'
    <3>1. pc[u] = "poll" /\ UNCHANGED <<members, chipVars>>
      BY <1>5 DEF SoftResetPoll, Transfer
    <3>2. pc'[u] \in {"idle", "poll", "calib00"} /\ (pc'[u] = "calib00" => ~chip.copying)
      BY <1>5 DEF SoftResetPoll, Transfer, Goto, Fail, Return, TypeOK
    <3>3. \A v \in Users \ {u} : pc'[v] = "idle" /\ pc[v] = "idle"
      BY <1>5, <3>1 DEF SoftResetPoll, Transfer, Goto, Fail, Return, TypeOK, Locked
    <3>4. ~initialized /\ fdOpen
      BY <3>1 DEF Calibrates, InitStates
    <3> QED
      BY <3>1, <3>2, <3>3, <3>4 DEF Calibrates, CalibrationSound, InitStates, ReadStates
  <2>7. BroughtUp'
    BY <1>5 DEF BroughtUp, Fail, Goto, InitStates, Locked, Measuring, Numbers, ReadStates, Return, SoftResetPoll, Transfer, TypeOK
  <2> QED
    BY <2>1, <2>2, <2>3, <2>4, <2>5, <2>6, <2>7
<1>6. ASSUME NEW u \in Users, ReadCalibration00(u) PROVE IInv'
  <2>1. TypeOK'
    BY <1>6, Bounds DEF Coefficients, Fail, Goto, InitStates, Locked, ReadCalibration00, ReadStates, Return, TypeOK
  <2>2. Locked'
    BY <1>6 DEF Coefficients, Fail, Goto, InitStates, Locked, Numbers, ReadCalibration00, ReadStates, Return, TypeOK
  <2>3. Reads'
    BY <1>6 DEF Coefficients, Fail, Goto, InitStates, Locked, Numbers, ReadCalibration00, ReadStates, Reads, Return, TypeOK
  <2>4. ConsistentReading'
    BY <1>6 DEF Coefficients, ConsistentReading, Fail, Goto, InitStates, Locked, Numbers, ReadCalibration00, ReadStates, Return, TypeOK
  <2>5. NoPhantomReading'
    BY <1>6 DEF Coefficients, Fail, Goto, InitStates, Locked, NoPhantomReading, Numbers, ReadCalibration00, ReadStates, Return, TypeOK
  <2>6. Calibrates'
    BY <1>6 DEF Calibrates, CalibrationSound, Coefficients, Fail, Goto, InitStates, Locked, Numbers, ReadCalibration00, ReadStates, Return, TypeOK
  <2>7. BroughtUp'
    BY <1>6 DEF BroughtUp, Coefficients, Fail, Goto, InitStates, Locked, Measuring, Numbers, ReadCalibration00, ReadStates, Return, TypeOK
  <2> QED
    BY <2>1, <2>2, <2>3, <2>4, <2>5, <2>6, <2>7
<1>7. ASSUME NEW u \in Users, ReadCalibration26(u) PROVE IInv'
  <2>1. TypeOK'
    BY <1>7, Bounds DEF Coefficients, Fail, Goto, InitStates, Locked, ReadCalibration26, ReadStates, Return, Transfer, TypeOK
  <2>2. Locked'
    BY <1>7 DEF Coefficients, Fail, Goto, InitStates, Locked, Numbers, ReadCalibration26, ReadStates, Return, Transfer, TypeOK
  <2>3. Reads'
    BY <1>7 DEF Coefficients, Fail, Goto, InitStates, Locked, Numbers, ReadCalibration26, ReadStates, Reads, Return, Transfer, TypeOK
  <2>4. ConsistentReading'
    BY <1>7 DEF Coefficients, ConsistentReading, Fail, Goto, InitStates, Locked, Numbers, ReadCalibration26, ReadStates, Return, Transfer, TypeOK
  <2>5. NoPhantomReading'
    BY <1>7 DEF Coefficients, Fail, Goto, InitStates, Locked, NoPhantomReading, Numbers, ReadCalibration26, ReadStates, Return, Transfer, TypeOK
  <2>6. Calibrates'
    BY <1>7 DEF Calibrates, CalibrationSound, Coefficients, Fail, Goto, InitStates, Locked, Numbers, ReadCalibration26, ReadStates, Return, Transfer, TypeOK
  <2>7. BroughtUp'
    BY <1>7 DEF BroughtUp, Coefficients, Fail, Goto, InitStates, Locked, Measuring, Numbers, ReadCalibration26, ReadStates, Return, Transfer, TypeOK
  <2> QED
    BY <2>1, <2>2, <2>3, <2>4, <2>5, <2>6, <2>7
<1>8. ASSUME NEW u \in Users, ConfigureHum(u) PROVE IInv'
  <2>0. /\ pc[u] = "hum"
        /\ \/ Goto(u, "config") /\ UNCHANGED locals /\ chip' = [chip EXCEPT !.hum = TRUE]
           \/ Fail(u, "EBUS") /\ chip' \in {chip, [chip EXCEPT !.hum = TRUE]}
        /\ UNCHANGED <<members, losses, lost>>
    BY <1>8, WriteOutcomes DEF ConfigureHum, InitStates
  <2>1. TypeOK'
    <3>1. chip' \in Chips
      BY <2>0, Bounds DEF TypeOK, Chips
    <3> QED
      BY <3>1, <2>0, Bounds DEF Fail, Goto, Return, TypeOK, InitStates, ReadStates
  <2>2. Locked'
    BY <2>0 DEF Fail, Goto, InitStates, Locked, Numbers, ReadStates, Return, TypeOK
  <2>3. Reads'
    BY <2>0 DEF Fail, Goto, InitStates, Locked, Numbers, ReadStates, Reads, Return, TypeOK
  <2>4. ConsistentReading'
    BY <2>0 DEF ConsistentReading, Fail, Goto, InitStates, Locked, Numbers, ReadStates, Return, TypeOK
  <2>5. NoPhantomReading'
    BY <2>0 DEF Fail, Goto, InitStates, Locked, NoPhantomReading, Numbers, ReadStates, Return, TypeOK
  <2>6. Calibrates'
    BY <2>0 DEF Calibrates, CalibrationSound, Fail, Goto, InitStates, Locked, Numbers, ReadStates, Return, TypeOK
  <2>7. BroughtUp'
    <3>1. ASSUME lost' = "never" PROVE initialized' = FALSE
      BY <2>0 DEF Calibrates, Fail, Goto, Return, TypeOK, InitStates
    <3>2. CASE Goto(u, "config") /\ chip' = [chip EXCEPT !.hum = TRUE]
      <4>1. chip'.hum /\ chip'.mode = chip.mode /\ chip'.conv = chip.conv
        BY <2>0, <3>2 DEF TypeOK, Chips
      <4> QED
        BY <2>0, <3>1, <3>2, <4>1 DEF BroughtUp, Goto, Locked, TypeOK
    <3>3. CASE Fail(u, "EBUS")
      <4>1. \A v \in Users : pc'[v] = "idle"
        BY <2>0, <3>3 DEF Fail, Return, Locked, TypeOK
      <4> QED
        BY <3>1, <4>1 DEF BroughtUp
    <3> QED
      BY <2>0, <3>2, <3>3
  <2> QED
    BY <2>1, <2>2, <2>3, <2>4, <2>5, <2>6, <2>7
<1>9. ASSUME NEW u \in Users, ConfigureConfig(u) PROVE IInv'
  <2>0. /\ pc[u] = "config"
        /\ \/ Goto(u, "meas") /\ UNCHANGED locals /\ chip' = chip
           \/ Fail(u, "EBUS") /\ chip' \in {chip, chip}
        /\ UNCHANGED <<members, losses, lost>>
    BY <1>9, WriteOutcomes DEF ConfigureConfig, InitStates
  <2>1. TypeOK'
    BY <2>0, Bounds DEF Fail, Goto, InitStates, Locked, ReadStates, Return, TypeOK
  <2>2. Locked'
    BY <2>0 DEF Fail, Goto, InitStates, Locked, Numbers, ReadStates, Return, TypeOK
  <2>3. Reads'
    BY <2>0 DEF Fail, Goto, InitStates, Locked, Numbers, ReadStates, Reads, Return, TypeOK
  <2>4. ConsistentReading'
    BY <2>0 DEF ConsistentReading, Fail, Goto, InitStates, Locked, Numbers, ReadStates, Return, TypeOK
  <2>5. NoPhantomReading'
    BY <2>0 DEF Fail, Goto, InitStates, Locked, NoPhantomReading, Numbers, ReadStates, Return, TypeOK
  <2>6. Calibrates'
    BY <2>0 DEF Calibrates, CalibrationSound, Fail, Goto, InitStates, Locked, Numbers, ReadStates, Return, TypeOK
  <2>7. BroughtUp'
    BY <2>0 DEF BroughtUp, Fail, Goto, InitStates, Locked, Measuring, Numbers, ReadStates, Return, TypeOK
  <2> QED
    BY <2>1, <2>2, <2>3, <2>4, <2>5, <2>6, <2>7
<1>10. ASSUME NEW u \in Users, ConfigureMeas(u) PROVE IInv'
  <2>0. /\ pc[u] = "meas"
        /\ \/ Goto(u, "settle") /\ UNCHANGED locals /\ chip' = [chip EXCEPT !.mode = "normal", !.humOn = chip.hum]
           \/ Fail(u, "EBUS") /\ chip' \in {chip, [chip EXCEPT !.mode = "normal", !.humOn = chip.hum]}
        /\ UNCHANGED <<members, losses, lost>>
    BY <1>10, WriteOutcomes DEF ConfigureMeas, InitStates
  <2>1. TypeOK'
    <3>1. chip' \in Chips
      BY <2>0, Bounds DEF TypeOK, Chips
    <3> QED
      BY <3>1, <2>0, Bounds DEF Fail, Goto, Return, TypeOK, InitStates, ReadStates
  <2>2. Locked'
    BY <2>0 DEF Fail, Goto, InitStates, Locked, Numbers, ReadStates, Return, TypeOK
  <2>3. Reads'
    BY <2>0 DEF Fail, Goto, InitStates, Locked, Numbers, ReadStates, Reads, Return, TypeOK
  <2>4. ConsistentReading'
    BY <2>0 DEF ConsistentReading, Fail, Goto, InitStates, Locked, Numbers, ReadStates, Return, TypeOK
  <2>5. NoPhantomReading'
    BY <2>0 DEF Fail, Goto, InitStates, Locked, NoPhantomReading, Numbers, ReadStates, Return, TypeOK
  <2>6. Calibrates'
    BY <2>0 DEF Calibrates, CalibrationSound, Fail, Goto, InitStates, Locked, Numbers, ReadStates, Return, TypeOK
  <2>7. BroughtUp'
    <3>1. ASSUME lost' = "never" PROVE initialized' = FALSE
      BY <2>0 DEF Calibrates, Fail, Goto, Return, TypeOK, InitStates
    <3>2. CASE Goto(u, "settle") /\ chip' = [chip EXCEPT !.mode = "normal", !.humOn = chip.hum]
      <4>1. lost = "never" => Measuring'
        BY <2>0, <3>2 DEF BroughtUp, Measuring, TypeOK, Chips
      <4> QED
        BY <2>0, <3>1, <3>2, <4>1 DEF BroughtUp, Goto, Locked, TypeOK
    <3>3. CASE Fail(u, "EBUS")
      <4>1. \A v \in Users : pc'[v] = "idle"
        BY <2>0, <3>3 DEF Fail, Return, Locked, TypeOK
      <4> QED
        BY <3>1, <4>1 DEF BroughtUp
    <3> QED
      BY <2>0, <3>2, <3>3
  <2> QED
    BY <2>1, <2>2, <2>3, <2>4, <2>5, <2>6, <2>7
<1>11. ASSUME NEW u \in Users, Settle(u) PROVE IInv'
  <2>1. TypeOK'
    BY <1>11, Bounds DEF InitStates, Locked, ReadStates, Return, Settle, TypeOK
  <2>2. Locked'
    BY <1>11 DEF InitStates, Locked, Numbers, ReadStates, Return, Settle, TypeOK
  <2>3. Reads'
    BY <1>11 DEF InitStates, Locked, Numbers, ReadStates, Reads, Return, Settle, TypeOK
  <2>4. ConsistentReading'
    BY <1>11 DEF ConsistentReading, InitStates, Locked, Numbers, ReadStates, Return, Settle, TypeOK
  <2>5. NoPhantomReading'
    BY <1>11 DEF InitStates, Locked, NoPhantomReading, Numbers, ReadStates, Return, Settle, TypeOK
  <2>6. Calibrates'
    BY <1>11 DEF Calibrates, CalibrationSound, InitStates, Locked, Numbers, ReadStates, Return, Settle, TypeOK
  <2>7. BroughtUp'
    BY <1>11 DEF BroughtUp, InitStates, Locked, Measuring, Numbers, ReadStates, Return, Settle, TypeOK
  <2> QED
    BY <2>1, <2>2, <2>3, <2>4, <2>5, <2>6, <2>7
<1>12. ASSUME NEW u \in Users, ReadCall(u) PROVE IInv'
  <2>1. TypeOK'
    BY <1>12, Bounds DEF At, Fail, InitStates, Locked, ReadCall, ReadStates, Return, Start, TypeOK
  <2>2. Locked'
    BY <1>12 DEF At, Fail, InitStates, Locked, Numbers, ReadCall, ReadStates, Return, Start, TypeOK
  <2>3. Reads'
    BY <1>12 DEF At, Fail, InitStates, Locked, Numbers, ReadCall, ReadStates, Reads, Return, Start, TypeOK
  <2>4. ConsistentReading'
    BY <1>12 DEF At, ConsistentReading, Fail, InitStates, Locked, Numbers, ReadCall, ReadStates, Return, Start, TypeOK
  <2>5. NoPhantomReading'
    BY <1>12 DEF At, Fail, InitStates, Locked, NoPhantomReading, Numbers, ReadCall, ReadStates, Return, Start, TypeOK
  <2>6. Calibrates'
    BY <1>12 DEF At, Calibrates, CalibrationSound, Fail, InitStates, Locked, Numbers, ReadCall, ReadStates, Return, Start, TypeOK
  <2>7. BroughtUp'
    BY <1>12 DEF At, BroughtUp, Fail, InitStates, Locked, Measuring, Numbers, ReadCall, ReadStates, Return, Start, TypeOK
  <2> QED
    BY <2>1, <2>2, <2>3, <2>4, <2>5, <2>6, <2>7
<1>13. ASSUME NEW u \in Users, ReadRaw(u) PROVE IInv'
  <2>1. TypeOK'
    <3>1. Raw \in Raws
      BY DEF Raw, Raws, TypeOK, Chips
    <3> QED
      BY <1>13, <3>1, Bounds DEF ReadRaw, Fail, Goto, Return, TypeOK, InitStates, ReadStates
  <2>2. Locked'
    BY <1>13 DEF Fail, Goto, InitStates, Locked, Numbers, Raw, ReadRaw, ReadStates, Return, TypeOK
  <2>3. Reads'
    <3>1. CASE Fail(u, "EBUS") \/ Fail(u, "EAGAIN")
      BY <1>13, <3>1 DEF ReadRaw, Fail, Return, Reads, Locked, TypeOK
    <3>2. CASE ~Skipped /\ Goto(u, "compensate") /\ raw' = [raw EXCEPT ![u] = Raw]
      <4>1. Raw \in Raws /\ Raw.m # 0 /\ Raw.hum
        BY <3>2 DEF Raw, Raws, TypeOK, Chips, Skipped
      <4>2. raw'[u] # None
        BY <3>2, <4>1 DEF TypeOK
      <4>3. UNCHANGED tFine
        BY <1>13 DEF ReadRaw
      <4> QED
        BY <3>2, <4>1, <4>2, <4>3 DEF Goto, Reads, TypeOK
    <3> QED
      BY <1>13, <3>1, <3>2 DEF ReadRaw
  <2>4. ConsistentReading'
    BY <1>13 DEF ConsistentReading, Fail, Goto, InitStates, Locked, Numbers, Raw, ReadRaw, ReadStates, Return, TypeOK
  <2>5. NoPhantomReading'
    BY <1>13 DEF Fail, Goto, InitStates, Locked, NoPhantomReading, Numbers, Raw, ReadRaw, ReadStates, Return, TypeOK
  <2>6. Calibrates'
    BY <1>13 DEF Calibrates, CalibrationSound, Fail, Goto, InitStates, Locked, Numbers, Raw, ReadRaw, ReadStates, Return, TypeOK
  <2>7. BroughtUp'
    BY <1>13 DEF BroughtUp, Fail, Goto, InitStates, Locked, Measuring, Numbers, Raw, ReadRaw, ReadStates, Return, TypeOK
  <2> QED
    BY <2>1, <2>2, <2>3, <2>4, <2>5, <2>6, <2>7
<1>14. ASSUME NEW u \in Users, CompensateTemperature(u) PROVE IInv'
  <2>1. TypeOK'
    <3>1. chip' \in Chips
      BY <1>14, Bounds DEF CompensateTemperature, TypeOK, Chips
    <3>2. raw[u].m \in Numbers
      <4>1. raw[u] \in Raws
        BY <1>14 DEF CompensateTemperature, Reads, TypeOK
      <4> QED
        BY <4>1 DEF Raws
    <3> QED
      BY <3>1, <3>2, <1>14 DEF CompensateTemperature, Goto, TypeOK, InitStates, ReadStates
  <2>2. Locked'
    BY <1>14 DEF CompensateTemperature, Goto, InitStates, Locked, Numbers, ReadStates, TypeOK
  <2>3. Reads'
    BY <1>14 DEF CompensateTemperature, Goto, InitStates, Locked, Numbers, ReadStates, Reads, TypeOK
  <2>4. ConsistentReading'
    BY <1>14 DEF CompensateTemperature, ConsistentReading, Goto, InitStates, Locked, Numbers, ReadStates, TypeOK
  <2>5. NoPhantomReading'
    BY <1>14 DEF CompensateTemperature, Goto, InitStates, Locked, NoPhantomReading, Numbers, ReadStates, TypeOK
  <2>6. Calibrates'
    BY <1>14 DEF Calibrates, CalibrationSound, CompensateTemperature, Goto, InitStates, Locked, Numbers, ReadStates, TypeOK
  <2>7. BroughtUp'
    BY <1>14 DEF BroughtUp, CompensateTemperature, Goto, InitStates, Locked, Measuring, Numbers, ReadStates, TypeOK
  <2> QED
    BY <2>1, <2>2, <2>3, <2>4, <2>5, <2>6, <2>7
<1>15. ASSUME NEW u \in Users, CompensateOthers(u) PROVE IInv'
  <2>0. Reading(u) \in Readings /\ Reading(u).tFine = Reading(u).m
        /\ Reading(u).m # 0 /\ Reading(u).hum
    <3>1. pc[u] = "convert" /\ raw[u] \in Raws /\ raw[u].m # 0 /\ raw[u].hum /\ tFine = raw[u].m
      BY <1>15 DEF CompensateOthers, TypeOK, Reads
    <3> QED
      BY <3>1 DEF Reading, Readings, Raws, TypeOK
  <2>9. out' \in {None, Reading(u)}
    BY <1>15 DEF CompensateOthers, Fail, Return
  <2>1. TypeOK'
    BY <1>15, <2>0, <2>9, Bounds DEF CompensateOthers, Fail, Return, TypeOK, InitStates, ReadStates
  <2>2. Locked'
    BY <1>15 DEF CompensateOthers, Fail, InitStates, Locked, Numbers, ReadStates, Reading, Return, TypeOK
  <2>3. Reads'
    BY <1>15 DEF CompensateOthers, Fail, InitStates, Locked, Numbers, ReadStates, Reading, Reads, Return, TypeOK
  <2>4. ConsistentReading'
    BY <2>0, <2>9 DEF ConsistentReading
  <2>5. NoPhantomReading'
    BY <2>0, <2>9 DEF NoPhantomReading
  <2>6. Calibrates'
    BY <1>15 DEF Calibrates, CalibrationSound, CompensateOthers, Fail, InitStates, Locked, Numbers, ReadStates, Reading, Return, TypeOK
  <2>7. BroughtUp'
    BY <1>15 DEF BroughtUp, CompensateOthers, Fail, InitStates, Locked, Measuring, Numbers, ReadStates, Reading, Return, TypeOK
  <2> QED
    BY <2>1, <2>2, <2>3, <2>4, <2>5, <2>6, <2>7
<1>16. ASSUME NvmCopied PROVE IInv'
  <2>1. TypeOK'
    <3>1. chip' \in Chips
      BY <1>16, Bounds DEF NvmCopied, TypeOK, Chips
    <3> QED
      BY <3>1, <1>16, Bounds DEF NvmCopied, TypeOK, InitStates, ReadStates
  <2>2. Locked'
    BY <1>16 DEF InitStates, Locked, Numbers, NvmCopied, ReadStates, TypeOK
  <2>3. Reads'
    BY <1>16 DEF InitStates, Locked, Numbers, NvmCopied, ReadStates, Reads, TypeOK
  <2>4. ConsistentReading'
    BY <1>16 DEF ConsistentReading, InitStates, Locked, Numbers, NvmCopied, ReadStates, TypeOK
  <2>5. NoPhantomReading'
    BY <1>16 DEF InitStates, Locked, NoPhantomReading, Numbers, NvmCopied, ReadStates, TypeOK
  <2>6. Calibrates'
    BY <1>16 DEF Calibrates, CalibrationSound, InitStates, Locked, Numbers, NvmCopied, ReadStates, TypeOK
  <2>7. BroughtUp'
    BY <1>16 DEF BroughtUp, InitStates, Locked, Measuring, Numbers, NvmCopied, ReadStates, TypeOK
  <2> QED
    BY <2>1, <2>2, <2>3, <2>4, <2>5, <2>6, <2>7
<1>17. ASSUME Measure PROVE IInv'
  <2>1. TypeOK'
    <3>1. chip' \in Chips
      <4>1. PICK n \in Numbers, marked \in BOOLEAN :
              chip' = [chip EXCEPT !.count = n, !.conv = n, !.convHum = chip.humOn, !.marked = marked]
        BY <1>17, Bounds DEF Measure, TypeOK, Chips
      <4> QED
        BY <4>1 DEF TypeOK, Chips
    <3> QED
      BY <3>1, <1>17, Bounds DEF Measure, TypeOK, InitStates, ReadStates
  <2>2. Locked'
    BY <1>17 DEF InitStates, Locked, Measure, Numbers, ReadStates, TypeOK
  <2>3. Reads'
    BY <1>17 DEF InitStates, Locked, Measure, Numbers, ReadStates, Reads, TypeOK
  <2>4. ConsistentReading'
    BY <1>17 DEF ConsistentReading, InitStates, Locked, Measure, Numbers, ReadStates, TypeOK
  <2>5. NoPhantomReading'
    BY <1>17 DEF InitStates, Locked, Measure, NoPhantomReading, Numbers, ReadStates, TypeOK
  <2>6. Calibrates'
    BY <1>17 DEF Calibrates, CalibrationSound, InitStates, Locked, Measure, Numbers, ReadStates, TypeOK
  <2>7. BroughtUp'
    <3>1. /\ chip.mode = "normal" /\ chip'.mode = "normal"
          /\ chip'.humOn = chip.humOn /\ chip'.convHum = chip.humOn
          /\ chip'.conv # 0
      BY <1>17, Bounds DEF Measure, TypeOK, Chips
    <3>2. UNCHANGED <<pc, initialized, lost>>
      BY <1>17 DEF Measure
    <3>3. chip'.hum = chip.hum
      BY <1>17 DEF Measure, TypeOK, Chips
    <3> QED
      BY <3>1, <3>2, <3>3 DEF BroughtUp, Measuring
  <2> QED
    BY <2>1, <2>2, <2>3, <2>4, <2>5, <2>6, <2>7
<1>18. ASSUME PowerLoss PROVE IInv'
  <2>1. TypeOK'
    <3>1. chip' \in Chips
      BY <1>18, Bounds DEF PowerLoss, Reset, TypeOK, Chips
    <3> QED
      BY <3>1, <1>18, Bounds DEF PowerLoss, TypeOK, InitStates, ReadStates
  <2>2. Locked'
    BY <1>18 DEF InitStates, Locked, Numbers, PowerLoss, ReadStates, Reset, TypeOK
  <2>3. Reads'
    BY <1>18 DEF InitStates, Locked, Numbers, PowerLoss, ReadStates, Reads, Reset, TypeOK
  <2>4. ConsistentReading'
    BY <1>18 DEF ConsistentReading, InitStates, Locked, Numbers, PowerLoss, ReadStates, Reset, TypeOK
  <2>5. NoPhantomReading'
    BY <1>18 DEF InitStates, Locked, NoPhantomReading, Numbers, PowerLoss, ReadStates, Reset, TypeOK
  <2>6. Calibrates'
    BY <1>18 DEF Calibrates, CalibrationSound, InitStates, Locked, Numbers, PowerLoss, ReadStates, Reset, TypeOK
  <2>7. BroughtUp'
    BY <1>18 DEF BroughtUp, InitStates, Locked, Measuring, Numbers, PowerLoss, ReadStates, Reset, TypeOK
  <2> QED
    BY <2>1, <2>2, <2>3, <2>4, <2>5, <2>6, <2>7
<1>19. CASE UNCHANGED vars
  BY <1>19 DEF vars, TypeOK, Locked, Reads, ConsistentReading, NoPhantomReading, Calibrates,
             CalibrationSound, BroughtUp, Measuring, Numbers
<1> QED
  BY <1>1, <1>2, <1>3, <1>4, <1>5, <1>6, <1>7, <1>8, <1>9, <1>10, <1>11, <1>12, <1>13, <1>14, <1>15, <1>16, <1>17, <1>18, <1>19 DEF Next, Driver

\* The variables keep their types; softReset() polls at most RESET_POLL_ATTEMPTS
\* times.
THEOREM Bme280TypeOK == Spec => []TypeOK
<1>1. IInv => TypeOK
  BY DEF IInv
<1> QED
  BY InitIInv, NextIInv, <1>1, PTL DEF Spec, SafeSpec

\* However many threads read, pressure and humidity are compensated with the
\* temperature of their own measurement (BME280.cpp, m_tFine).
THEOREM Bme280ConsistentReading == Spec => []ConsistentReading
<1>1. IInv => ConsistentReading
  BY DEF IInv
<1> QED
  BY InitIInv, NextIInv, <1>1, PTL DEF Spec, SafeSpec

\* A reading is of a measurement that was made, humidity included (readRawData()).
THEOREM Bme280NoPhantomReading == Spec => []NoPhantomReading
<1>1. IInv => NoPhantomReading
  BY DEF IInv
<1> QED
  BY InitIInv, NextIInv, <1>1, PTL DEF Spec, SafeSpec

\* Garbage coefficients come only from a supply that failed between the last poll
\* and the last block of coefficients (softReset(), readCalibration()).
THEOREM Bme280CalibrationSound == Spec => []CalibrationSound
<1>1. IInv => CalibrationSound
  BY DEF IInv, Calibrates
<1> QED
  BY InitIInv, NextIInv, <1>1, PTL DEF Spec, SafeSpec

\* "Not available yet" is only heard after an interruption of the supply, or of a
\* measurement with a value that looks skipped: init() returns when there is a
\* measurement, humidity included.
THEOREM Bme280FirstReadValid == Spec => FirstReadValid
<1>1. ASSUME IInv, [Next]_vars, result # "EAGAIN", result' = "EAGAIN" PROVE lost # "never" \/ chip.marked
  <2> USE DEF IInv
  <2>1. PICK u \in Users : ReadRaw(u)
    BY <1>1 DEF Next, Driver, InitCall, ReadCall, Start, OpenBus, CheckChipId, SoftReset, SoftResetPoll,
         ReadCalibration00, ReadCalibration26, ConfigureHum, ConfigureConfig, ConfigureMeas, Settle,
         CompensateTemperature, CompensateOthers, NvmCopied, Measure, PowerLoss, Write, Transfer,
         Goto, Fail, Return, At, vars
  <2>2. pc[u] = "burst" /\ Skipped
    BY <1>1, <2>1 DEF ReadRaw, Goto, Fail, Return
  <2>3. initialized
    BY <1>1, <2>2 DEF Calibrates, ReadStates
  <2> QED
    BY <1>1, <2>2, <2>3 DEF BroughtUp, Measuring, Skipped
<1>2. IInv /\ [Next]_vars => [result # "EAGAIN" /\ result' = "EAGAIN" => lost # "never" \/ chip.marked]_vars
  BY <1>1
<1> QED
  BY InitIInv, NextIInv, <1>2, PTL DEF Spec, SafeSpec, FirstReadValid
===============================================================================
