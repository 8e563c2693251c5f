-------------------------------- MODULE Bme280 --------------------------------
(***************************************************************************)
(* The driver of src/BME280.cpp over src/I2CBus.cpp, and the chip it       *)
(* drives: init() brings the chip up register by register, read() turns    *)
(* one burst of raw values into one reading.  Both hold m_mutex from       *)
(* beginning to end; one action is one I2C transaction or one computation  *)
(* between two of them, so the chip may act in between.                    *)
(*                                                                         *)
(* A measurement is a number; a value computed from it is the numbers it   *)
(* was computed from.  Coefficients are good, or garbage when they were    *)
(* read before the chip had copied them from its memory.                   *)
(***************************************************************************)
EXTENDS Integers

CONSTANTS
  Users,      \* the threads that call the driver
  None,       \* no mutex holder
  RESET_POLL_ATTEMPTS,
  MaxMeasure, \* bound: measurements are numbered from 1 to this, and again from 1
  MaxLoss     \* bound: interruptions of the chip's supply

Numbers == 0..MaxMeasure
Raws == [m : Numbers, hum : BOOLEAN]
Chips == [copying : BOOLEAN, hum : BOOLEAN, humOn : BOOLEAN, mode : {"sleep", "normal"},
          conv : Numbers, convHum : BOOLEAN, marked : BOOLEAN, count : Numbers]
Readings == [m : Numbers, hum : BOOLEAN, tFine : Numbers]

ASSUME DriverAssumption ==
  /\ None \notin Users \cup Raws \cup Readings
  /\ RESET_POLL_ATTEMPTS \in Nat \ {0} /\ MaxMeasure \in Nat \ {0} /\ MaxLoss \in Nat

VARIABLES
  mutex,        \* the holder of m_mutex, or None
  fdOpen,       \* m_bus.m_fd >= 0
  initialized,  \* m_initialized
  calib,        \* m_calib: "none", "good" or "garbage"
  tFine,        \* m_tFine: the measurement it was computed from
  pc,           \* where each user is
  attempt,      \* attempt, in softReset()
  c0,           \* c0, in readCalibration()
  raw,          \* adcT, adcP and adcH in each user's readCompensated(), or None
  result,       \* what the latest call returned, "none" while it runs
  out,          \* the reading it gave, or None
  chip,         \* external: the chip
  losses,       \* external: interruptions of its supply so far
  lost          \* history: when the supply failed since init() was entered: while
                \* "reading" the coefficients, only at some time "else", or "never"

members == <<fdOpen, initialized, calib, tFine>>
locals == <<attempt, c0, raw>>
chipVars == <<chip, losses, lost>>
vars == <<mutex, pc, members, locals, result, out, chipVars>>

InitStates == {"open", "id", "reset", "poll", "calib00", "calib26", "hum", "config",
               "meas", "settle"}
ReadStates == {"burst", "compensate", "convert"}

\* The chip after a power-up or a soft reset.  conv is the measurement in its data
\* registers, 0 for the values of a skipped one; it is marked when one of its own
\* values is SKIPPED_TP or SKIPPED_H.  humOn follows ctrl_hum only when ctrl_meas
\* is written.
Reset(count) == [copying |-> TRUE, hum |-> FALSE, humOn |-> FALSE, mode |-> "sleep",
                 conv |-> 0, convHum |-> FALSE, marked |-> FALSE, count |-> count]

At(u, from, to) == pc[u] = from /\ pc' = [pc EXCEPT ![u] = to]

\* A call by u starts, goes on, or returns r and is rid of its local variables.
Start(u, at) ==
  /\ At(u, "idle", at)
  /\ result' = "none" /\ out' = None
  /\ UNCHANGED locals
Goto(u, to) ==
  /\ pc' = [pc EXCEPT ![u] = to]
  /\ UNCHANGED <<mutex, result, out>>
Return(u, r, reading) ==
  /\ pc' = [pc EXCEPT ![u] = "idle"]
  /\ mutex' = None
  /\ result' = r /\ out' = reading
  /\ attempt' = 0 /\ c0' = "none" /\ raw' = [raw EXCEPT ![u] = None]
Fail(u, r) == Return(u, r, None)

\* A transaction that only brings the driver to its next step, or fails.
Transfer(u, from, to) ==
  /\ pc[u] = from
  /\ (Goto(u, to) /\ UNCHANGED locals) \/ Fail(u, "EBUS")

\* A register write; one that fails may have reached the chip all the same.
Write(u, from, to, effect) ==
  /\ Transfer(u, from, to)
  /\ chip' \in IF pc'[u] = to THEN {effect} ELSE {chip, effect}
  /\ UNCHANGED <<members, losses, lost>>
-------------------------------------------------------------------------------
Init ==
  /\ mutex = None
  /\ fdOpen = FALSE /\ initialized = FALSE /\ calib = "none" /\ tFine = 0
  /\ pc = [u \in Users |-> "idle"]
  /\ attempt = 0 /\ c0 = "none" /\ raw = [u \in Users |-> None]
  /\ result = "none" /\ out = None
  /\ chip = Reset(0)
  /\ losses = 0 /\ lost = "never"
-------------------------------------------------------------------------------
(* init() *)

InitCall(u) ==
  /\ mutex = None
  /\ mutex' = u
  /\ Start(u, "open")
  /\ initialized' = FALSE
  /\ lost' = "never"
  /\ UNCHANGED <<fdOpen, calib, tFine, chip, losses>>

\* m_bus.init(): the device file is opened, unless it is open already.
OpenBus(u) ==
  /\ pc[u] = "open"
  /\ \/ Goto(u, "id") /\ fdOpen' = TRUE /\ UNCHANGED locals
     \/ ~fdOpen /\ Fail(u, "EBUS") /\ UNCHANGED fdOpen
  /\ UNCHANGED <<initialized, calib, tFine, chipVars>>

CheckChipId(u) ==
  /\ Transfer(u, "id", "reset") \/ (pc[u] = "id" /\ Fail(u, "ENODEV"))
  /\ UNCHANGED <<members, chipVars>>

SoftReset(u) == Write(u, "reset", "poll", Reset(chip.count))

\* Mutant: one delay, without a look at the status register.
SoftResetPollOnce(u) == Transfer(u, "poll", "calib00") /\ UNCHANGED <<members, chipVars>>

\* Mutant: the chip is polled until it is ready (attempt starts over).
SoftResetPollForever(u) ==
  /\ \/ Transfer(u, "poll", "calib00") /\ ~chip.copying
     \/ /\ pc[u] = "poll" /\ chip.copying
        /\ Goto(u, "poll")
        /\ attempt' = (attempt + 1) % RESET_POLL_ATTEMPTS
        /\ UNCHANGED <<c0, raw>>
  /\ UNCHANGED <<members, chipVars>>

\* Mutant: one attempt too many.
SoftResetPollMore(u) ==
  /\ \/ Transfer(u, "poll", "calib00") /\ ~chip.copying
     \/ /\ pc[u] = "poll" /\ chip.copying
        /\ IF attempt < RESET_POLL_ATTEMPTS
           THEN Goto(u, "poll") /\ attempt' = attempt + 1 /\ UNCHANGED <<c0, raw>>
           ELSE Fail(u, "ETIMEDOUT")
  /\ UNCHANGED <<members, chipVars>>

\* One round of the loop: the status register is read after a delay.
SoftResetPoll(u) ==
  /\ \/ ~chip.copying /\ Transfer(u, "poll", "calib00")
     \/ pc[u] = "poll" /\ Fail(u, "EBUS")
     \/ /\ pc[u] = "poll" /\ chip.copying
        /\ IF attempt + 1 < RESET_POLL_ATTEMPTS
           THEN Goto(u, "poll") /\ attempt' = attempt + 1 /\ UNCHANGED <<c0, raw>>
           ELSE Fail(u, "ETIMEDOUT")
  /\ UNCHANGED <<members, chipVars>>

Coefficients == IF chip.copying THEN "garbage" ELSE "good"

ReadCalibration00(u) ==
  /\ pc[u] = "calib00"
  /\ \/ Goto(u, "calib26") /\ c0' = Coefficients /\ UNCHANGED <<attempt, raw>>
     \/ Fail(u, "EBUS")
  /\ UNCHANGED <<members, chipVars>>

\* m_calib is written only when both blocks have been read.
ReadCalibration26(u) ==
  /\ Transfer(u, "calib26", "hum")
  /\ calib' = IF pc'[u] # "hum" THEN calib
              ELSE IF c0 = "good" THEN Coefficients ELSE "garbage"
  /\ UNCHANGED <<fdOpen, initialized, tFine, chipVars>>

ConfigureHum(u) == Write(u, "hum", "config", [chip EXCEPT !.hum = TRUE])

\* The standby time and the filter: nothing here depends on them.
ConfigureConfig(u) == Write(u, "config", "meas", chip)

ConfigureMeas(u) ==
  Write(u, "meas", "settle", [chip EXCEPT !.mode = "normal", !.humOn = chip.hum])

\* Mutant: no delay after the configuration.
SettleNot(u) ==
  /\ pc[u] = "settle"
  /\ Return(u, "ok", None)
  /\ initialized' = TRUE
  /\ UNCHANGED <<fdOpen, calib, tFine, chipVars>>

\* 10 ms are longer than a measurement, if the chip is measuring at all.
Settle(u) ==
  /\ pc[u] = "settle"
  /\ chip.mode = "normal" => chip.conv # 0
  /\ Return(u, "ok", None)
  /\ initialized' = TRUE
  /\ UNCHANGED <<fdOpen, calib, tFine, chipVars>>
-------------------------------------------------------------------------------
(* read(), readTemperature(), readPressure(), readHumidity() *)

\* Mutant: the reader does not hold m_mutex.
ReadCallUnlocked(u) ==
  /\ initialized
  /\ Start(u, "burst")
  /\ UNCHANGED <<mutex, members, chipVars>>

ReadCall(u) ==
  /\ mutex = None
  /\ \/ initialized /\ Start(u, "burst") /\ mutex' = u
     \/ ~initialized /\ pc[u] = "idle" /\ Fail(u, "ENODEV")
  /\ UNCHANGED <<members, chipVars>>

Raw == [m |-> chip.conv, hum |-> chip.convHum]

\* Mutant: the values of a skipped measurement are taken for one.
ReadRawUnchecked(u) ==
  /\ pc[u] = "burst"
  /\ \/ Fail(u, "EBUS")
     \/ Goto(u, "compensate") /\ raw' = [raw EXCEPT ![u] = Raw] /\ UNCHANGED <<attempt, c0>>
  /\ UNCHANGED <<members, chipVars>>

\* One of the three values is that of a channel that was not measured.
Skipped == chip.conv = 0 \/ ~chip.convHum \/ chip.marked

\* readRawData(): one burst, so the three channels are of one measurement.
ReadRaw(u) ==
  /\ pc[u] = "burst"
  /\ \/ Fail(u, "EBUS")
     \/ Skipped /\ Fail(u, "EAGAIN")
     \/ /\ ~Skipped
        /\ Goto(u, "compensate")
        /\ raw' = [raw EXCEPT ![u] = Raw]
        /\ UNCHANGED <<attempt, c0>>
  /\ UNCHANGED <<members, chipVars>>

\* The measurement that each value of a reading is computed from.
Reading(u) == [m |-> raw[u].m, hum |-> raw[u].hum, tFine |-> tFine]

CompensateTemperature(u) ==
  /\ pc[u] = "compensate"
  /\ Goto(u, "convert")
  /\ tFine' = raw[u].m
  /\ UNCHANGED <<fdOpen, initialized, calib, locals, chipVars>>

\* compensatePressure() and compensateHumidity() use m_tFine; coefficients that
\* make the pressure zero are refused, other garbage is not noticed.
CompensateOthers(u) ==
  /\ pc[u] = "convert"
  /\ \/ calib = "garbage" /\ Fail(u, "EIO")
     \/ Return(u, "ok", Reading(u))
  /\ UNCHANGED <<members, chipVars>>
-------------------------------------------------------------------------------
(* The chip *)

NvmCopied ==
  /\ chip.copying
  /\ chip' = [chip EXCEPT !.copying = FALSE]
  /\ UNCHANGED <<mutex, pc, members, locals, result, out, losses, lost>>

Measure ==
  /\ chip.mode = "normal"
  /\ LET n == (chip.count % MaxMeasure) + 1
     IN \E marked \in BOOLEAN :
          chip' = [chip EXCEPT !.count = n, !.conv = n, !.convHum = chip.humOn, !.marked = marked]
  /\ UNCHANGED <<mutex, pc, members, locals, result, out, losses, lost>>

PowerLoss ==
  /\ losses < MaxLoss
  /\ losses' = losses + 1
  /\ chip' = Reset(chip.count)
  /\ lost' = IF lost = "reading" \/ (\E u \in Users : pc[u] \in {"calib00", "calib26"})
             THEN "reading" ELSE "else"
  /\ UNCHANGED <<mutex, pc, members, locals, result, out>>
-------------------------------------------------------------------------------
Driver(u) ==
  \/ OpenBus(u) \/ CheckChipId(u) \/ SoftReset(u) \/ SoftResetPoll(u)
  \/ ReadCalibration00(u) \/ ReadCalibration26(u)
  \/ ConfigureHum(u) \/ ConfigureConfig(u) \/ ConfigureMeas(u) \/ Settle(u)
  \/ ReadRaw(u) \/ CompensateTemperature(u) \/ CompensateOthers(u)

Next ==
  \/ \E u \in Users : InitCall(u) \/ ReadCall(u) \/ Driver(u)
  \/ NvmCopied \/ Measure \/ PowerLoss

SafeSpec == Init /\ [][Next]_vars

\* The driver runs, and a chip that has been told to measure measures.  It may
\* take for ever to copy its coefficients.
Spec == SafeSpec /\ WF_vars(Measure) /\ \A u \in Users : WF_vars(Driver(u))
-------------------------------------------------------------------------------
(* Properties *)

\* The variables keep their types; softReset() asks at most RESET_POLL_ATTEMPTS
\* times.
TypeOK ==
  /\ mutex \in Users \cup {None}
  /\ fdOpen \in BOOLEAN /\ initialized \in BOOLEAN /\ lost \in {"never", "reading", "else"}
  /\ calib \in {"none", "good", "garbage"} /\ c0 \in {"none", "good", "garbage"}
  /\ tFine \in Numbers
  /\ pc \in [Users -> {"idle"} \cup InitStates \cup ReadStates]
  /\ attempt \in 0 .. RESET_POLL_ATTEMPTS - 1
  /\ raw \in [Users -> Raws \cup {None}]
  /\ result \in {"none", "ok", "EBUS", "ENODEV", "EAGAIN", "EIO", "ETIMEDOUT"}
  /\ out \in Readings \cup {None}
  /\ chip \in Chips
  /\ losses \in 0..MaxLoss

\* Pressure and humidity are compensated with the temperature of their own
\* measurement: m_tFine, which all users share, is never another reader's.
ConsistentReading == out # None => out.tFine = out.m

\* What a read() reports has been measured, humidity included: the values of a
\* chip that was reset or not configured are never reported.
NoPhantomReading == out # None => out.m # 0 /\ out.hum

\* A sensor that counts as initialised has an open bus and coefficients that the
\* chip had finished loading.  The one way to garbage is a supply that failed
\* while init() was reading them, between its last look at the chip's status and
\* its last block; one that failed before or after does no harm to them.
CalibrationSound == initialized => fdOpen /\ (calib = "good" \/ lost = "reading")

\* Once init() has succeeded, a read() finds a measurement, the first one too.
\* "Not available yet" is only heard after an interruption of the supply, or of a
\* measurement with a value that readRawData() can not tell from a skipped one.
FirstReadValid ==
  [][result # "EAGAIN" /\ result' = "EAGAIN" => lost # "never" \/ chip.marked]_vars

\* Every call returns, also when the chip never finishes its start-up.
CallsReturn == \A u \in Users : pc[u] # "idle" ~> pc[u] = "idle"
===============================================================================
