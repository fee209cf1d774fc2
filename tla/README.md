# ZWO-EAF-Proxy in TLA+

ZWO-EAF-Proxy answers an ASIAIR as if it were a ZWO EAF focuser. The same
*persona* exists twice: in Python, presented through a Cynthion with facedancer
(`host/`), and in C++ on an ESP32-S3 with TinyUSB (`firmware/`). Behind either
stands a *focuser*, for now one that exists only in memory. A capture tool
(`host/src/zwoproxy/capture.py`) records the USB bus with a Cynthion analyzer,
and a probe (`host/tools/`) measures a Pinefeat lens controller that is to
become a real focuser.

This directory specifies those parts, model-checks them with TLC and proves
results about them with TLAPS. `PROJECT.json` lists the runs, their properties,
for every property a mutation of the code that violates it, the source lines of
every definition, the hazards the properties are for, and the theorems.

## 1. Inventory

| Component | State it keeps | Operations | Modules |
|---|---|---|---|
| Python persona (`personas/eaf_device.py`) | register named last, settings byte | SET_REPORT (`apply`), GET_REPORT (`current_reply`) | `HostPersona` |
| Python focuser (`backends/simulated.py`) | position (float), target, time of last query | `move_to`, `halt`, `set_position`, `position`, `is_moving` | `HostPersona` |
| Codec, Python and C++ (`protocol.py`, `eaf_protocol.cpp`) | none | parse a command, encode the state, frame a reply | `EafCodec`, `CodecExchange` |
| Focuser interface (`focuser.py`, `focuser.h`) | - | what a focuser promises | `EafContract` |
| Firmware persona and focuser (`eaf_persona.cpp`, `simulated_focuser.{h,cpp}`, `main.cpp`) | the same, with the position as 64-bit thousandths of a step | the same, plus `advance` | `FirmwareTasks` |
| Firmware start and main loop (`main.cpp`) | serial array and the persona's copy; last clock reading | static initialisation, `LoadSerial`, the loop's clock | `AppMain`, `MainLoop` |
| Capture stream decoder (`capture.py`) | partial record, timestamp epoch | `feed` | `StreamDecoder` |
| Capture session (`capture.py`) | transfer pool, open file, analyzer on or off | `capture`, `on_transfer` | `CapturePool` |
| Pcap writer (`capture.py`) | the open file | a packet becomes a record with a time | `StreamDecoder`, `CapturePool` |
| Pinefeat probe and dialect (`tools/probe_pinefeat.py`, `backends/pinefeat.py`) | local variables of the question asked last | every mode of `main`: `identify`, `settle`, `retarget_cycle`, `usable`, … | `PinefeatProbe` |
| Serial line (`Port` in the probe, `serve` in `tools/fake_cef.py`) | commands and answers under way | `ask`, `_read_line`, one turn of `serve` | `PinefeatPort` |
| Lens controller (`Controller` in `fake_cef.py`) | position, target, travel, whether its calibration failed | `advance`, `reply` | `CefController` |
| Command line, descriptors, placeholder backends | - | parsing, constants, stubs | not modelled |

How they interact. The host names a register or writes the state block with
SET_REPORT and reads with GET_REPORT; the persona remembers what was named and
calls the focuser. In Python all of that is one thread, and the focuser has no
thread of its own: it catches up with `time.monotonic()` whenever it is asked
something. In the firmware TinyUSB's task runs both callbacks while `app_main`
calls `advance()`, on the same members, without a lock. The capture tool's
callbacks run inside the calls of its one thread that handle USB events, and an
exception in one of them, Ctrl-C's too, ends there. The
probe and the lens controller are two programs with a serial line between them
that carries no identifiers: an answer belongs to a question only because it
comes next.

What is hard, and which properties are for it (the full list with lines is
`hazards` in `PROJECT.json`):

* one reply that is computed from two queries at two times (`ImplementsContract`,
  `HostSeesArrival`, `RestIsReportedAtTarget`);
* two tasks on unsynchronised, torn words (`TypeOK`, `Arrives`,
  `CommandsStand`);
* two codecs that must stay alike while one slices and the other indexes a
  report that was cut to sixteen bytes (`ParsersAgree`, `PositionBytesSurvive`,
  `EncodersAgree`);
* the order of static initialisation, and a string that ends anywhere
  (`AnswersConfiguredSerial`, `ReadsStayInString`, `SerialIsFromString`);
* time that is cut to milliseconds (`NeverAhead`, `CreditsForever`);
* a byte stream cut anywhere, with timestamps that wrap, written as seconds and
  microseconds of a rounded float (`ChunksDoNotMatter`, `TimesExactOrLate`, `FileTellsTime`);
* a pool of transfers that is errored, unplugged, interrupted and cancelled, with
  callbacks broken off halfway, on an analyzer that remembers earlier captures
  (`ExactUntilCut`, `PoolKeepsItsSize`, `CapturingOnlyIfAbandoned`,
  `EnableTakesEffect`, `TimedCaptureEnds`, `UnplugIsNoticed`);
* answers that come too late, from an earlier session, or two at once
  (`AnswersBelong`, `HaltsAreMeasured`, `UsableIsEarned`);
* a lens that rests beside its mark, finishes its move between two questions, is
  in manual focus, jams, or stands where there is no room (`HaltsAreMeasured`,
  `ViableIsEarned`, `TestMovesOnlyWhatItCan`,
  `RoomToMove`, `VerdictPutsLensBack`, `SessionEnds`).

## 2. Modules

```
EafCodec ──┬── CodecExchange ── CodecExchangeProofs
           ├── EafContract                (abstract)
           ├── HostPersona ⇒ EafContract ── HostPersonaProofs
           └── FirmwareTasks ⇒ EafContract ── FirmwareTasksProofs
MainLoop ──┬── AppMain ── AppMainProofs
           └── MainLoopProofs
StreamDecoder ── StreamDecoderProofs
CapturePool ── CapturePoolProofs
CefController ── PinefeatPort ── PinefeatProbe ── PinefeatProbeProofs
```

`──` is EXTENDS, `⇒` an INSTANCE as a refinement target. Each `MC…` module gives
the constants of one of them small values.

**EafCodec** holds both codecs as operators on byte sequences. The radix of a
byte is a constant: 256 on the wire, 16 for TLC, so that every register number
fits and a four-byte word has 65536 values. Raising `MalformedReport`, and the
C++ default `Command`, are the value `Malformed`.

**CodecExchange** lets a report arrive byte by byte, so that every prefix is a
report. `StageSetReport` is what `tud_hid_set_report_cb` does around the codec:
the report id is put back and at most fifteen payload bytes follow it.

**EafContract** is what the host is promised, as `focuser.py` and `focuser.h`
say it: the focuser is `at` some step, travels toward one `goal` and never past
it, rests where a halt found it, and is redefined without travel by a sync. An
answer carries the register named last and the settings byte written last, and
for the state register a position and a moving flag that may be read while the
focuser travels: it says "at rest" only with the goal as its position. A vehicle
may `Refuse` only positions beyond `maxStep()`.

**HostPersona** is the Python vehicle. `position` counts parts of a step
(`SubSteps` of them) in place of the float, whose rounding is left out;
`elapsed` is the time since `_last`. One action is one USB request. `ReplyState`
calls `is_moving()` and then `position()`, `gap` units of time apart, which is
the order Python evaluates the keyword arguments in. The abstract `at` is the
whole step the focuser would report if asked now, `Whole(Now)`: the refinement
mapping hides that the focuser integrates lazily.

**FirmwareTasks** is the firmware once it runs. One action is at most one access
to a shared word; `position_` is two words, loaded and stored in either order,
`target_` is one. The USB task and `app_main` each have a program counter, the
words still to access, and what they have loaded. `advance()` loads its inputs
once: a compiler may keep `position_` in a register across the function, and
the model takes that build. C++ leaves the order of the two calls in
`CurrentReply`'s argument list open, so either comes first. `Scheduling` says
who may overlap whom: `"harness"` is one thread, as in `firmware/test/host`;
`"one_core"` lets the USB task preempt `app_main` but not the reverse;
`"two_cores"` lets both run at once. In the harness an `advance()` is one call
from the outside, and its store is the moment it takes effect: `SeenAt` and
`SeenGoal` map a half-done call to before or after it.

**AppMain** and **MainLoop** follow the firmware from reset. The persona's
constructor runs before `app_main`, `LoadSerial` takes the configured string a
pair of characters at a time, and the loop turns for good while the USB task
answers. A character is its hexadecimal value or `Bad`. `MainLoop` keeps the
microseconds since `last_us` and `lag`, a history variable: the time that passed
and was not credited to the focuser.

**StreamDecoder** takes one turn of `feed`'s loop per action. The analyzer
(external) writes records with true times, a transfer may be lost, and `Feed`
hands over any prefix of what is left. Bytes have radix 4 for TLC, so a
timestamp wraps after 16 cycles, and the padding byte, which the gateware leaves
undefined, is the worst one it can be: an event marker. `file` is what
`on_transfer` writes of the records as they are yielded. Its times go through a
float: from 2004 to 2038 the floats of a time since 1970 are the multiples of
2^-22 seconds, so they are `TICKS` to the second and `Nearest` rounds the cycles to
them; `Frame` splits the sum into seconds and microseconds and cuts the rest off.
The fraction of such a float and a million times it are floats themselves, so
nothing else is rounded but the quotient of cycles and clock, by a part in 2^53,
which is left out. `captured` is a history variable, the places of the packets
among the records sent, against which the file is held.

**CapturePool** is `capture()` with its callback. `pc` is the line it is at,
`inFlight` the transfers the USB stack has, in the order of submission, and
`completed` those whose callback has not run. `fed` is what the decoder was given
and `taken` how much of it became records; `stuck` is a decoder that found an
impossible length, which it finds again at every call. `Receive`, `EndShort`,
`EndInError`, `Overrun` and `Unplug` are the outside. A callback runs inside a call
that handles events, as one of two actions: `Callback` goes through `on_transfer` to
its end or to the exception it raises itself (`Desync`, `WriteToClosed`), `BreakOff`
is Ctrl-C, a write that fails or an `on_event` that raises anywhere in between. The
exception goes no further than the USB stack's call of the callback, so the
transfer is not submitted again (`Retire`) and the capture goes on. `BreakOff` takes
`on_transfer` line by line: before the decoder has the bytes they are lost, at a
record the record is written whole, by half or not at all, after the last one
nothing is missing but the transfer. `Interrupt` is Ctrl-C everywhere else and
`Kill` an end without cleanup, after which `Again` starts the next capture on an
analyzer in whatever state it was left. `Cancel` may raise for a transfer that has
ended while its callback is due. A chunk completes at least one packet. The time
between the enabling request and `started` is not a state of its own. The history
variables `cut` and `broken` are the chunks after which the file may have gaps,
`spent` the transfers that went wrong, and `abandoned` says that the program was
killed or interrupted where no line of it would stop the analyzer.

**CefController** is the lens controller as `fake_cef.py` plays it: a record, the
answer to a command as a function of it, and what the command makes of it. The
probe's text allows for more than the fake does, and the model lets a real one do
it: a lens in manual focus answers the range from cached data until a
calibration fails, a lens jams, the travel a calibration finds varies, and a move
comes to rest beside where it was sent (`Landings`, within `Misses`). The fake is
the controller with no misses; `docs/protocol/pinefeat.md` measured moves that land
a step off (168-170) and halts 11 to 12 steps past their place (251-267). A
controller that reports a position it is not at, as the real one does before its
first calibration (`pinefeat.md:158-166`), is not modelled.

**PinefeatPort** is the line. `Serve` is one turn of `serve()`: the lens travels,
and one command is answered. `Receive` takes every line that has arrived, as
`_read_line` does; `TimeOut` gives up while the answer is still to come. The port
may hold an answer owed to an earlier session. A line is one short write and
arrives whole. `timely` is a history variable: no answer came too late so far.

**PinefeatProbe** is `probe_pinefeat.py` with one action per question. `pc` names
the function that asks and `mem` its local variables that are still needed;
`Asked` is the command, `Raises` what ends the program with an exception, and one
operator per function says what follows the reply. Sleeps are the travel the
lens makes at least before the next question, `settle`'s deadline is a number of
polls. F-numbers and wording are left out. Four history variables say what
verdicts rest on: the travels that were measured, where halts and moves ended (asked
for, reached and reported), and how often a move came to rest between the moving
check and the retarget.

## 3. Runs

All with `tlc -config <cfg> <module>`; state counts are distinct states.

| Run | Question | Bounds, and why they are enough |
|---|---|---|
| `codec` | Do both vehicles understand a report alike, and encode alike? | 24.6 k states: reports of every length up to 18, past the 16 that are staged; each field takes a value on either side of what the parser tests; temperatures on both sides of both clamps |
| `host_persona` | Does the Python vehicle keep the contract, arrive, and show it? | 75 k: 3 parts per step and 2 per unit of time, so travel never divides evenly; up to 5 units without a query and 2 within a reply; positions 0..3 |
| `firmware_harness` | Does the firmware keep the contract when nothing overlaps? | 177 k: all kinds of reports, including positions that become negative words |
| `firmware_two_cores` | What survives when both tasks overlap at every word? | 1.2 M: a move, a halt and a sync, each to a different place; a word holds 4 values and a step 2 parts, so travel carries between the words; rate 3 |
| `commands_stand`, `rest_at_target` | Documented promises the overlap breaks | as above, the first with one core |
| `app_main` | Is the serial loaded within its string, and does the clock hold? | 150 k: two-byte serials and every string up to 5 characters of two digits and a bad one; a millisecond of 7 µs and turns of 1 to 20 µs |
| `boot_serial` | Is the configured serial answered? | as above |
| `stream_decoder` | Do chunks, padding, markers in data, wraps and lost transfers matter, and does the file tell the same times? | 6.6 M: three records out of an event and four packets, one of them longest; gaps of 1, 15 and 17 cycles around the wrap at 16; a second of 9 cycles, 5 ticks of the float and 3 microseconds, four ticks of which are over at the start, so that times are rounded into the next microsecond and the next second, and out of the microsecond they are in |
| `capture_pool` | Is the file exact, the pool alive, the analyzer left stopped, the next capture effective? | 1.75 M: three transfers, three chunks, one error and one callback broken off in each of two captures in a row; that is enough for a chunk before and one behind the gap, and for the next capture to meet what this one left |
| `pinefeat_probe` | What do the probe's verdicts and reports mean, what does it move, where does it leave the lens, does it end? | 474 k: every mode; steps of 2 parts, so the lens is seen between steps and up to 3 parts pass between two answers; places 0, 1 and 3 on travels of 2 and 3; moves that rest a step below their place or two above it, with an envelope of 1, so that both verdicts are given; `--travel` within and beyond the range; 2 cycles and 2 vets, the least that can disagree; 5 polls, more than any move needs, so the deadline is met only by a jammed lens |
| `capture_unplug` | Does an untimed capture notice an unplugged analyzer? | 11 k: two transfers and chunks, one capture: the pool only has to empty |

Deadlock checking is off where the model really stops: when the last byte of a
report, the last record or the last capture was used up, and when the probe has
ended.

### Properties that hold

* `ImplementsContract` (Python; firmware in one thread): a halt is final, a sync
  does not move, nothing passes its target, and a reply of two queries never
  says "at rest" away from the goal.
* `Arrives`, `HostSeesArrival`: a target that is left alone is reached exactly,
  even after any race in the firmware, and a host that keeps polling sees it.
* `ParsersAgree`, `PositionBytesSurvive`, `EncodersAgree`: the codecs are one.
* `ReadsStayInString`, `SerialIsFromString`, `NeverAhead`, `CreditsForever`: the
  string is read within its bounds and loaded whole if it is well-formed, and
  nothing that is not in it is loaded from any other.
* `ChunksDoNotMatter`, `TimesExactOrLate`: the decoder reproduces the records for
  every cut; its times are exact within a wrap and otherwise late, never early.
* `FileTellsTime`: a record of the file has its packet's content, a fraction below a
  second, and a time no earlier than the one before. Half a tick of the float
  (0.12 µs) is the most it is late by, and a microsecond and half a tick the most
  it is early by.
* `ExactUntilCut`: up to the first chunk that was lost or at which a callback was
  broken off, the file has every chunk once and in order; behind it, still in
  order.
* `PoolKeepsItsSize`: a running capture has lost the transfers that ended in error or
  whose callback raised, and no other.
* `CapturingOnlyIfAbandoned`, `EnableTakesEffect`, `TimedCaptureEnds`: errors
  anywhere leave the analyzer stopped; killed, or interrupted where nothing stops
  it, the next capture repairs it; and a timed capture ends.
* `AnswersBelong`: until the first timeout, `ask()` returns one line, the answer
  to its command. `HaltsAreMeasured`: until then, a position reported as the end of
  a move is where the lens came to rest, on its mark or beside it. Timeouts or
  not, "VIABLE" is printed just when every halt came to rest within the envelope.
* `UsableIsEarned`, `ViableIsEarned`: verdicts rest on what this session measured,
  whatever an earlier one left on the line.
* `TestMovesOnlyWhatItCan`, `RoomToMove`, `VerdictPutsLensBack`: the test moves
  only a lens that calibrated, within its travel, and puts it back as near as a
  move can.
* `SessionEnds`: every session ends, also on a silent controller.

### What the code does against what it says

* `CommandsStand`: `advance()` that loaded before a sync and stores after it
  undoes the sync, also on one core; `halt()` that runs in the same window aims
  the focuser back at where it was.
* `RestIsReportedAtTarget`: a reply may say "at rest" with a position short of
  the target, since the position may be read first.
* `AnswersConfiguredSerial`: the persona copies the serial before `LoadSerial`
  fills it; register 0x0C answers zeros.
* `UnplugIsNoticed`: transfers that end because the device is gone are dropped in
  silence; without a duration the capture waits for ever.

More are consequences of definitions here and have no run of their own:

* A malformed serial leaves the bytes before the bad digit in the array
  (`LoadPair`), where `main.cpp:27-28` says the body is left zeroed.
  `SerialIsFromString` allows the one and the other.
* The loop drops what is left of a millisecond every time it credits one (`Loop`),
  so the firmware's focuser falls behind the clock.
* A transfer that is cancelled while it holds data loses it (`cut`).
* Ctrl-C inside `on_transfer` (`capture.py:252-268`) ends the callback and nothing
  else (`BreakOff`): a record may be lost or half written, the pool is one
  transfer smaller, and a capture without a duration goes on, where
  `capture.py:211` says "until `duration` elapses or Ctrl-C". The same place
  swallows `StreamDesyncError`, so a capture out of step returns as if nothing had
  happened, with a file that ends there (`Desync`).
* Ctrl-C between the enable and the `try`, or in the `finally` block, leaves the
  analyzer capturing (`abandoned`), where `capture.py:293` says "Always stop the
  analyzer"; `EnableTakesEffect` shows that the next capture repairs it.
* A time in the file may be late, by the float's rounding in `capture.py:185`.

The same holds of the probe. "VIABLE" is printed for a controller that refuses
retargets (`fake_cef.py:62`, "the dealbreaker case") when every move comes to
rest between its moving check and the retarget, which then is an ordinary move;
`ViableIsEarned` says that nothing else can cause it. With `--travel` beyond the
range there may be no room to move from where the lens stands, and the advice to
use a longer one cannot help (`RoomToMove`). One calibration always agrees with
itself, so `--vet 1` calls every travel reproducible. `--send` catches the
`TimeoutError` of an answer that is late, but not the `ValueError` of a `select`
whose time is up before it is called (`probe_pinefeat.py:68`), and ends
(`GiveUp`). The polls of `--vet`, `--calibrate` and `--scan` have no deadline,
and a lens that jams keeps them going: `SessionEnds` assumes that it does not.

### Fairness

* `HostPersona`: only `Tick`: the clock goes on. The host may fall silent;
  `HostSeesArrival` assumes in its premise that it keeps polling.
* `FirmwareTasks`: each task goes on with what it is in (`App`, `UsbCall`), as
  FreeRTOS schedules both; no request is assumed.
* `AppMain`: the main task goes on.
* `CapturePool`: the program goes on and events that are due are handled; the
  bus may be idle for ever, and nobody has to press Ctrl-C.
* `PinefeatProbe`: the operating system runs the probe, so that a question is
  asked and a timeout expires. The controller may fall silent for good.

## 4. Proofs

For every value of the constants that the named assumptions allow:

* `HostPersonaProofs!TypeCorrect` and `ContractImplemented`: the Python persona
  refines `EafContract`. The type invariant is inductive by itself and is all the
  refinement needs. The argument is arithmetic on `Advance`: a focuser advanced
  by `d` and then by `e` is where it would be advanced by `d + e`
  (so `Whole(Now)` does not change when a query moves the state up to now), it
  stays between where it was and its target, and once its whole step is the
  target it stays there although a fraction of a step may be left. Each action
  then maps to the contract's action of its name, `Tick` to `Travel` and
  `ReplyState` to `Answer`.
* `CodecExchangeProofs!ParsersAlwaysAgree`: for every radix of a byte and
  reports of any length. `report` is a sequence of bytes by induction over the
  steps; the rest is that cutting to sixteen bytes removes nothing either parser
  reads, and that Horner's rule and the shifts are the same number.
* `MainLoopProofs!NeverAheadOfClock` and `ClockTypeCorrect`: the invariant is
  `TypeOK /\ NeverAhead`; without `since < Micros` a turn could credit time that
  the bound on `lag` has already cut off.
* `AppMainProofs!ReadsAlwaysStayInString` and `SerialAlwaysFromString`: for strings and
  serials of any length. `LoadInv` says of every turn of the loop that the bytes
  before the loop variable are the values of good pairs and those behind it zero;
  a turn reads the second character of a pair only where the first was a digit,
  so at most the terminator. The loop stops only where no good pair follows,
  which makes what it leaves the longest good prefix.
* `CapturePoolProofs!CapturingOnlyOnceAbandoned` and `EnableAlwaysTakesEffect`:
  between the request that stops the analyzer and the enable it can only be
  unplugged, and from the enable on it is capturing only where the program still
  has the finally block before it, or was cut off from it (`AnalyzerKnown`).
* `CapturePoolProofs!AlwaysExactUntilCut`, `PoolAlwaysKeepsItsSize` and
  `PoolTypeCorrect`: for pools of every size and any number of errors and broken
  callbacks. None of the three is inductive. `PoolInv` looks at the transfers with
  the USB stack as one queue, the ended ones before those in flight. Chunks lie
  along what the decoder was given and then along the queue in the order sent,
  each transfer's without a gap, and of the transfers in flight only the first
  holds any (`Ordered`). A chunk that was not lost is with the decoder or in the queue, what
  ended badly is cut, and after the drain the queue is empty unless the capture
  failed or gave up (`Accounted`). So a chunk that is fed is the next one or
  behind a gap (`NextIsFed`), and once the queue is empty everything intact is in the
  decoder. What the decoder holds back is behind a gap (`Yielded`): it stops before
  a chunk only when bytes before it are missing or a callback was broken off at
  it. For the pool, a transfer that is not with the USB stack is one not yet
  submitted or one that is spent (`Filled`). The steps are few shapes: a queue
  whose front ends (`EndingKeeps`), grows at its end, loses or rotates its first,
  or lets one pass the others when it is cancelled; one lemma for each says what
  becomes of the queue.
* `StreamDecoderProofs`: all that the run checks of the decoder, for streams, chunks
  and gaps of any length and every radix of a byte. None of it but the types is
  inductive, and each theorem adds a layer to the invariant of the one before.
  * `DecoderTypeCorrect`, also when transfers are lost: `TypeInv` gives the records
    sent and yielded their shapes. What is left of a buffer is always bytes, and
    only a length that was checked becomes a packet.
  * `CutsNeverMatter`: `StreamOK` says that buffer and wire, one behind the other,
    are the encodings of the records that are not decoded yet. Where each of them
    ends is a function (`Laid`), so no sum over a sequence is needed; a step that
    sends adds one value to it, a step that cuts changes nothing about it, and a step
    that decodes shifts the place it starts from. `NextRecord` is the core: a
    header in the buffer is that of the first record laid there. Its first byte is a
    marker exactly if that record is an event, because a length below
    `(Byte - 1) * Byte` never begins with one, and the padding, whatever it is, is
    dropped with its packet. When `feed()` returns, the buffer is shorter than the
    record it begins with, so once the wire is empty nothing is held back.
  * `TimesAlwaysExactOrLate`: `lastRaw` is the time of the last record within a wrap
    and `epoch` is whole wraps, of which some may have been missed (`TimesOK`).
    `ExtendFacts` is the arithmetic of `_extend`: the quotients of two times by the
    wrap are ordered as the times are, strictly if the remainder went down, and
    differ by at most one if less than a wrap has passed.
  * `FileAlwaysTellsTime`: `captured` lists the packets and nothing else
    (`CapturedOK`), and the file has a frame for each of those that were decoded
    (`FileOK`). `FrameFacts` shows that seconds and fraction of a frame add up
    to its time in ticks cut down once to microseconds, so that it differs from the
    time in cycles by one rounding and one cut; both keep the order.
* `CodecExchangeProofs!PositionBytesAlwaysSurvive` and `EncodersAlwaysAgree`: the
  digits of a number in a radix are its bytes again (`div` and `%` undo Horner's
  rule), and a word below the sign bit is the same number signed or not, so the
  cast through `int32_t` loses nothing the parsers let through. For the
  temperature both clamps and the biased word are compared case by case.
* `FirmwareTasksProofs!FirmwareTypeCorrect`: for both tasks overlapping at any
  word, on one core or two. `TypeOK` is not inductive: a store must know that the
  words it has still to write are halves of the position it was given (`TypeInv`).
  It says that no mixture of a torn store and a stale load ever makes a
  word of the focuser negative.
* `FirmwareTasksProofs!HarnessImplementsContract`: in one thread the firmware
  refines `EafContract`. `OneThread` says that while one task is inside a call
  the other is outside, and what the call's registers hold: the words as they
  are, the command as it was parsed, the position the loop computed from the
  loaded one. With it the loads and stores of a call but one are stutters of the
  contract (`SeenAt`, `SeenGoal`); the one left is `Travel`, `MoveTo`, `Halt`,
  `SetPosition` or `Answer`. With two cores the contract is broken, which
  `CommandsStand` and `RestIsReportedAtTarget` show.
* `PinefeatProbeProofs!AnswersAlwaysBelong`: until a timeout there is one command
  under way, unread or answered (`HalfDuplex`), because `ask()` takes its answer
  before the next question is written.
* `PinefeatProbeProofs`, everything else about the probe but its end
  (`ProbeTypeCorrect`, `AlwaysRoomToMove`, `HaltsAreAlwaysMeasured`,
  `VerdictAlwaysPutsLensBack`, `ViableIsAlwaysEarned`, `UsableIsAlwaysEarned`,
  `TestAlwaysMovesOnlyWhatItCan`), for every set of lenses, misses and answers owed, any
  number of cycles, vets and polls, and every script of `--send`. None of these is
  inductive; one invariant in layers carries them.
  * `Base`: the types, and how much is under way before the question being asked
    (`Backlog`): nothing or one answer, except that `--send` adds one with each
    timeout. That bounds the queues in `TypeOK`. Every answer on the line fits
    its question (`Fits`), and the last one given is still true of the controller
    (`Speaks`). A reply is therefore one of three things (`Turn`): the
    answer to the question (`Alone`), the answer to the question before it
    (`Behind`), or both at once, after which the probe is in step again
    (`Resynced`).
  * `SyncOK`: once the retarget test is driving, nothing is behind any more, even
    when an earlier session left an answer on the line. The calibration before it
    is the reason: the only answer that can be overdue there is that of the
    moving check, and neither `y` nor `n` passes for the `ok` of a calibration.
  * `CourseOK`: the lens is going where a move to the place the program waits for
    may end, and rests when its position is asked for. The first half of
    `HaltsAreMeasured` and `VerdictPutsLensBack` follow from it.
  * `MeasuredOK`: `worst` is the farthest any halt so far came to rest from its
    place. It needs `SyncOK`, not that answers were in time: a halt is measured
    behind a calibration, and no timeout leaves the test running.
  * `DrivingOK`, `SlipsOK`: in the test the lens is fitted and calibrated, a moving
    check that was answered `y` is remembered, and a controller that refuses
    retargets has one slip for each cycle that is over and one more for a retarget
    it has accepted since (`Slipped`); a refusal on the line ends the test
    (`Undecided`). After the last cycle `slips = Cycles`.
  * `VetSyncOK`, `VetSeenOK`, `VettedOK`: the first turn of `--vet` may be one
    answer behind. A late answer in place of the range has no number and ends the
    session; with the range right behind it, the two read as one reply end in the
    range. So every travel that was seen is the one its calibration measured, and
    from the second turn on nothing is behind.
  * `SessionOK`, `TravelOK`: the lens, the places the test remembers and the move
    under way all lie within the travel. The theorem takes as its hypothesis that
    the lens is found within its travel: `m` accepts any number, so `--scan` or
    `--send` of an earlier session can leave the lens beyond it, and the test's way
    back is to where it found the lens. Every lens the runs start with meets it.

The assumptions are the named `ASSUME`s of the modules, which TLC evaluates in the
runs. Those that say more than a type: `MemoryAssumption` (a positive rate, the
Kconfig default; the largest step fits the signed word), `ProbeAssumption` (at
least two polls fit in `settle`'s deadline, a pause is positive and no longer than
the longest advance, at least one cycle and one vet, a scan whose step is not zero,
as Python's `range` demands), `PortAssumption` (an answer owed to an earlier
session is one the controller can give), `RadixAssumption` of the decoder (a packet
is short enough that its length never begins with the event marker: 1027 is far
below 0xFF00), `ArgumentsAssumption` (`--travel` and
`--focus` are integers) and `TemperaturesAssumption` (hundredths of a degree are
integers).

Model-checked only:

* liveness under fairness, which the prover does not reach: `Arrives`,
  `HostSeesArrival`, `CreditsForever`, `TimedCaptureEnds`, `SessionEnds`;
* what does not hold: the four runs that expect a violation.

## 5. Not modelled

USB enumeration and descriptors (constant tables that the repository's tests
compare with a capture), request lengths and report ids of GET_REPORT, the
identity and serial bodies byte by byte (they are tags), the rounding of the
focuser's float in Python, the constant header of the pcap file, the command
line, `find_port`, and the stub backends. Build values the constants'
assumptions exclude (a rate of zero or less, a start position beyond 2147483 in
the firmware or below zero in Python) are listed as hazards.

## 6. Plan

In order:

1. `TwoVehicles`: both vehicles given the same reports, with the positions from
   2^31 on that only one of them accepts.
2. `FirmwareTasks` driven by `MainLoop`'s clock, so that travel and its delay
   are checked together.
3. Proofs of what these two state. A module with theorems of its own would be the
   ninth; those about the loop belong in `MainLoopProofs`, those about the two
   vehicles in `CodecExchangeProofs`.
