# A TLA+ model of the maglev firmware

The program under `src/` is the firmware of a magnetic levitation motor drive: an
STM32F429 with ChibiOS/RT 18.2.1 and lwIP. It regulates a motor current from the PWM
interrupt, takes commands and sends telemetry over MQTT, measures the loop gain of the
current loop while it runs, and sends the results over UDP. This directory models the
parts of it in which order, interleaving and boundaries decide whether it is right,
checks them with TLC on small instances, and proves the central facts with TLAPS for
every value of the constants. `PROJECT.json` gives, for every definition, the lines it
models.

## 1. The system

### Who runs

| actor | priority | code |
|---|---|---|
| PWM interrupt (TIM1 update) | above all threads | `m1_pwm_cb`, `MotorControlCb`, `FreqResponse_Update`, `BiquadUpdateLim` |
| ADC1, injected group | hardware, beside everything | triggered by TIM1 compare channel 4 at 97% of the period |
| Ethernet DMA and its interrupt | hardware; above all threads | descriptor rings of `hal_mac_lld.c` |
| comm thread | NORMALPRIO + 1 | `_CommTask` in `comms.c`, calling `mqtt_*` |
| main | NORMALPRIO, ends after start-up | `main` |
| lwip_thread | main's less one, then LOWPRIO | start-up of the interface, reception, link poll (`lwipthread.c`) |
| lwIP's tcpip thread | LOWPRIO + 1 | `mqtt_tcp_*_cb`, `mqtt_cyclic_timer`, `mqtt_cb`, `mqtt_pub_cb`, `mqtt_data_cb`, `handle_incoming_command` |
| motor control thread (mcTask) | LOWPRIO | `_MCTask`, calling `FreqResponse_Poll` and `fr_emit` |

One core, strict priorities, no time slicing: a thread is interrupted only by one above
it, at any instruction, and runs only while those above it sleep; two threads of equal
priority change over only where one blocks or yields. Nothing locks the MQTT client, the
communication structure or the measurement. The build is `-O0`, so stores happen in
program order.

### Parts, their state, their operations and what makes them correct

| part | state | operations | what must hold |
|---|---|---|---|
| Communication task (`comms.c`) | `connection_response_received`, `connection_status`, program counter | connect, wait, subscribe, publish loop, `mqtt_cb` | never waits for an answer that cannot come, never takes an old answer for a new one, recovers |
| MQTT connection (`mqtt.c`) | `conn_state`, `conn`, `data_cb`, `output`, cyclic timer | `mqtt_client_connect`, `mqtt_close`, TCP callbacks, timer, publish, subscribe | CONNECT first, one timer per session, no NULL used |
| MQTT request list (`mqtt.c`) | `req_list`, `pend_req_queue`, `timeout_diff` | create, append, take, time out, clear | a finite list, no slot lost, deadlines kept |
| MQTT reception (`mqtt.c`, `comms.c`) | `rx_buffer`, `msg_idx`, `sub_buffer`, `incoming_publish` | parse, reassemble, hand over | commands whole, in order, at most once |
| MQTT output ring buffer (`mqtt.c`) | `put`, `get`, 256 bytes | put, read in two pieces, advance | no byte lost or overwritten |
| Current loop (`motor_control.c`, `main.c`) | `enabled`, `i_target`, `error_count`, CCR, FAULT pin, ADC flags | PWM interrupt, stores of commands | drive bounded, off is off, errors counted |
| Compensator (`biquad.c`) | two inputs, two outputs | `BiquadUpdateLim`, `BiquadReset` | limited output, no windup, forgets NaN |
| Loop gain measurement (`freq_response.c`) | `f`, sums, `samples_remaining` | `FreqResponse_Poll`, `FreqResponse_Update` | one owner at a time, exact results, goes on |
| Tachometer (`tach.c`, `hall_sensors.c`) | `current_segment`, `counter` | read lines, decode, `TachInit`, `TachUpdate` | count follows the rotor |
| Command decoding (`main.c`, `cwpack.c`) | unpack context, item union | `handle_incoming_command`, `cw_unpack_next` | a key sets its own variable only |
| Telemetry and heartbeat (`main.c`, `comms.c`) | next due time | `dispatch_telemetry`, `heartbeat` | sent when due, also across the wrap of the clock |
| Results over UDP (`motor_control.c`) | one pbuf | `fr_emit` | a result is not overwritten before it is sent |
| Ethernet transmission (`lwipthread.c`, `hal_mac.c`, `hal_mac_lld.c`) | descriptors, `txptr`, queue of threads | `low_level_output`, wait with timeout, DMA | frames whole, once, in order; every send returns |
| Ethernet reception and link (the same files, `tcpip.c`) | descriptors, events, mailbox, link flag | `lwip_thread`, interrupt, link poll, `tcpip_thread` | no frame left lying, the flag follows the cable |
| EEPROM, identifier (`93AA46AE48.c`, `util.c`) | GPIO lines; cached string | bit banged read; hex | the bytes of the chip |
| Start-up (`main.c`, `lwipInit`) | | order of initialisations | gets through; what it starts finds the interface up |

Interactions: the comm thread and the tcpip thread share the MQTT client and `comms_t`;
they and mcTask share the transmit descriptors; lwip_thread hands packets and link
changes to the tcpip thread through its mailbox; the tcpip thread stores what the PWM
interrupt reads; the interrupt and the motor control thread share the measurement; the
converter and the interrupt share the status register.

`PROJECT.json` lists the hazards of this code at the line where each bites.

## 2. Modules

| module | models |
|---|---|
| `Comms`, `CommsProofs` | `_CommTask` and the client's connection, with TCP and a broker as environment |
| `Schedule`, proved about in `BootProofs` | when `_CommTask` publishes, on a clock that wraps |
| `OutputRing` | the client's output ring buffer, byte by byte, and the two threads that send from it |
| `RequestQueue` | what the list of pending requests promises: a queue with absolute deadlines |
| `MqttQueueProofs` | the theorems on `OutputRing` and `RequestQueue` |
| `MqttRequests`, `RequestProofs` | the pointer list with differential timeouts; implements `RequestQueue` |
| `CommandChannel` | what reception promises the command handler |
| `InPublish`, `InPublishProofs` | the parser, byte by byte, and the reassembly; implements `CommandChannel` |
| `Command`, `MCCommand`, `CommandProofs` | the unpacker and `handle_incoming_command` |
| `FreqResponse` | the loop gain measurement: task and interrupt half |
| `MotorControl`, `MCMotor`, `MotorProofs` | the current loop, composed with `FreqResponse` |
| `MacTransmit` | sending of frames by three threads through the driver |
| `Results`, `ResultsProofs` | `fr_emit` and its pbuf, composed with `MacTransmit`; theorems on both |
| `Reception` | receive ring, events, `lwip_thread`, mailbox, link poll |
| `Eeprom` | the bit banged read of the MAC address, and the chip |
| `Boot`, `MCBoot`, `BootProofs` | `main`, composed of `Eeprom` and `Reception`; theorems on all three |
| `Tach` | hall sensors and tachometer; its theorems are in `MotorProofs` |

A definition named `...M` is a plausible bug in the definition it is named after. It is
used by no specification; it exists to show that a property can fail.

### Comms

`comm` is the program counter of `_CommTask`: the four sleeps (`presleep` 98-101,
`retrysleep` 105, `waitsleep` 107, `loopsleep` 133 of `comms.c`) and the points between
two client calls. `conn_state`, `conn`, `data_cb`, `output`, `timer`, `tick` are the
client's fields; `pubs` and `subs` count request slots in use. A callback of the tcpip
thread is one step, except `mqtt_close` and `mqtt_cb`, which are cut at the stores the
comm thread can see: detach, `conn = NULL`, clear requests and timer, `conn_state =
TCP_DISCONNECTED`, `connection_status`, `connection_response_received` (`tp` =
`closing`, `nulled`, `cleared`, `notify`, `flag`). `tcp`, `tosrv`, `tocli`, `acked` and
`session` are TCP and the broker. The broker answers CONNECT by accepting or refusing,
SUBSCRIBE by SUBACK, and publishes only to a subscribed session.

The comm thread can preempt the tcpip thread anywhere. `wakes`, chosen at the start,
says whether it does so inside a callback. With FALSE a callback finishes before a sleep
ends, the case of the usual timing; with TRUE a wake-up falls between any two of the
stores above. Properties that need FALSE say so and are named `Quiet...`. A long sleep
(100 ms and more) that begins inside a callback does not end inside it (`slept`): the
callback is then the only thread ready and takes microseconds. The 1 ms sleep of the
loop may end at any time.

A failure is a refused connection, a reset, a FIN, a `tcp_write` without memory or a
`mqtt_client_connect` that fails; `MaxFaults` bounds their number.

### MqttRequests and RequestQueue

`next`, `pkt_id`, `timeout_diff` are the fields of `req_list`, `tail` is
`pend_req_queue`. A free slot points at itself, as in the code. The comm thread's
operations (create and append) are atomic, for it has the higher priority; the tcpip
thread's take and expiry are cut at their loads and stores (`search`, `load`, `unchain`,
`pass`, `free`; `elapsed`, `expire`). `preempt`, chosen at the start, says whether an
append may fall between them. Time is counted in runs of the cyclic timer.

`RequestQueue` has requests with absolute deadlines. The refinement mapping `Pending`
adds up the differences along the list. In the middle of a take the time of the request
just unchained still counts for those behind it; in the middle of an expiry it is
already paid.

### OutputRing

`put` and `get` run freely modulo `IdxMod`, as 16 bit indices do, over a buffer of
`Size`. `mqtt_output_send` is cut where it reads or writes what the other thread may
change: the lengths, `tcp_write`, the store of `get`, and the same again for the stretch
behind the wrap (`pc`, one per thread). A byte is a tag that counts modulo `Tags`, more
than the buffer holds, so a byte missing, repeated or stale shows at once in what TCP is
handed (`intact`). `tcp_write` takes all or nothing and may fail. `preempt` is as in
`MqttRequests`.

### Schedule

`now` is the system time modulo `W`. A turn of the loop reads it twice, for telemetry
and in `heartbeat`; between readings any number of ticks up to a bound goes by. The
connection may be away for any time. `age`, `wait` and `since` are the true times, which
the code does not know.

### InPublish and CommandChannel

`stream` is what the broker has sent, `chunk` the pbuf being parsed: TCP hands over any
non-empty prefix. One step is one turn of the loop of `mqtt_parse_incoming`: a byte of
the fixed header, or the copy of as many bytes as pbuf, message and buffer allow, with
the PUBLISH branch of `mqtt_message_received` and the callbacks in it. The locals start
anew with every pbuf and the header is read again from `rx_buffer`, as in the code. The
connection can end between any two pbufs; `mqtt_client_connect` clears the client and
not `comms_t`. Payload bytes are distinct, so that any mixture would show.

`CommandChannel` says that payloads are handled whole, in order and at most once, that
one longer than the buffer is skipped, and that a lost connection loses what was under
way.

### Command

A payload is a sequence of MessagePack items, the last of which may be cut off or
malformed, or be a string or blob whose 32 bit length wraps the unpacker's pointer (`p +
more`, `cwpack_defines.h:300`). Such an item passes for whole and takes `current` to
some place in front of it; from then on (`Astray`) the unpacker delivers any item, or
the end. The properties are stated up to that point. The unpack context has one item, a
union; `length` is the word of it that holds a string's length. The handler compares the
key over that word after the value has been unpacked over it, so what each kind of item
does to the word is modelled (`LengthAfter`). A name is two letters, enough for a proper
prefix and a longer key. `SameStart` is `strncmp`: it ends at the NUL of the name, so
the name, a NUL and more also matches, and a NUL before the name's end does not.
`Meaning` says what a command means without going through the unpacker: the last value
of the right type behind the name.

### FreqResponse and MotorControl

`poll` is the program counter of `FreqResponse_Poll`; its steps are the groups of loads
and stores between which the interrupt can fall. A sum is represented by the number of
samples in it, the result by the counts it was computed from. `theta_increment` is the
frequency it was derived from; no property reads it, so that the samples of a result
were taken at its frequency is checked by their number only. In `MotorControl` the
interrupt reads the data registers, reads the flag, clears it, and runs the control law
(`isr`); the converter may finish beside it. Normally it does not finish between the
reads and the clear: it is triggered 0.86 us before the period ends and takes 3.8 us. An
interrupt delayed by a locked section can meet it there: `raced` records that it
happened. The end of a conversion changes the data registers and the flag at once; the
scan of two channels updates JDR1 one conversion before JDR2 and JEOC, and an interrupt
that meets it in between, reading one new and one old value, is not told apart.

The error of the loop is finite, infinite or not a number, as the target is. The raw
output of the compensator is any value up to `Over` beyond the limits, or NaN where the
arithmetic can give one. `MAX` and `MIN` are the macros of the code, with its order of
arguments and C's comparison with NaN. A negative duty becomes zero in the register,
which is what the conversion instruction of this core does.

### Tach

Nothing in the firmware calls the tachometer or the hall sensor code yet; it is modelled
as a library, called once per sampling period. The rotor moves by one segment, also
between the reads of two lines. `visited` is the set of positions it had in the sampling
period, `base` the count that stands for position 0. `noisy` is chosen at the start:
with it a line reads as either level.

### MacTransmit and Results

Each descriptor is free, locked by a thread that fills it, or owned by the DMA, which
sends strictly in ring order. `tps` is the DMA's transmit process: at a descriptor that
it does not own it suspends, and it looks again only when a release finds it suspended
and restarts it (`hal_mac_lld.c:478-482`), which happens in the locked section that sets
OWN. That the DMA reads OWN and suspends in one step is taken from the hardware; a
release between the two would find it still running. `pc` is each thread's position in
`low_level_output`; a locked section is one step, and a thread steps only when none
above it is ready. A thread that found no descriptor enqueues itself in a later section
and sleeps until a transmission wakes all, or its timeout. Frames carry the number of
their allocation.

`Results` adds `fr_emit`: `room` is the space in front of the payload of its one pbuf,
with the sizes of the real headers. `udp_sendto`, IP and Ethernet each move the payload
back, nothing moves it forward again; once there is no room for the UDP header a header
pbuf is chained in front and freed after the send, with the reference it holds (`ref`).

### Reception, Eeprom and Boot

`rd` are the receive descriptors, `epending` and `mask` the pending events and those of
the current turn, `lpc` the position of `lwip_thread` from its creation on. Interrupt
and timer signal only after it has registered its listeners. `cpu` is who runs at
LOWPRIO when nothing above does: `lwip_thread` and mcTask hand it over only where they
block or yield. The link poll reads the cable, compares with the flag that the tcpip
thread sets, and posts without blocking (`Accepts`: room in the mailbox and in the
pool).

`Eeprom` clocks each bit of command and data through a model of the chip, which ignores
zeros before the start bit, answers the last bit of the command with a dummy zero, and
puts out its memory only after the opcode of a read. A byte is the vector of its bits,
most significant first. The mark byte is asserted.

`Boot` runs the two under `main`: read the address, create `lwip_thread`, suspend until
it resumes main, start motor control and the comm thread, exit. A resume before the
suspend is lost, as in the code, so it matters that `lwip_thread` is created below main.

## 3. Runs

| run | asks | result |
|---|---|---|
| `tach` | Is a torn reading still a position? Does the count follow a rotor that moves at most one segment per period? Is a fraction of a turn ever lost, with or without noise? | holds |
| `comms` | Is the connection lifecycle right, with up to three failures and wake-ups outside callbacks or anywhere? Does it recover? | holds; the assertion of `mqtt_output_send`, fresh answers and recovery only for wake-ups outside callbacks |
| `comms_assert` | Does the assertion of `mqtt_output_send` hold with wake-ups anywhere? | violated |
| `requests` | Does the pointer list implement the queue with deadlines? Is a slot lost? Is the list still a list when appends fall anywhere? | holds; refinement, slots and the assertion of `mqtt_append_request` for appends between list operations |
| `inpublish` | Do commands arrive whole, in order, once, however the stream is cut? What makes the client give up? | holds; an empty payload only |
| `command` | Does a command do what it says, whole, cut off, nested or malformed? | holds until a length wraps |
| `ring` | Does TCP get the bytes in order and once, across both wraps, partial and failing writes? Does waiting output get out? | holds while no send is interrupted |
| `schedule` | Are heartbeats and telemetry on time on a clock that wraps? | heartbeats are; telemetry except around the wrap, as the property says |
| `motor` | Is the drive bounded, off at rest, the error count exact, a result made of its own samples; does a disable take effect and the sweep go on? | holds; the error count until a conversion ends inside the check |
| `results` | Do frames of three threads leave whole and in order, does every send return, is the pbuf of the results kept? | holds; at most one result is lost |
| `results_lost` | Is no result lost for lack of room? | violated |
| `boot` | Does start-up end, with the interface up and the right address? Is no frame left lying, does the link flag follow the cable? | holds |

### The two violations

- `comms_assert`: the comm thread wakes up inside `mqtt_close` after `conn = NULL` and
  before `conn_state = TCP_DISCONNECTED`, and publishes; `mqtt_output_send` asserts that
  `conn` is not NULL. lwIP's raw API must only be called from the tcpip thread.
- `results_lost`: the pbuf of the results is allocated with room for one set of headers
  (56 bytes with alignment, of which 42 are used) and sent again and again. The second
  result has room for the UDP header, none for the IP header, and is dropped. From the
  third on a header pbuf is chained.

### What the conditions in the properties stand for

Where a property is claimed under a condition, the condition is needed: without it TLC
finds the property violated.

- `QuietAnswerIsForThisAttempt`: `mqtt_cb` stores the status and then the flag. Between
  the two the comm thread sees the lost connection, clears the flag and sleeps; the flag
  then set is taken for the answer to the next attempt.
- `TimeBeforeInBound`, `NoSlotLost`, `QueueRefined`: a publish between the unchaining
  and the addition of the remaining time in `mqtt_take_request` makes the differences
  exceed the timeout. The same window, one store earlier, loses a request with its slot.
- `StreamIntact`: a publish between `tcp_write` and the store of `get` in the tcpip
  thread sends the same bytes again.
- `OnlyEmptyRefused`: a QoS 0 publish without payload is documented to reach the publish
  callback (`mqtt.h:135`); the code asks for a byte behind the topic and closes the
  connection.
- `ErrorCountExact`: the data registers are read before the flag is tested and the flag
  is cleared with a plain store, so a conversion that ends in between is counted as
  missing, or confirms a value that was not used.
- `TelemetryOnTime`: `time_now > next_outpub` compares absolute times. If `next_outpub`
  lies in the last turn before the wrap and no turn falls between the two, telemetry
  pauses for a whole turn of the clock (five days); if it is the very last tick, until
  the next connection.
- `SendReturns`: `macWaitTransmitDescriptor` starts its timeout anew at each wake-up, so
  threads above that keep taking the descriptors can hold a thread up for longer.
- `LinkFollows`: frames that come as fast as the loop over `low_level_input` takes them
  keep the link from being polled.

### Bounds

- `tach`: travel of 7 segments each way, more than a revolution, so every pair of
  neighbouring segments and the wrap are crossed both ways; |count| up to 14, so that
  with noise the bound is not what keeps the count right. `counter` starts as 0 or 7,
  for `TachInit` does not set it.
- `comms`: a ring buffer of 3 messages, a send buffer of 2 and 4 slots make each the
  limiting one in some behaviour; a connect timeout of 3 ticks; 3 messages from the
  broker under way; 3 failures, enough for two connections to fail and the third to be
  disturbed while state of both is still around.
- `requests`: 3 slots give a first, a middle and a last request; a timeout of 3 ticks
  and 4 ticks in all let requests of different ages expire and slots be used again;
  `MaxDiff` cuts off differences that grow without end once appends interfere.
- `inpublish`: a buffer of 8 bytes and a length byte with 8 values instead of 128 bring
  the same boundaries close. The payloads of 0, 1, 3, 4, 5, 9 and 10 bytes are: none,
  the shortest, one that fills the buffer exactly and its neighbours (the header is 2
  bytes and becomes 3 from payload 5 on), one of the size of `sub_buffer` and one
  longer. Two messages, one SUBACK, reconnections at will.
- `command`: up to 4 whole items behind the first and one that is broken or wraps: two
  pairs, so a repeated key, a value of another type between key and value, and a cut in
  either half of a pair occur. Sizes 0 to 3 and 7; an int of 3 bits makes 7 negative.
- `ring`: 4 bytes, indices modulo 8, a send buffer of 3, messages of 1 to 3 bytes: every
  offset of the wrap, with both wraps coinciding and not. One failing write.
- `schedule`: a clock of 40 ticks, interval 2 ms, delay 6, turns of up to 3 ticks and 1
  more: several heartbeats and telemetries fit in a turn of the clock, as in the
  program; histories up to 90, more than two turns of the clock.
- `motor`: two frequencies with two samples and one, so that both the last of several
  samples and an only sample occur; duty limit 1 with raw outputs up to 2; a counter
  that wraps at 2.
- `results`: 2 descriptors for 3 threads, frames numbered modulo 3, 3 changes of the
  link; headers and headroom as in the program.
- `boot`: a chip of 3-bit addresses and bytes with a mark and two bytes, programmed so
  that any shift, swap or reversal shows, and a blank one; 2 descriptors, 2 mailbox
  entries, 2 messages of either kind (the program has 16 and 8 of each, so there too
  packets alone do not fill the mailbox). Frames, ticks and cable changes without bound.

Deadlock is checked in all runs except `command`, where the handler ends.

### Fairness

- `Comms`: weak fairness of the comm thread and the broker; strong fairness of the steps
  of the tcpip thread. A thread that is ready runs. The tcpip thread has the lower
  priority and is enabled only while the comm thread sleeps, which it does again and
  again, in each turn of each loop: so strong. TCP delivers what an established
  connection was given. No fairness is assumed of failures, and `MaxFaults` makes them
  finite: `Recovers` is about what happens after the last.
- `MotorControl`: weak fairness of timer, converter and interrupt, which are hardware;
  strong fairness of `_MCTask`, which runs whenever the interrupt has returned and the
  other threads sleep. None of commands: the motor may be left as it is forever.
- `OutputRing`: weak fairness of both senders and of lwIP's poll; strong of
  acknowledgements, which wait in the mailbox while the tcpip thread is busy.
- `Results`: weak fairness of the DMA's steps, which a suspended DMA has none of, so
  that a frame leaves only if the driver restarts it; strong of each thread's steps and
  timeout, since the threads above pause between two frames.
- `Boot`: weak fairness of each thread's steps, of the timer tick and of mcTask's yield.
  Frames and the cable are free.

## 4. Proofs

All theorems hold for every value of the constants their modules assume something about:
each module that declares constants names what it assumes (`CommsAssumption`,
`RingAssumption`, `RequestsAssumption`, ...). These are sizes being positive and, where
the code depends on it, how two of them relate: the indices of the ring wrap at a
multiple of its size, the clock is wider than delay and interval by two turns, a header
pbuf has room for the headers in front of UDP's. Some theorems have a hypothesis of
their own: `QueueConstants`, the same for the abstract queue; at most one segment per
sampling period (`TachTornRead`, `TachCountTracks`), without which the count cannot
follow; room for two messages in the output ring (`CommsOnlineIsServed`), without which
the SUBSCRIBE may find the ring full of the CONNECT; the header sizes of the build
(`ResultsOneLost`).

| theorem | says |
|---|---|
| `TachTypeCorrect`, `TachCongruent` | types; the count is congruent to the segment modulo six, at any speed and with any noise |
| `TachTornRead`, `TachCountTracks` | without noise, a reading torn by a step of the rotor is still a position it had, and the count follows it over any travel |
| `CommsTypeCorrect` | types, including that neither slots nor buffers overflow |
| `CommsTimer`, `CommsWait`, `CommsDataCallback` | one cyclic timer per session; the wait has an attempt under way; no PUBLISH finds `data_cb` NULL. Also with wake-ups inside callbacks |
| `CommsConnectFirst`, `CommsOnlineIsServed` | CONNECT leads every connection and occurs once; in the publish loop the client is connected and its SUBSCRIBE queued, under way or received. Also with wake-ups inside callbacks |
| `CommsOutputHasConnection`, `CommsAnswer` | the assertion of `mqtt_output_send` and the freshness of answers, if no wake-up falls inside a callback |
| `RingStreamIntact`, `RingHoldsRest` | TCP gets every byte once and in order, and the ring holds exactly the rest, while no send is interrupted |
| `QueueTypeCorrect`, `QueueOrdered` | the abstract queue never exceeds the slots; its deadlines are ordered, at most the timeout ahead and one tick behind |
| `RequestsListSound` | the pointer list stays a list, also if appends fall between the stores of a take or an expiry |
| `RequestsTimeBound`, `RequestsNoSlotLost`, `RequestsImplementQueue` | the assertion of `mqtt_append_request`, no slot lost, and the refinement of `RequestQueue`, while no append falls inside a list operation |
| `InPublishInvariant`, `OnlyEmptyPayloadsRefused` | for any buffer sizes, payload lengths and cuts of the stream, the parser stands where the messages are; only an empty payload is refused, and "Bail" is not taken |
| `ParserImplementsChannel` | parser and callbacks implement `CommandChannel` |
| `FreqResultExact`, `FreqOneOwner` | the handover by `samples_remaining` |
| `MotorIsMeasurement`, `MotorResultExact`, `MotorOneOwner` | the current loop implements the measurement, so the handover holds within it |
| `MotorTypeCorrect`, `MotorBoundedDrive`, `MotorNaN`, `MotorOffIsRest` | the drive |
| `MotorErrorCount` | the error count, until a conversion ends inside the check |
| `CommandStores` | for payloads of any length, until a length wraps, a store takes its value from a whole item behind a string that `strncmp` takes for the name |
| `CommandApplied` | a flat command of any length, none of whose lengths wraps and whose keys are names or match none, sets exactly what it says |
| `HeartbeatsArePaced`, `TelemetryIsNotEarly`, `TelemetryIsOnTime` | the schedule, for every width of the clock that exceeds delay and interval by two turns |
| `ResultsFramesIntact` | frames of three threads leave whole, once and in order, for any number of descriptors |
| `ResultsOneLost` | at most one result is lost for lack of room |
| `NoReceivedFrameForgotten`, `BootIsReception`, `BootForgetsNoFrame` | no received frame is slept over, for any number of descriptors, by the network threads alone; the composed start-up implements them, so neither by it |
| `BootStackReady` | what `main` starts finds the interface up, with the address of the chip bit for bit |

**Comms.** None of the properties is inductive. `Shape` says, for each step of a running
callback, how `conn`, the TCP state, the timer and `tick` relate to `conn_state`: equal
outside `mqtt_close`, and in it ahead of `conn_state` by exactly the stores already
made. It also says that a comm thread that waits without an answer has an attempt under
way, or a callback about to answer. It is preserved by wake-ups anywhere, because
`mqtt_client_connect` refuses to start while `conn_state` is not yet `TCP_DISCONNECTED`.
`Quiet` adds what holds when wake-ups stay outside callbacks: an awake comm thread finds
no callback running, and the status it sees is the outcome of the present connection
(`Settled`). `DataShape` carries the data callback: while it is not set no SUBSCRIBE is
queued or under way, the session is not subscribed, and so no PUBLISH can be. The proof
of each step goes through the actions one by one; the type invariant is split by sort
(flags, control, counters, buffers), and its counters need `TickShape`.

For `ConnectFirst` and `OnlineIsServed` the messages under way and the ring buffer
behind them are one sequence, `Stream`, since `mqtt_output_send` only moves the boundary
between the two. `StreamCases` says what a step can do to it: keep it, add a request,
start it, drop it, or deliver its first message. `StreamLed` (the CONNECT is at its
front, and nowhere else, until the broker has it), `Fresh` (before `mqtt_subscribe` only
the CONNECT is there, so the SUBSCRIBE finds room and a slot), `Served` and `Accepted`
are then shown for the cases instead of for some thirty actions.

**OutputRing.** `RingInv` replaces the wrapping indices by two natural numbers: P bytes
appended and G released, with `put`, `get`, the tags and the places in the buffer being
their remainders. It is preserved because at most `Size` bytes are between the two and
both `IdxMod` and the place in the buffer wrap together (`IdxMod % Size = 0`). The
lemmas on remainders are derived from the quotients.

**RequestQueue.** `Ordered` is inductive with the type: an append has the latest
deadline there is, a take leaves a subsequence, and `Tick` waits until nothing is
overdue.

**MqttRequests.** The list is defined by walking `next` from `tail`, a recursive
function. `WalkIs` says that it yields any sequence of distinct slots that are linked in
that order (`Linked`), and its companion gives the sums of the differences along it; so
each step has only to exhibit the sequence after it. Induction is done by the least
counterexample (`Least`), since the natural numbers are well founded. `Sound` is what
survives appends anywhere: the list is linked, and the tcpip thread's pointers are where
its position says, `loaded` being the present successor, or NULL if an append has added
one since the load. In that case the unchaining cuts the appended request off, and the
list is still a list; it is the slot that is lost. `Undisturbed`
adds what needs appends to stay outside: every slot is free, linked, or the one being
unchained; the differences sum to at most the timeout, the time of the unchained request
included until it is passed on. For the refinement every action is shown to be a step of
`RequestQueue` or to leave `Pending` alone: creating and appending is `Add`, the
unchaining is `Take`, the start of `mqtt_request_time_elapsed` is `Tick`, each removal in
it is `Expire`, clearing the list and reconnecting are `Drop`. That `Tick` waits until
nothing is overdue holds because the expiry ends only at a request that is not. Passing
on the time of the unchained request and freeing it do not show.

**InPublish.** The invariant `IInv` relates parser, buffers and stream to the messages
sent. `Framed` says that bytes are whole messages carrying given payloads: the least
relation that is kept by appending a message, which needs no recursion. Between two
messages all unread bytes, those of the pbuf and those TCP still has, are framed by
`inflight`. Within a message `m` they are the rest of `m` and then framed bytes
(`Position`), the fixed header is in `rx_buffer` as far as it has come (`Header`), also
when the locals start anew with a pbuf and read it again (`Locals`), the window behind
it holds the bytes copied since it was last passed on (`Copied`), and `sub` holds the
bytes of the payload passed on, if the payload fits (`PassedOn`). `LengthSoFar` shows
that the header ends, with the right length, after its second or third byte and at no
other; `CopyingBytes` that the turn behind it copies the next bytes of `m` to the next
place of the window, the arithmetic of the wrapping place being `PlaceMoves`;
`FragmentKeeps` that a fragment is passed on when the window is full or the message
complete, so that the first has the topic and at least one byte of the payload unless
that is empty, and `AfterFragment` that the last one is the channel's delivery. Giving
up a connection and reconnecting are the channel's loss. `InPublishAssumption` asks that
the window takes the header, the topic and a byte, and that a length has at most two
length bytes.

**Measurement.** `Handover` states, for each position of `FreqResponse_Poll`, which of
sums, norm and `samples_remaining` are complete: while the task waits, samples taken
plus samples remaining are the samples of the frequency; while it works,
`samples_remaining` is zero, so the interrupt changes nothing. `MeasurementStep` shows
that every step of `MotorControl` is a step of `FreqResponse` or leaves it alone, so its
theorems carry over.

**Current loop.** `Loop` has the bounds on the fed back outputs, which need
`LimitBounds`: the limiter's result lies within the limits for every input and is the
low limit for NaN, thanks to the order of its arguments. `Counted` relates the flag to
the history at each position of the interrupt.

**Command.** `Inv` says that while a value is to be read and no length has wrapped, the
key is the string of the item just passed, and its length is in the union. `Unpacked`
gives the cases of `cw_unpack_next`; with them a store that happens has its key and its
value next to each other in the payload. `Progress` adds, for flat commands, that the
variables are what the pairs passed so far mean and that the unpacker stands where the
next pair begins; no length of a flat command wraps (`FlatStays`). `StartMatches`
relates the comparison character by character to the two forms a matching key can have.

**Schedule.** `BeatInv`: the time the code computes since the last heartbeat never
exceeds the true one, so no heartbeat is early, and the time waited in the loop exceeds
it by at most one turn, so none is late, even if the clock went round during an absence.
`OutInv` relates `next_outpub` to the time since the last telemetry by whether the one
or the other has wrapped. The arithmetic is without `%`: sums and differences of times
wrap at most once.

**Transmission and results.** `MacInv`: the descriptors in use are one run of the ring,
from the one the DMA sends next to the one handed out next, and carry consecutive
numbers (`InTurn`); a thread that fills a descriptor has it locked, alone (`Holders`).
`Rooms`: with the header sizes of the build the room takes three values, 56, 14 and 6,
and a result is lost only when it takes the room from 14 to 6.

**Reception and start-up.** `OneRun`: the descriptors not with the DMA are one run of
the ring, from the oldest one lwip_thread has not given back to the one the DMA writes
next. `Held`: the one being read is among them. `Announced`: if the run is not empty, an
event is pending or lwip_thread is on its way to look. The last alone is not inductive:
only with `OneRun` does an empty descriptor at `rxptr` mean an empty ring. The theorem
is about `ReceptionSpec`, the network threads under no condition; every step of `Boot`
is a step of it or leaves its variables alone. `EeInv` has the chip in step with the
driver's loops: it has shifted in what the driver sent, its address and bit are the
driver's counters, and what has been read so far is its memory. `Started` orders the
positions of `main` and `lwip_thread`.

**Tach.** `Congruent` is inductive because a difference folded once from each side is
congruent to the plain one. `Tracking` says that the positions of a period are
neighbours, that each line read so far is that line at one of them, and that the count
stands for one of them. Two neighbouring positions differ in one line, so any mixture of
their lines is the code of one of the two.

### Model-checked only

The liveness properties `Recovers`, `DisableTakesEffect`, `SweepGoesOn`, `OutputMoves`,
`FramesLeave`, `SendReturns`, `BootCompletes` and `LinkFollows`: liveness under fairness
is beyond the prover. Every other property that a passing run checks is also proved.

## 5. Not modelled

- The values of the filter and of the measurement, `HallSensorsStateToAngle` and
  `BiquadUpdate`: float code without control of its own. Nothing calls the last two, nor
  any other part of the tachometer and hall sensor code, which is modelled all the same.
- The bytes of heartbeat and telemetry (`dispatch_telemetry`, `heartbeat`'s packing):
  one fixed key and one value in a buffer many times their size.
- The bytes of a MessagePack item. An item is whole, cut off or malformed, or its length
  wraps, which is all that the handler can tell. What the unpacker reads after a wrap is
  whatever lies there: any item in the model, and no property speaks of it.
- In `Comms`, callbacks of the tcpip thread while the comm thread waits for a transmit
  descriptor: a publish can block in `low_level_output` for up to 50 ms, and the tcpip
  thread then runs with the client in the middle of a send. The model runs callbacks only
  while the comm thread sleeps; `OutputRing` has a send interrupted by another.
- QoS 1 and 2, keep-alive, user names and `mqtt_disconnect`: configured off or not
  called.
- The hex conversion of the identifier (`util.c`): no state, no order.
- TCP, ARP, IP routing and DHCP in lwIP, and ChibiOS below what `Reception` has of its
  events: third party code and the environment of the program. `fr_emit` enters the
  stack from mcTask; what this may do inside lwIP's core, above the driver, is not
  modelled.
- The poll callback that `mqtt_close` leaves attached to a closing pcb. `tcp_write`
  refuses a closing connection, so it matters only if the FIN could not be queued for
  lack of memory.
- Clock, pin and converter setup (`halInit`, register writes in `main`): straight
  sequences of stores to hardware.
- Nothing reacts to a lost connection while the motor runs, and `enable` and `i_target`
  of one command are two stores. No line of the project says what should happen, so
  there is no property to state.
