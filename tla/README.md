# A verification of cgr101-scpi

`cgr101-scpi` is an instrument server: it speaks SCPI with one client on its
standard streams and drives a Syscomp CGR-101 (oscilloscope, waveform and PWM
generator, digital port) through a helper process it spawns.  It is one
thread around `select()`, and most of what can go wrong in it comes from the
order of things: a client that sends ahead, a device that answers when it
likes, a line of commands whose later half is waiting for the earlier half,
a signal in the middle of it.

This directory holds TLA+ modules that model that behaviour, configurations
that check it with TLC, and theorems that TLAPS proves.  Paths below are
those of the repository (`src/` is its source directory, `doc/` its notes,
`test/` its Ruby tests).

## 1. The system

### 1.1 Components

| component | code | state it keeps | operations |
|---|---|---|---|
| server loop | `server.c`, `worker.c` | the registered workers, `server_exit`, `info->quit` | `select()` for 10 ms, call the ready workers in the order they were registered, leave when told to quit |
| event pipe | `event.c`, `event.h` | a pipe of one-byte tokens | `event_send` appends one, `event_handler` reads one and calls its handler |
| line processing | `parser.c`, `scpi_core.c` | `parser_block_until_active`, `info->block_input`, `opcq` | run one line per `PROCESS_LINE`, block and unblock |
| line buffer | `parser.c` | `cli_buf`, `cli_offset`, `cli_line`, `cli_line_len` | read what is there, cut a line in place, keep leftovers |
| header path | `parser.c`, prefix rules of `scpi.y` | the prefix tokens and `replay` | add a word, replay the path in front of a relative header, reset |
| scanner, grammar | `scanner.l`, `scpi.y` | - | tokens to calls |
| client answers | `scpi_output.c` | a byte buffer, the separator that is due, the elements since | append an answer, flush, clear |
| error queue | `scpi_error.c` | a ring of 32 errors with texts, an overflow flag | report, get, count, reset |
| status registers | `scpi_core.c` | SESR, STB, the enable masks | set on errors and on `*OPC`, read and cleared |
| device messages | `cgr101.c` (`cgr101_rcv_*`) | the receiver's state and the phase of every operation | one byte at a time: start of a message, its bytes, its completion |
| overlapped operations | `cgr101.c`, `scpi_dev.c` | sweep, digital record, identify, status, offsets | start, abort, completion, query |
| digitizer settings | `cgr101.c` | ranges, sweep time, trigger | set, query, send to the device |
| waveform, PWM | `cgr101.c` | shape, frequency, level, duty cycle | set, query, send to the device |
| lists of numbers and channels | `scpi_core.c`, `scpi_input.c`, `scpi_dev.c` | a pool of nodes | convert, mask of channels |
| helper process | `spawn.c` | pipes, pid | fork, exec |
| start-up | `main.c`, part of `server.c` | options, sockets | once, before the loop |
| analysis tool | `cea.c` | - | stand-alone, not part of the server |

### 1.2 Interaction

    client --lines--> parser --commands--> handlers --requests--> device
       ^                 ^                    |                      |
       |            PROCESS_LINE              v                   messages
    answers <-flush- output buffer <----- event pipe <-- receiver <--+

* The parser runs a whole line in one go.  A command that has to wait does not
  wait there: it sets `block_input` and returns, and the *rest of the line
  runs on*.  What is held back is the next line: `parser_process_line` looks
  at `parser_input_blocked` first.
* Whatever ends an operation sends `UNBLOCK`, and `scpi_core_unblock` lets the
  input go on by sending `OUTPUT_FLUSH` and `PROCESS_LINE`.
* Answers are collected in one buffer.  A line's answers are flushed by a
  token sent after it; answers given by event handlers need a flush of their
  own.  `parser_send` clears the buffer when a line begins.
* The state shared by everything is `struct info` and `struct cgr101`.

### 1.3 What is hard

* *Ordering.* Three queues (the client's lines, the event pipe, the device's
  messages) advance independently, and the tokens in the pipe refer to state
  that has moved on when they are handled.
* *Blocking.* Every way of blocking needs a way out, in every order of
  completion, abort, alarm and reset.
* *Assertions on states.* The receiver asserts the phases of operations which
  client commands change in between.
* *Limits.* The ring of errors, the record of digital events, the divisors of
  the sweep time, the bytes of the post-trigger count.
* *Two copies of a setting.* The range of an input is kept in the program and
  in the device's preamplifier, and the samples are converted with the first;
  shape, level, duty cycle and pulse frequency are answered from the program's
  copy.
* *Pieces.* `read()` returns any part of the client's stream, and lines are cut
  in place; a header is completed by tokens of the command before it; numbers
  of a list are in a pool that lives until the line is complete.
* *Rounding.* Levels, samples and duty cycles become bytes, and are answered as
  decimal fractions that a client may send back.

What makes each component correct, in one sentence:

* loop and pipe: a worker is called only if its descriptor has data, and no
  line is left without a token that leads to it;
* blocking: what is blocked is released, by the right operation, not earlier;
* answers: each once, in order, none lost;
* receiver: the assertions hold, the record has room, the interrupt stays armed;
* error queue: it is a bounded log, with an overflow mark at its end;
* digitizer, sources: settings agree with each other and with what the device
  was told, and no conversion leaves its byte;
* status: *STB? asks for service for what the client enabled and has not seen;
* line buffer: nothing is taken or moved outside of it, and lines that were read
  whole are processed whole;
* header path: a command runs under the header that was written;
* lists: what a command is given is what the client wrote.

`PROJECT.json` lists the hazards of the code one by one, with their lines and
the properties that watch them.

## 2. Modules

| module | what it is | code |
|---|---|---|
| `Instrument` | the state of the server and its vocabulary: commands, tokens, device messages; type invariant | `struct info`, `struct cgr101`, `event.h` |
| `Device` | the CGR-101 behind the helper (external) | from how `cgr101.c` drives it |
| `Receiver` | the device worker: one action per message start and per message end | `cgr101_rcv_*`, `cgr101_digital_event` |
| `Commands` | one action per SCPI command that touches blocking, the pipe or the operations | `scpi.y`, `scpi_core.c`, `scpi_dev.c`, `cgr101.c` |
| `Server` | the loop, one action per event handler, the line processing, client and signals; `Safe` and `Spec` | `server.c`, `worker.c`, `event.c`, `parser.c` |
| `AnswerStream` | abstract: what a client is promised about its answers | - |
| `ServerProperties` | the properties of the server | - |
| `Clients` | classes of clients, by the lines they send: the hypotheses of theorems | - |
| `MCServer` | the clients the runs use, and of which class they are | - |
| `ErrorQueue` | the error ring | `scpi_error.c` |
| `ErrorLog` | abstract: a bounded log with an overflow mark | - |
| `StatusRegisters` | the registers of IEEE 488.2 and SCPI and the status byte, over `ErrorQueue` | `scpi_core.c`, `scpi_input.c`, `scpi_error_count` |
| `MCStatus` | the numbers a client sends to the registers | - |
| `Digitizer` | the settings of the oscilloscope and what the device was told | `cgr101.c` (settings), `scpi_dev.c` |
| `MCDigitizer` | its numbers and the values the client sends | constants of `cgr101.c` |
| `HeaderPath` | the loop that feeds the parser, the prefix and its replay, for a grammar that is a parameter | `parser.c` (`parser_loop`, `parser_replay_*`, `parser_add_prefix`) |
| `Grammar` | all headers, and those that a rule adds to the path | `scpi.y` |
| `MCHeader` | the two together | - |
| `OutputBuffer` | the buffer of the answers, as operators on its record | `scpi_output.c` |
| `LineBuffer` | the buffer of the client's stream | `parser.c` (`parser_cli_read`, `parser_cli_line`) |
| `ClientStream` | the two with the events between them: from the bytes of a line to the bytes of its answer | `parser.c` (`parser_process_line`, `parser_send`), `scpi_output.c` |
| `MCStream` | lines and answers | - |
| `ProgramLists` | lists of numbers with their pool, lists of channels with their mask | `scpi_core_nrf_list`, `scpi_dev_channel_*` |
| `Generator` | waveform, PWM and digital output, and what the device was told, over `ProgramLists` | `cgr101.c` (`cgr101_waveform_*`, `cgr101_pwm_*`, ...) |
| `MCGenerator` | its tables and the values the client sends | - |
| `Server_proofs`, `Clients_proofs`, `Answers_proofs`, `Status_proofs`, `Digitizer_proofs`, `HeaderPath_proofs`, `Stream_proofs`, `Generator_proofs` | theorems | - |

`Server` extends `Commands`, which extends `Receiver`, which extends `Device`,
which extends `Instrument`: the parts share one state, as they do in the code.

### 2.1 How the server's state and actions correspond to the code

`evq` is the event pipe, `ready` the workers of the current `select()` that
have not been called, `pc` says whether the loop is waiting or a line is
running.  `lines` is `cli_line` cut at its line ends, `prog` the commands of
the running line that are left.  The other variables carry the names of the
fields they stand for; the comment at each declaration gives the field.

* `Select` computes `Readable`; `EventWorker`, `DeviceWorker` and
  `StdinWorker` are the workers, called in that order (`Turn`).  The event
  worker reads *one* token per turn, as the code does.
* `Interrupted` is `select()` failing with `EINTR`: `server_select` goes on
  with the descriptor sets as they were passed in.
* `ProcessLine` starts a line: the buffer is cleared (`parser_send`), the
  handlers run one by one, and `LineDone` sends the flush and the token of the
  next line.  Handlers of one line are separate steps so that signals can fall
  between them; no worker runs in between.  A command that is made of others
  (`READ?`, `MEASure?`) is expanded into them, as `scpi_dev.c` does.
* A syntax error drops the rest of its line and does not undo the part before.
* A message of the device is received in two steps, its first byte (the state
  changes there) and its end; in between lines may run, which is where most
  surprises of the real program come from.
* `failed` names the function whose `assert()` fired; nothing happens after.
* `SLEep` leaves `timer` running, or, given less than a microsecond,
  `"disarmed"`: `setitimer()` with no time sets no timer.  A number below 0,
  which fails an assertion, is not sent.
* A query of digital data that was not configured has no answer and no error;
  digital events with a number out of range (`DigitalEventRefused`) configure
  nothing.

What a value is, is left out: an answer is the name of its query, a sample or
an event is not looked at.

### 2.2 The error ring

`Report`, `Get` and `Reset` are `scpi_error`, `scpi_error_get` and
`scpi_error_reset`.  A text given as NULL leaves what the slot holds, which is
why the texts matter.  `cleared` is a history variable: *CLS has been sent.

### 2.3 The digitizer's settings

One action per command.  `preamp`, `control`, `trigger` and `capture` are the
registers of the device as the last `S P`, `S R`, `S T` and `S C` left them.
The doubles of the code are integers in units that make every value that
occurs exact (volts in 10 microvolts, times in the shortest interval);
`floor()` is `\div`, `round()` is `Round`, halves away from zero.  `forced` is a
history variable: the inputs whose range `*RST` has set without telling the
device.  `ControlWrites` are the values that starting a capture writes to the
control register: the settings, and for a manual trigger the external input and
back around the delay.  All of it happens inside one call of one thread, so the
step leaves the last of them.  `CaptureAsSet` is worded without the code's sum:
the samples the device is to record after the trigger leave a position of the
trigger that is inside the record and as far from the reference as the offset
says.  On which side is left open, because code and notes disagree (section 6).

### 2.4 Status registers

A register is the set of its bits.  The commands act on `ErrorQueue` through its
own operations (`Report` for a refused value, `Get`, `Reset`), so that the
composition's status byte, which the code computes from the ring's count when it
is asked for, is compared with what the *client* knows and the notes promise it:
the history variables `unread`, `completed` and `accepted` are its own count of
unread errors (the one that says that others were lost included), whether an
operation that `*OPC` waits for has completed since it last looked, and the
values it gave to `*ESE` and `*SRE`.  `pending` is `info->overlapped`, a sweep
in progress.  The code does otherwise in three places (section 6), which
`Disputed` names: an overflow mark alone in the queue, `*OPC` while a sweep is
in progress (`early`), and `*ESE` after a `*CLS` (`wiped`).  There, and only
there, `ServiceIsJustified` does not ask the cause to be what the notes say.
`info->scpi->sbr` and the condition registers are written by the queries that
answer them and read by nothing else; they have no variable.

### 2.5 Header path

A token is a word, `:`, `;` or the end.  One iteration of `parser_loop` is one
step: `Lex` hands a token of the scanner to the parser; `LexSuffix` finds a
relative header, keeps its first word in `suffix` and hands over the first
token of the path; `Replay` hands over the others and `ReplayEnds` the word
that waited.  `TakeWord`, `TakeColon`, `TakeEnd` and `TakeError` are what the
generated parser does with it, with the calls of the rules it reduces:
`AddPrefix`, `Separator`.  The grammar is a set of sequences of words and the
set of those that some rule adds; `Grammar` lists both as `scpi.y` has them,
with the rules that are missing or in an unexpected place.  `path`, `wanted`
and `kept` are history: what the standard makes of what the client wrote, and
whether the code still knows the path.  `kept` ends behind a header whose
inner words the grammar does not all keep, and behind a common command:
section 6 says what happens then.

### 2.6 The client's stream

`buf`, `offset`, `line` and `len` are `cli_buf`, `cli_offset`, `cli_line`
(a position, 0 for NULL) and `cli_line_len`.  `Read(n)` lets `read()` return
any number of characters that there are and that fit.  `due` is history: the
lines that came whole in one `read()`.  A line of the model is a sequence of
characters of which each is a command: a query, one that the device answers
later, one without an answer, `*CLS`, or a word that is not understood.

A `read()` that uses up the buffer with a line that goes on (`filled`) leaves no
0 behind the line, and `strchr()` runs into the pointer that `struct info` has
there, `cli_line` itself.  Its bytes are `Word` arbitrary characters and then 0.
Without a newline in them the line is leftovers, or fails the assertion that it
has room (`ProcessFails`); with one (`ProcessBehind`), bytes of the pointer are
handed to the parser, the length, a `size_t` of `SizeMax` values, underflows,
and the next line begins behind the buffer.  What then ends the program is that
assertion, or the scanner, which gets a negative length (`ScannerFails`).

The output buffer is bytes: `Current` is the space `vsnprintf()` is told,
`Put` what it leaves behind, with the 0 that replaces the last character of an
answer that is one too long.

### 2.7 Lists and the sources

Lists are read element by element, in the order of the parser's reductions:
`FirstNumber` is a value, `NextNumber` makes it a list and allocates the pool.
`pool` becomes `"moved"` when `realloc()` moves a list: the pool and the pointer
to the values are of freed memory from then on, and the pool is freed a second
time at the end of the line, which `free()` may notice (`LineEnds`).  What else
comes of writing to freed memory is not modelled.  A mask is the set of its
channels.

The table of a waveform is kept as what it was made from (`user`); `Sample`
computes it: `Interpolate` is `cgr101_fn_interp`, exact in units of
1/(`Unit` * `Steps`).  `Conv` is `cgr101_waveform_conv`, whose
`255 - ceil(127.5 v + 127)` is one integer division.  `told` is what the
device has been sent, by kind.  Answers of the duty cycle go out as decimals
of 14 significant digits; `SetBack` is what becomes of such an answer when a
client sends it back (the decimals are computed modulo 255, which is all that
`floor()` looks at), and `asked` is history: the duty cycle that was last
chosen by a number of the client's own.

## 3. Runs

| run | client or inputs | what it shows |
|---|---|---|
| `fenced` | four lines; each line that starts a sweep also waits for its end; the client awaits its answers | answers arrive in order (`AnswersArrive` is the abstract stream with its fairness), input is released at the end of the sweep only, no failing assertion |
| `immediate` | three lines, sent ahead, whose commands do not block; end of the stream at any point | no answer is cleared, at most one line token, all answers are out before the exit |
| `any` | two lines of any kind sent ahead: sweeps, aborts, early reads, digital records (of none or two events), sleeps (of no time, too), resets, refused values; SIGINT; an input change | type invariant, no stranded line, a release for what an operation blocks, a flush for every answer, data only after its address, no worker called in vain but after a signal |
| `measure` | three digital queries, one at a time, three input changes, both inputs, records of one or two | the record has room, the interrupt stays armed, answers in order |
| `ending` | three lines sent ahead, sweeps that end by themselves or by `ABORt` | blocked input is released, every line is processed (liveness) |
| `errors` | a ring of three slots under the status registers: errors with and without a text, refused values, `*OPC` with and without a sweep in progress, `*CLS`, reads | texts do not leak before a `*CLS`, what is queued was reported, the ring implements the log, the status byte asks for service for what is enabled and unseen and for nothing else, but for the three causes of section 6 |
| `digitizer` | four commands with values at the boundaries, two channels | ranges cohere, the preamplifier follows, sweep times are stable, captures and trigger levels are as set |
| `header` | lines of any number of commands over the whole grammar, absolute, relative and wrong | a header that the code can know is the one that runs, no replay is left over, the prefix array is never full |
| `stream` | three lines, cut anywhere by `read()`, into buffers of a few characters | the line buffer is not left until a `read()` uses it up, lines that came whole are processed once and in order, a line of queries gets exactly its answers |
| `generator` | two commands of the sources, with values and lists at the ends of the ranges and beyond, and duty cycles that are sent back again and again | what is answered is what the device was told, a table fails only for a number out of range, the duty cycle drifts by five steps at most, a mask has no channel that was not named |
| `find_*` | see section 6 | one disagreement each |

Bounds.  Two or three lines are enough for every pair of operations to
overlap; the fourth line of `fenced` lets a sweep follow a sweep that followed
something else.  `any` allows everything and therefore two lines only (2.6
million states); each line holds up to three commands.  Three reports of the
device fill a record of two and send one more.  A ring of three slots wraps,
fills and overflows.  Four commands of the digitizer are a reset, two settings
that interact and a capture; the values are the ends of the ranges the code
tests for (exactly 2.5 V, the exact time of a divisor, one below the next, the
first and the last position of the record, and one beyond each).

The header run takes the whole grammar of 127 headers as it is, and lines of
any length: the state between two commands is small, so that every pair of
neighbours and every position of an error is met.  The stream's buffers
(6 and 7 characters) are shorter than two lines and than the longest answers,
so that lines are cut, fill the buffer and overrun it, and answers are cut and
dropped.  Tables of four samples are enough for a list to be shorter, equal and
longer, and the theorems say that the length is of no account.  Two commands
of the sources are a setting and the one that comes after it, lists and
repetitions not counted; the duty cycle has the value whose drift is longest.
The status registers have the values at the ends of the width of each and, for
those of the service request, a number with several bits.  One error number
is enough: the texts are what tells errors apart.  The pointer behind the line
buffer has two bytes that are not 0, so that a newline is met in the first of
them, in the second and in none, and a line can begin there; 16 sizes let the
length underflow.

`CHECK_DEADLOCK FALSE` is used where the program, or what is asked of it, really
stops: in `any`, where a client can leave it waiting for an input that never
comes, in `digitizer` and `generator`, where the bound on commands ends a
behaviour, in `header`, where a failed assertion does, and in `stream`
(and `find_leftover`), where the client has closed its stream.

Fairness.  `Spec` of the server has weak fairness of `ServerStep` (the process
runs), `DeviceAnswers` (requests are answered, in order) and `SigAlrm` (a
timer that was set expires).  The code justifies each: the loop never waits
longer than 10 ms and its workers do not wait, the protocol with the device
is request and answer, and the alarm is the kernel's.  Nothing makes the
client send, a trigger happen, an input change or a SIGINT arrive; where
liveness needs the end of a sweep (`ending`, `fenced`) every modelled client
starts sweeps that are triggered at once or aborts them.  Safety runs use
`Safe`, without fairness.

Each property of a passing run has a mutant in `PROJECT.json`: a definition
with a plausible bug (named `X_<what is wrong>`, next to the right one) under
which TLC finds the property violated.

## 4. Proofs

All theorems hold for every value of the constants that satisfies the ASSUMEs
of the module: any number of lines and any lines, any trigger source, any ring
size, any grammar, any sizes of the buffers, any table.  The assumptions are
`ConstantsAssumption` (server), `QueueAssumption` and `RegisterAssumption`
(status), `DigitizerAssumption`, `HeaderAssumption` (no rule keeps a word that
is deeper than the array is long; a common command is one word; separators are
no words), `BufSizeAssumption`, `LineAssumption`, `OutSizeAssumption`,
`CharacterAssumption` and `CommandAssumption` (stream: no element of an answer is
empty or a newline, no command is two kinds at once), `ChunkSize`,
`IntegerValues`, `ListBounds`, `TableSizes`, `LevelAssumption` (numbers are
integers) and `TableAssumption` (the sine stays within one, a quarter of the
period is a whole number of units).

**Server, any client** (`Server_proofs`, over `Safe`): `TypeCorrect`,
`LinesAreKept` (`NoLostLine`), `AnswersAreFlushed` (`FlushFollows`),
`BlocksAreReleased` (`BlockHasRelease`), `RecordsHaveRoom` (`RecordHasRoom` and
the assertion of `cgr101_digital_event`, if nobody configures a record of 0
events); and from `Clients_proofs` `AddressComesFirst` (`DataAfterAddress`) and
`ReadsHaveInput` (`OnlySignalsCallInVain`).
None of them is inductive alone.  The invariant `IInv` adds `Underway`: while a
line runs it is the first of `lines`, and at the end of the client's stream
`quit` is set.  `NoLostLine` leans on it: between two lines the token is in the
pipe, during a line it is about to be sent.  For `FlushFollows` and
`BlockHasRelease` the argument is by kinds of steps: a token in the pipe stays
there until it is read (`Kept`), the handler that reads it is the one that does
what the token promises, the receiver sends `UNBLOCK` with every end of an
operation (`ReceiverSends`), and the remaining steps leave the pipe, the lines
and the operations alone (`OtherFrame`).  For the record it is that a record
that still has channels has not reached its maximum.  For the address the
invariant (`AddrInv`) follows the device's two messages through the queue: in
front of the data there is the address, or it was received.  For the workers it
is that `Select` puts only those in `ready` that have something to read, and that
what a worker takes is its own (`VainStep`); `EINTR` is the one way around
`Select`.

**Server, classes of clients** (`Clients_proofs`, `Answers_proofs`). Some
properties are not true of every client: section 6 lists what an impatient one
meets. The theorems say how much patience is enough, with classes that are
defined in `Clients` by the lines alone. The ASSUMEs of `MCServer` say that the
lines of the runs are of the class, so the run and the theorem are about the
same thing; no theorem needs the runs' lockstep.

| theorem | property | for a client that |
|---|---|---|
| `LinesOneByOne` | `OneLineToken` | starts no operation (`StartsNothing`) |
| `AnswersAreKept` | `AnswersNotCleared` | asks for what is answered at once (`AnsweredAtOnce`) |
| `AnswersComeInOrder` | `AnswersInOrder` | moreover asks for no record of digital events (`AsksForNoRecord`) |
| `AnswersBeforeTheEnd` | `AnsweredBeforeExit` | moreover asks for nothing on a line on which it quits (`QuitsSilently`), and gets no signals |
| `InterruptsStayArmed` | `InterruptArmed` | initiates or aborts what it configures (`ArmsItsRecords`) |
| `SweepsAreAwaited` | `ReleasedWhenComplete` | waits for each sweep on the line that starts it (`FencesItsSweeps`) |
| `OnlyIdentityFails` | one assertion of all can fail | moreover reads a sweep where it starts it and sleeps once per line (`IsOrderly`) |
| `NothingFails` | `NoAssertionFails` | moreover does not ask for the identity (`KnowsItsDevice`) |

* `Runs(P)`: what is left of the running line, and the lines that wait, are of a
  set `P` of programs that is closed under tails.  `NothingRuns` says that no
  operation is under way, so that nothing blocks; `OneToken`, that there is a
  token in the pipe or a line that runs, and not both.
* `NothingLate` and `FlushInv`: nothing that is answered later is on its way,
  and an answer in the buffer has its flush in front of the token of the next
  line.  That order is what `AnswersNotCleared` lives on.
* `Promised`: what was asked for is what was received, then the buffer, then what
  the rest of the running line calls for, then the answers to the lines that
  wait, line by line.  What a line calls for is recursive over its commands
  (`AnswersTo`), what the lines call for is the existence of a sequence of
  partial sums (`AreOwed`); the proof is how both change when a command is
  done, a line is taken, read or sent (`AnswersToNext`, `OwedFirst`, `OwedLast`).
  A flush moves the buffer to what was received; nothing else does.  The
  theorem is about any amount of lines sent ahead; a client that asks for
  something that is answered later is in the run `measure` only, one query at
  a time.  The hypothesis about records is there because the answer to an empty
  record is nothing at all.
* `QuitInv` and `StreamEnds`: the end of the stream is the last line there ever
  is, and once `quit` is set the buffer is empty and no token is read.  So at
  the exit nothing is left of `Promised` but what was received.
* `ArmedInv`: a record that is configured is armed by what comes next in its
  line, or the request or the interrupt is in a queue.
* `Flight` and `Fence`: there is no capture, or it is in one of five stages (its
  request, the armed device, the address, the request of the data, the data)
  of which no two are met at once; while one is under way the line that started
  it is at its fence, or the input is blocked.  So an `UNBLOCK` in the pipe is
  the one of the sweep that is waited for.
* `Order`: what the handlers with assertions find.  `SENSe:DATA?` finds the
  sweep enabled and ended, a new sweep finds no data being received, a sleep
  finds no timer.  The identity is left over: nothing keeps a client from
  asking for it twice.  Under `KnowsItsDevice` no message of it exists
  (`NoIdentity`).

**Error ring** (`Status_proofs`): `TypeCorrect`, `QueuedWasReported`,
`SlotsAreClean` and `Refinement`, that the ring with its overflow flag
implements `ErrorLog`.  The work is in the index arithmetic: how the slots
between tail and head move when the ring grows (`Grown`) and shrinks
(`Shrunk`).  That slots outside the queue hold no texts before a first `*CLS`
is the strengthening the refinement needs, because "No error" is answered
with the text of whatever slot the tail is at.

**Status registers** (`Status_proofs`): `QueueBelow`, that every behaviour of the
registers is one of the ring, so that its theorems hold under them;
`StatusTypeCorrect`; `ServiceJustified` (`ServiceIsJustified`).  The invariant
is that the client's count of unread errors is the number of used slots, or
one more while the overflow mark waits behind them (`Counted`, from the
arithmetic of the ring), that the only event in SESR is a completion the client
has not seen, or one that `*OPC` has announced too early (`Events`), and that the
enables are as accepted, or as `*CLS` left them (`EnablesAsAccepted`).

**Digitizer** (`Digitizer_proofs`): `TypeCorrect` (the divisor, offset and
reference stay in their bounds, and the sweep time is that of the divisor),
`RangeOfPreamp`, `CapturesAreAsSet` (the two bytes place the trigger as far from
the reference as the offset says, from `PositionNumbers`), `LevelsAreNearest`
(rounding and conversion give the nearest voltage, from `RoundBounds`);
`SweepTimeIsKept`, if the shortest sweep is a whole number of intervals, from
the times of the divisors rising (`TimesRise`), so that each time has one
divisor; and `RangesAreCoherent`.  Halving a double is exact where halving an
integer is not, so the latter is about units: its hypothesis is that the values
are whole in a unit that can be halved once per command, and the invariant
(`ExactInv`) is that the numbers can still be halved as often as commands are
left.  `MCDigitizer` assumes both hypotheses of its numbers.

**Header path** (`HeaderPath_proofs`): `PrefixNeverFull` (`PrefixFits`),
`PathReplayed` (`ReplayIsOver`) and `HeaderRunsAsWritten` (`HeaderAsWritten`),
for every grammar.  The invariant `PathInv` says where the replay is in terms of
the words the parser has seen: nothing is replayed and the path is at most that
of the words seen (`Fresh`); a `;` was read and no word yet (`Waiting`); or the
position in the array is just behind the words seen, and the parser expects
what comes there (`Replaying`).  The array has words and colons in turn
(`Alternates`), so that what ends a replay is a colon, and no word is added
twice.  `HeaderInv` adds what the tokens that are left have to do with the header
that is meant: a command is about to begin at its colon (`Leading`), is being
read (`Reading`), has its relative word to come (`Starting`), or its path is
being replayed (`Joining`), and in each case the array holds the words of the
header in front of the place (`Holds`).

**Stream** (`Stream_proofs`): all that the run `stream` checks.
`BufferNeverLeft` (`BufferOK`) is proved from `BufferInv`: as long as no
`read()` has used up the buffer a newline is found inside what was read
(`EolInLine`), because everything behind it is 0; after a `read()` that has, the
line may be `Spilled`, and then there is nothing the handlers can do with it but
go on in the pointer or fail.  `OutputNeverLeft` (`TypeOK`) on `PrintfRoomy`,
that an answer of any length leaves a text shorter than the buffer.
`WholeLinesAreProcessed` (`LinesAsRead`): the invariant `DueInv` says that the
lines still due are those of what was read from where `line` points on
(`InBuffer`, `LinesFrom`), so that the line cut off next is the first of them
(`TakesTheDue`), and that none is due when `line` is NULL.  `QueriesAreAnswered`
(`QueriesAnswered`) has two parts.  What the parser leaves in the buffer, for a
line of any length and answers of any number of elements: after each character
the text and the mark that is due are what the line so far is to be answered
(`Answered`, `AnsweredNext`), because a mark is written in front of the next
element only (`Mark`, `PrintfText`).  And where the answer is afterwards: the
invariant `Answering` says that it is with the device (`Pending`), in the buffer
with a flush in the pipe (`Buffered`), or out (`Replied`).

**Sources** (`Generator_proofs`): `ListsPlayable` (`FailsOnlyOutOfRange`),
`ShapesPlayable`, `DeviceKnows` (`DeviceAgrees`), `MasksAreWithin`
(`MaskWithinNames`) and `DriftsAreBounded` (`DriftBounded`).  `DeviceAgrees` is
inductive, command by command, once it is taken apart in what a waveform can
change and what another setting can; that a frequency without a setting has the
index behind the table needs the least element of a set (`IndexInTable`).  For a
mask the invariant `Named` says that one of its channels is below every channel
named.  An interpolated sample is a weighted mean of its two neighbours
(`Weighted`, `InterpolateWithin`), the phase never gets to a segment that the
list does not have (`PhaseInSegments`), and what lies in -1..1 becomes a byte
(`ConvByte`, from bounds on integer quotients).  The duty cycle sinks from one
answer to the next as long as the answers are rounded down (`Sunk`), and of no
six steps in a row are all six rounded down: that is arithmetic on the 256
steps, in the decimals the answer has.

A recursive function (`PowerOfTen`, `Answer`, `Parsed`, `LinesOf`) is unknown to
the provers until it is known to exist: the proofs give its graph explicitly
(`IteratesExists` does so for the stream), and induct over the naturals in the
form "a set with 0 that is closed under the successor", for which no operator is
a parameter.

Only model-checked: `AnswersArrive` (liveness is beyond the prover) and
`AnswersInOrder` for queries that are answered later (under the lockstep of the
run `measure`); `NoAssertionFails` with a client that asks for the identity and
awaits the answer (the run's lockstep; proved without the identity);
`BlockingEnds` and `LinesProcessed` (liveness).

## 5. Not modelled, and the plan

Done in this order: server core, error ring, digitizer settings, status
registers, header path, stream and answer buffers, lists and sources, and the
proofs of each.  Next:

1. Theorems: `AnswersInOrder` for clients that await an answer that comes later,
   where what was promised is one query that is on its way.
2. The receiver's bytes: counts and values of the samples, the trigger address
   and the rotation of the record.
3. Include files: a second stream of lines under the same parser.
4. `ClientStream` below `Server`: the lines of the server made by the buffer.

Left out for good: `main.c` (options), the scanner (a token table), sockets
and `spawn.c` (system calls), `cea.c` and `tools/` (not part of the server),
the wording of answers and errors, coupling and concurrency settings that the
code ignores, the trigger output pin and the offsets in the device's EEPROM
(sent and stored, nothing depends on them), a failing `read()` and a short
`write()` (the code does not go on from either).

The helper process may end; the worker of its error stream then fails an
assertion (`cgr101.c:1337`).  No property covers that: the server has no state
in which it goes on without a helper.

## 6. Disagreements between the code and what is said of it

Two have a run that TLC ends with a counterexample.

* `find_opc`: the `1` of `*OPC?` is cleared when the next line is already
  there (`scpi_core.c:269`, `parser.c:329`).
* `find_leftover`: what `read()` returns is to be appended "to leftovers from
  the previous pass" (comment at `parser.c:425`), but the line begins at the new
  characters (`parser.c:452`): of a line that comes in two parts only the
  second is processed.

The others are behaviour of the models, met while they were written.

Operations:

* `*WAI` is to "Block all pending operations are complete"
  (`doc/cgr101-scpi.org:54`); `scpi_core_unblock` lets the input go for any
  `UNBLOCK`, also that of a sweep before the one that is waited for
  (`scpi_core.c:260`).
* `ABORt` right after `INITiate` can arrive before the device's address, and
  fails the assertion at `cgr101.c:1016`, although a test sends it "ASAP"
  (`test/cgr101_scope.rb:552`).
* After `EINTR` the loop calls workers that have nothing to read, and the event
  worker's `read()` blocks the only thread (`server.c:167`).
* `SYSTem:INTernal:SLEep` with less than a microsecond sets no timer and blocks
  the input for ever; a negative number fails an assertion
  (`scpi_core.c:440-466`).  `BlockHasRelease` counts the timer that was set to no
  time as a release, so that it holds of this case too, and says nothing of it.
* `FETCh:DIGital:DATA?` and `READ:DIGital:DATA?` without a `CONFigure` are neither
  answered nor refused: the error is commented out (`scpi_dev.c:137-144`).
* A second `*IDN?` before the first answer fails an assertion
  (`cgr101.c:1151`); `MEASure` while the data of a sweep arrives fails one
  (`cgr101.c:1055`), and `SENSe:DATA?` before any sweep another
  (`cgr101.c:967`); a nested `SYSTem:INTernal:SLEep` too (`scpi_core.c:460`).
* A record of 0 digital events fails an assertion at the first input change
  (`cgr101.c:409`).
* The answer to `SENSe:STATus?` is not flushed (`cgr101.c:712`); `FlushFollows` is
  about all other answers.

Errors and status:

* `*CLS` leaves the overflow mark and the texts of dropped errors
  (`scpi_error.c:166`).
* `*CLS` is to clear event registers and queues (`doc/cgr101-scpi.org:21-28`); the
  code also clears the enable registers, `*ESE` among them
  (`scpi_core.c:76-87`), so that events after it ask for no service.
* `*OPC` is to set its bit "when all pending operations are complete"
  (`doc/cgr101-scpi.org:39`); the code sets it at once (`scpi_core.c:107-112`, with
  a FIXME that says so).
* `SYSTem:ERRor:COUNt?` is to be the number of errors in the queue
  (`doc/cgr101-scpi.org:59`); an overflow mark that is alone there is handed out as
  an error, but neither counted nor shown by `*STB?` (`scpi_error.c:93`).

Settings of the oscilloscope:

* An offset given as a time is multiplied by the interval (`cgr101.c:2036`)
  where the notes divide (`doc/cgr101-scpi.org:226`).
* The count of samples after the trigger is to be SP - (ORP - OP)
  (`doc/cgr101-scpi.org:366-378`); the code subtracts the offset, SP - ORP - OP
  (`cgr101.c:889-890`): a positive offset moves the trigger to the other side of
  the reference than the notes say.
* `*RST` resets the ranges without sending them (`cgr101.c:1650`).
* An offset and a reference that are each in bounds fail `INITiate`'s assertion
  (`cgr101.c:1807`).
* `TRIGger:SLOPe?` answers the opposite of what was set (`cgr101.c:2386`).
* A trigger level is converted with the range of the moment; a later voltage
  command changes what it means (`cgr101.c:2335`).

Lines and headers:

* The path is replayed in front of every header without a leading colon, a
  common command included, and it keeps the last word of a header where a rule
  adds that: `INIT;*OPC?` is a syntax error.  When there is no path, as in
  `*CLS;*RST`, the replay fails the assertion at `parser.c:105`.
* A `read()` that uses up the 16K of the line buffer without a newline at the end
  makes `strchr()` look for one behind the buffer, where the pointer to the line
  is (`parser.c:371`, `info.h:47-49`).  A line that is alone in the buffer then
  fails an assertion (`parser.c:374` or `390`).  One behind other lines is
  leftovers, unless a byte of the pointer is a newline: then the program goes on
  with bytes of the pointer in a line and a length that has underflowed
  (`parser.c:379`), and may end in the scanner, on a length below 0.
  `BufferOK` is about what happens before.
* The end of the output buffer is compared with a length that does not count the
  final 0: an answer of just the size that is left loses its last character
  (`scpi_output.c:90`).

Lists and sources:

* A channel range leaves out its last channel, and one of equal channels fails
  an assertion (`scpi_dev.c:52`).
* A second list of numbers in a line, or one after a list that a syntax error
  cut, fails an assertion.  When a list outgrows its chunk and `realloc()` moves
  it, the pool and the pointer to the values keep the old address: values are
  written to freed memory and the pool is freed twice (`scpi_core.c:368-385`).
* `SINusoid` and the other long forms, which `doc/cgr101-scpi.org:106` lists,
  run past the end of the map of shapes (`cgr101.c:1355`).
* `MINimum` and `MAXimum` are numeric values to the grammar and fail an
  assertion of `scpi_input_fp` (`scpi_input.c:88`).
* A waveform of as many points as the table is interpolated like any other
  (`cgr101.c:1416`), where a test calls it "non-interpolated"
  (`test/cgr101_wave.rb:191`).
* A level out of range is ignored without an error (`cgr101.c:1906`).
* A duty cycle that is sent back as it was answered is one step lower for 110
  of the 256 values, and by up to five steps if that is repeated
  (`cgr101.c:1701`).
* A pulse frequency of 0 sends an index behind the table, and the answer stays
  what it was (`cgr101.c:1720`).
