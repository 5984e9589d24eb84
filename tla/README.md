# camview in TLA+

camview shows a USB (UVC) camera on the HDMI and composite outputs of an
Allwinner board: it takes MJPEG frames from V4L2, has the Cedar video engine (VE)
decode them straight into DRM frame buffers, and page-flips those onto display
planes.  Camera controls come from a JSON file that a web page edits and from an
ATEM switcher over HDMI-CEC.  This directory models the program's concurrency,
its session handling and its control paths, model-checks them with TLC, and
proves the central safety properties with TLAPS.

Paths below are relative to the repository (`src/main.c` is the file listed in
`PROJECT.json` as `src/src/main.c`).

## 1. Inventory

Five threads and one signal handler share the process:

| thread | code | runs |
|---|---|---|
| main | `main.c:153-365` | the whole life of the process |
| capture | `capture_loop`, `main.c:60-100` | one per session |
| control | `control_loop`, `main.c:102-151` | one per session |
| display | `display_thread_loop`, `display.c:97-168` | from the first frame of a session to `hw_close` |
| CEC rx | `rx_loop`, `cec_controls.c:150-209` | one per session |
| SIGINT handler | `main.c:44-58` | on main, between any two statements |

**Swap chain** (`display.c`, `jpeg_dec_main.c`, trigger and wait of `ve.c`).
State: two three-slot arrays of buffer numbers, `current_display_buffer` and
`current_available_buffer`, under one mutex with one condition each; the flag
`run_video_update`; locals of the display thread; the static `write_buffer` of
the capture thread; the planes and the engine.  Operations: `init_display`,
`get_buffer_number`, `put_buffer`, the display thread's loop,
`terminate_display`.  Hard: two threads, a DMA engine and two scan-out engines
use the same three buffers; `pthread_cond_wait` is not in a loop; the engine's
timeout is not looked at; `run_video_update` is changed without the lock.
Correct when no buffer is lost or in two places, no buffer is written while it
is shown or queued, frames are shown in order, and nobody waits for ever.

**Supervisor** (`main.c`).  State: three loop flags, the device file, the mapped
capture buffers, the thread handles.  Operations: format negotiation, mapping,
starting and joining the threads, teardown, start over.  Hard: every step can
fail; four writers of the flags without a lock; SIGINT between any two
statements; a camera that falls silent keeps the capture thread in an ioctl.
Correct when sessions do not overlap, nothing is used after its teardown, a lost
camera is opened again and SIGINT ends the program.

**CEC receiver** (`cec_controls.c`).  State: a singly linked list of messages
with head and tail pointer under a mutex, the rx thread's handle and flag.
Operations: `init_cec_controls`, `rx_loop` with `add_message_to_queue`,
`poll_cec_events`, `stop_cec_controls`.  Hard: nodes are freed by one thread
while another links behind them; initialisation may fail half-way and teardown
does not look.  Correct when the list is a FIFO queue that never reaches freed
memory and locks and threads are used as POSIX allows.

**CEC values** (`apply_value` and the `process_*` functions).  State: one static
high byte per control and the camera's controls.  Hard: integer and floating
arithmetic on ranges that may descend, signed bounds, steps.  Correct when a
value of the switcher becomes a legal value of the camera and order is kept.

**Control file** (`control-file.c`, `control_loop`).  State: the file, the inotify
descriptor, `has_changes` and `loop_count`, the controls of camera and display.
Hard: the web page edits the file while the program rewrites it.  Correct when
file and controls converge and no edit is lost.

**Display parameters** (`display.c:571-629`, `145-152`).  State: three parameter
blocks, `display_initialized` of `display.c` and `pending_controls_apply`, all
without a lock.  Written by the control thread, which sends a changed block itself
once the display is up; applied by the display thread after the first frame of a
session.  Hard: two threads test and set two plain flags.  Correct when no change
is forgotten between the two.

**Display setup** (`init_display`, `terminate_display`, `deallocate_buffers`,
`start_drm`, `stop_drm`, `find_new_plane`, `setPlanesColorFormat`).  Mostly DRM
enumeration; the layout of the buffers is arithmetic with alignment.  Hard: the
display engine and the video engine are told their sizes by two files that compute
them separately, and static variables keep the format and the descriptors of an
earlier session.  Correct when both engines stay inside the buffers and
every descriptor is closed once, by its owner.

**VE memory** (`ve.c:186-324`).  State: a list of chunks and the mappings made
of them.  Operations: `ve_malloc` (best fit, split), `ve_free` (coalesce),
`ve_virt2phys`.  Correct when the chunks tile the reserved region, allocations are
disjoint, and every address is translated to the byte it is mapped to.

**JPEG parser** (`jpeg.c`).  State: a position in the frame and pointers into it.
A marker loop over a buffer that may be cut off anywhere.  Correct when it ends
inside the buffer, takes exactly the frames it can decode, and hands over
the tables of this frame.

**Engine programming** (`jpeg_dec_main.c:38-287, 390-425`).  State: the engine's
registers and table memory, of which some keep the value of an earlier frame.
Correct when the code words the engine gets are those of the frame's tables
and its format and size those of the frame buffers.

**Physical memory lookup** (`memory.c`).  Called from nowhere.

Interactions: main creates and joins the capture and control threads and calls
the start and stop functions of CEC and decoder around them; the capture thread
starts the display thread on the first frame and exchanges buffers with it; the
control thread empties the CEC list, applies messages to the camera and keeps the
control file; `exit(1)` in the display code ends everything at once.

## 2. Modules

| module | models | kind |
|---|---|---|
| `SwapChain` | capture thread, display thread, engine, `hw_close` | detailed specification |
| `FrameChannel` | what the swap chain promises | abstract specification |
| `SwapChainChannel` | refinement mapping of the two | refinement |
| `SwapChainProofs` | theorems about `SwapChain`, its refinement included | proofs |
| `Supervisor` | main, capture and control thread, SIGINT | detailed specification |
| `CecQueue` | rx thread, list, control thread, session start and stop | detailed specification |
| `MessageQueue` | what the list promises | abstract specification |
| `CecQueueProofs` | theorems about `CecQueue`, its refinement included | proofs |
| `Descriptors` | `Supervisor` with the file descriptors of every part | extends `Supervisor` |
| `SupervisorProofs` | theorems about `Supervisor` and `Descriptors` | proofs |
| `DisplayParams` | `SwapChain` with the parameter blocks and the control thread that sets them | extends `SwapChain` |
| `DisplayParamsProofs` | theorem about `DisplayParams` | proofs |
| `VeAlloc` | the list of chunks of `ve.c` | detailed specification |
| `MemoryRegion` | what an allocator of a region promises | abstract specification |
| `VeAllocProofs` | theorems about `VeAlloc`, its refinement included | proofs |
| `FrameDecoder` | parser, start of the display and engine programming, frame by frame | detailed specification |
| `HuffmanTable`, `DisplayGeometry` | code words of a table; layout of a frame buffer | algorithms, used by `FrameDecoder` |
| `MCFrameDecoder` | sample headers and tables | instance for TLC |
| `FrameDecoderProofs` | theorems about `FrameDecoder` and `DisplayGeometry` | proofs |
| `CecValue`, `MCCecValue` | value arithmetic; sample cameras | algorithm over bounded inputs |
| `CecValueProofs` | theorems about `CecValue` | proofs |
| `ControlSync` | control thread, control file, inotify, the web page | detailed specification |
| `ControlSyncProofs` | theorems about `ControlSync` | proofs |

`PROJECT.json` maps every definition to the lines it stands for.  Definitions
named `X_Something` next to an operator `X` are fault forms: plausible bugs with
which the run named in `PROJECT.json` must fail.

### SwapChain

`display_pc` and `capture_pc` are the threads' program points.  A critical section
of `current_values_lock` is one step, because everything touched in it is touched
only under that lock; a wait on a condition ends a step and the wakeup begins
another.  Accesses to `run_video_update` and the two halves of
`terminate_display` (clear, then signal) are steps of their own, since they are
done without the lock.  `drmModeSetPlane` blocks until the plane has
switched, one step per output.  `content` holds the number of the frame in each
buffer; `engine` the buffer being written.  The engine is an actor of
its own (external), so that `ve_wait` can return early when `VeTimeouts` holds.
The capture thread's parser verdict and a failing DRM call are choices.

Assumed: memory is sequentially consistent; `init_display`'s offsets make
`hw_decode_jpeg`'s tests of its output addresses pass; pthread objects work as
POSIX says.  Frame geometry and buffer addresses are left out.

### Supervisor

One step per statement that another actor can observe.  Every early `continue` of
the format negotiation is `FormatFails`.  `pthread_timedjoin_np` returns when the
thread has ended, or, for a camera that may fall silent (`SilentCamera`), while it
is in DQBUF; the following `pthread_cancel` has no effect there because `ioctl`
is no cancellation point.  Assumed: the control thread and a decode take less
than the two seconds of a join; `hw_close` and `stop_cec_controls` return (the
swap chain and the CEC receiver are modelled on their own); only one SIGINT
handler runs at a time, and its three stores are one step because every thread
but main reads only one of the flags.

### CecQueue

A node is its allocation number, so that its memory is never reused and any
access to a freed node is visible.  A critical section of `message_queue_mutex`
is one step; allocation, freeing and processing lie outside.

### CecValue

The six `process_*` functions are one action: they differ in the range and the
control they pass.  Hue and tint messages are ignored by the code and not
enumerated.  Doubles are exact fractions; the numbers involved are
far below 2^53 and no scaled value of these ranges lies close enough to a tie for
the rounding error to matter.

### ControlSync

The control thread's program points are the observable steps of `control_loop`:
taking the size of the file, reading it, truncating it, writing and closing it,
starting the watch, taking the events, counting a round.  `stage` tells the three
parts of `control_loop` that share the load and write steps apart.  A document is
one camera value and one display value; an edit may contain a camera value that
the camera refuses or changes.  The web page is an actor of its own (external): it
truncates the file, writes one line in one call and closes it, without renaming.
Sessions begin with a camera of any legal setting while the display keeps its
parameters.  `unread` remembers whether the file holds an edit not loaded yet, and whether that
edit ended while the loop ran.
Assumed: controls do not change by themselves (a camera's automatic control that
does would make the program rewrite the file every 2.1 s), the parameter
structures have no padding for `memcmp` to see, and the file can be written.

### DisplayParams

Every access to `display_initialized` (here `display_ready`: the swap chain has the
flag of the same name of `jpeg_dec_main.c`) and `pending_controls_apply` is a step
of its own, as is every ioctl.  `unsent` holds the blocks whose memory differs
from what the driver got last.  The display thread's work is put between its second
plane and the buffer it gives back by restricting the swap chain's steps, which are
otherwise those of `SwapChain`.  `StoreBlock` may happen at any time: what calls
it (the control file) is `ControlSync`'s.  Assumed: the control thread is joined
before `hw_close` (`main.c:334, 358`; `Supervisor` checks it), and a block counts as
sent once the ioctl has returned.

### Descriptors

Each action of `Supervisor` that opens or closes a descriptor carries the kernel's
table along; the kernel hands out the lowest free number, and a `close` of a number
that is not open changes nothing.  The variables that hold the numbers are never
cleared, as in the code.  Left out: the descriptors of DRM and of the video engine,
which stay open from start to end, and the control file's, which is closed in
the function that opens it.  Assumed: the exports of `init_display` succeed.

### VeAlloc

`ve_malloc` is one step, `ve_free` one step for the unmapping and one for each merge
or move of its cursor.  A chunk is named by its physical address.
Assumed: calls do not overlap (the rwlock is commented out; `TeardownSafe` of
`SupervisorProofs` is why that is right), and the calls to `mmap` give ranges that do
not overlap.

### FrameDecoder

The parser takes one segment a step; both tests of its position, in front of the
marker and behind it, are there, and a frame may be cut off at any byte.
A segment carries what the code takes from it: table numbers and
precisions, Huffman counts, the sampling, whether the components are Y, Cb and Cr.  A
pointer into the frame is the segment and the table it leads to, so that a
pointer kept from an earlier frame would be visible.  `InitDisplay` and
`DecodeFrame` follow `hw_decode_jpeg_main`; `format` (the engine's register) and
`pixel_format` (a static variable) keep their values from frame to frame and from
session to session.  Every frame brings its own size and subsampling, which nothing
compares with the layout that the first one made.  What the video engine writes is
external: whole rows of macroblocks, as many as its size register says, luma of
`line_stride` bytes and chroma of `line_stride / samp_h`.  Assumed: the tables inside a
segment are well-formed, a frame header's size is not zero, and the runs have code words
of up to three bits instead of sixteen (the theorem is about any number).

`PlanesInside` speaks of the display engine for every layout with a pixel format, and of
the video engine for frames that are like the first of their session or smaller, with a
layout whose padding suffices.  These two conditions are faults of the code, not of the
model: the code does write outside the planes otherwise (section 5).  That the engine's
registers of size and format, which outlive frames and sessions, then fit the layout is not
assumed but what the property is about: it fails as soon as the first frame of a
session is not looked at (`InitDisplay_AnyFormat`).  The numbers of a table have
no width: those of one that an encoder can write (`Encodable`) keep the first code words
below 2^16, as `Readable` says, and it has at most 256 symbols, so their indices fit
their bytes.

## 3. Runs

| run | question | bounds |
|---|---|---|
| `swap_chain` | no tearing, in-order display, every queued frame shown, a waiting capture thread resumes, `terminate_display` returns, refinement of `FrameChannel`; well-behaved platform | 6 frames, both outputs |
| `swap_chain_faults` | (`DisplayParams`) conservation of buffers, ownership of the screen, no failing get, no parameter change forgotten; with spurious wakeups, engine timeouts and a control thread that sets parameters | 5 frames |
| `supervisor` | clean start of sessions, nothing used after teardown, driver never starves, camera reopened | none needed |
| `supervisor_silent` | (`Descriptors`) a silent camera and refused buffers; who has which descriptor open | none needed |
| `supervisor_sigint` | SIGINT at any time ends the program: **violated** | none needed |
| `cec_queue` | list integrity, refinement of `MessageQueue`, POSIX rules, every message processed; the adapter may be missing in any session | 5 messages |
| `control_sync` | edits in the loop are noticed; file and settings converge; what a session leaves in the file | 2 edits, 1 message, 2 sessions, debounce 2 |
| `ve_memory` | the chunks tile the region, no stranded memory, exact translation, refinement of `MemoryRegion` | 5 pages of 2 bytes, 4 sizes, 5 addresses |
| `decode_frame` | which frames are decoded, with which tables and codes, and where the engines read and write | headers of up to 5 segments, 5 lengths, 5 sizes with subsampling |
| `cec_value` | legal and monotone values | 5 cameras, 16 byte pairs |
| `cec_shutter` | the shutter comment: **violated** | as above |
| `cec_forward` | the white balance comment: **violated** | as above |

Bounds.  With three buffers, five frames take every buffer at least once around
the whole cycle decode, queue, show, give back, also across a restart of the
display; the frame number is the only unbounded variable, and the proved
theorems hold for every `MaxFrame`.  Five messages
fill, empty and refill the list across sessions, which is where head and tail
pointers can go wrong.  `Supervisor` has no unbounded variable.
`CecValue`'s bytes contain the ends of the ranges, values just inside
and outside them and ones needing the stored high byte; the cameras have signed,
coarse, narrow and zero-free grids.
Two edits are an edit
and one that overlaps its loading or the write it causes; two sessions let the file of
one meet the camera of the next; a debounce of two rounds instead of twenty
keeps the three cases (before, at and after the limit) apart.

Five pages hold three allocations with gaps between them, so that a chunk is split,
fitted exactly, and merged with a neighbour on either side and on both; the sizes
are below, at and above a page.  Five segments hold two segments of tables that
replace each other's tables, a frame header and a scan header; the lengths end a frame
before, at and behind the end of such headers.  Of the frame headers one has a size for
which the padding suffices (1920x1080 with 2x2), one a size for which it does not (1024x600
with 2x2), one the subsampling that has no pixel format (640x360 with 1x2), one a
subsampling that has no engine format (1920x1080 with 4x1), and one is no YCbCr; the frames
of a session, and the sessions, may have each of them, in any order.

Deadlock.  `CecValue` and `VeAlloc` are checked for deadlock.  In the other modules the system
may really stop: the process exits, a camera delivers no more frames, a session
is never ended, and in `SwapChain` `terminate_display` can lose its signal (see
below).

Fairness.  Weak fairness of each thread: the kernel schedules them, and no
priority or affinity is set.  The engine finishes what it was triggered for.
Nothing is promised of frames, messages, failures, spurious wakeups, SIGINT or
the end of a session.  `Supervisor`'s DQBUF returns only when `SilentCamera` is
false; `select` in the rx thread has a timeout.  In `ControlSync` the page ends an
edit it began.

## 4. Proofs

`SwapChainProofs` proves for every `MaxFrame`, every nonempty set of outputs and
either setting of the two platform constants:

- `TypeCorrect`: `Spec => []TypeOK`;
- `Conservation`: `Spec => []BuffersConserved`;
- `ScreenOwnership`: `Spec => []OnScreenOwned`;
- `GetSucceeds`: `Spec => []GetNeverFails`;

and, assuming `~SpuriousWakeups` and `~VeTimeouts`,

- `TearFree`: `Spec => []NoTearing`;
- `ChannelImplemented`: `Spec => Channel!Spec`, the refinement of `FrameChannel`;
- `NewerOnly`: `Spec => ShownInOrder`.

None of the properties is inductive.  The inductive invariant is `IInv == TypeOK /\
Phases /\ OnPlanes /\ NothingToGiveBack /\ Queues`.  `Queues` says that both arrays
are filled from slot 0 (*packed*: without it `forward` could bury a buffer
behind an empty slot) and that the number of places a buffer is in is
exactly one (*once*); counting turns every queue operation into an
equation, stated as a lemma about `forward` and `put`, and in particular shows that
`put` always has room.  `OnPlanes` ties the planes to the two locals of the display thread
at each of its program points, `NothingToGiveBack` says where there is no previous
buffer, and `Phases` ties the threads' program points together (no
display thread while the display is being initialised, an idle capture thread while it is torn
down).  `GetSucceeds` follows by counting: at `get` at most two buffers are outside the
queues.  `TearFree` adds a second invariant about the engine: while it
runs, it writes the buffer the capture thread holds, which by conservation is
neither shown nor queued.  The refinement adds two more: `InStep` ties the thread's
two locals and the planes to what the channel says each output has, at each of its
program points, and `InOrder` says that frames are in the order of capture all the way from
the planes over the display array to the engine.
Every step of the threads is then a step of the channel or a stutter (`MapStep`).

`SupervisorProofs` proves for every camera and driver

- `TypeCorrect`: `Spec => []TypeOK`;
- `StrayConfined`: `Spec => []StrayOnlyAtExit`;
- `DescriptorsKept`: `DescriptorSpec => []DescriptorsOwned`;

assuming `~QbufFaults`,

- `SessionsStartClean`: `Spec => []CleanStart`;

and, assuming `~SilentCamera` as well,

- `TeardownSafe`: `Spec => []NoUseAfterTeardown`;
- `DriverNeverStarves`: `Spec => []NeverStarves`.

`SessionInv` says which resources main holds at each of its program points
(`Resources`), where the control thread has been joined, and what a thread left behind
means (`StrayStops`: only SIGINT stops a capture thread that is not about to leave its
loop by itself, so a thread that main gives up is one of a program told to end).  It needs no
assumption, and `StrayConfined` follows from it; `CleanStart` adds that
the mapping is undone before the device is opened (`BuffersMapped`), which only a failing
QBUF prevents.  For the other two, `Threads` says at which program points a thread may be
alive, and `CaptureBuffers` where the capture buffers are: what the driver has is
mapped, and it has something whenever the capture thread holds nothing.
`TeardownSafe` needs both halves: main passes the join only when the thread has
ended, and a buffer the capture thread holds was mapped when the driver got it.

`DescriptorsKept` rests on `DescriptorInv`, which says for every number in use which variable holds
it (`Recorded`) and for every part which number it has (`InUse`).  The lowest free number
that the kernel hands out exists because there are more numbers than variables
(`Pigeonhole`).  Two parts are about the exceptions: `LateDisplay` for a display brought up
after `hw_close`, and `ZeroTaken`, without which CEC, which takes 0 for *not open*, could
get number 0 and never close it.

`CecQueueProofs` proves, for any number of messages and any sequence of sessions,
`TypeCorrect`, `ListSafe` (`Spec => []ListIntact`), `ThreadsSafe`
(`Spec => []ThreadsUsedRight`) and `QueueImplemented` (`Spec => Queue!Spec`, the
refinement of `MessageQueue`).  `ListIntact` becomes inductive with `Order` (the
newest message is at the end of the list or about to be linked there, and the
message being processed is older than all on the list) and `SessionOwnsThread`.
The refinement maps the list, read from `message_queue_start` by a recursive function, to a
sequence.  `ListIsRun` shows that the sequence is the run of numbers from the first to
the last node: that such a function exists, and what its values are, follows by a
least counterexample (`LeastNumber`, from the well-founded order of the naturals),
since links lead to later nodes only.  Linking a node is then `Append` and taking one `Tail`.

`VeAllocProofs` proves, for a region, a page and requests of any size and any sequence
of calls, `TypeCorrect`, `ChunksTiled` (`Spec => []ChunksTile`), `NoStranding`
(`Spec => []NothingStranded`), `Translation` (`Spec => []TranslationExact`) and
the refinement `RegionImplemented` (`Spec => Region!Spec`), from
`VeAllocAssumption` alone.  The inductive invariant (`InvariantHolds`) adds two parts
to the tiling: `Mappings`, that
the process has mapped exactly the chunks in use, and `Coalesced`, that behind
`ve_free`'s cursor no two neighbours are free, which is what makes one pass
over the list enough.  The refinement step follows from disjoint chunks: a new
mapping lies in a chunk that was free, and an unmapping takes away one mapping and
no other.

`DisplayParamsProofs` proves `ChangesArrive` (`ParamSpec => []NoChangeForgotten`), for
every platform and any number of frames and changes.  Its invariant needs `FlagUp` (while
blocks are being sent, the control thread would send a new one itself, or there is none)
and `SentAgain` (a block that changed after the display thread had sent it is being sent
by the control thread): without the second, clearing the request could lose it.
Of the swap chain it needs only that main is past `terminate_display` when
the display thread has ended.

`ControlSyncProofs` proves, for any documents, any debounce and any number of edits,
messages and sessions, `TypeCorrect`, `EditsNoticed` (`Spec => []EditSignalled`) and
`SettingsSaved` (`Spec => []SavedAtEnd`).  The inductive invariant has three parts: which
program points belong to which part of `control_loop` (`Parts`); that an edit which
comes between taking the file's size and reading its text raises an event that is not
taken before the text is read (`Noticed`), the reason for the order of
`inotify_poll` and `load_file_controls`; and when file and settings agree (`Saved`).

`CecValueProofs` proves, for every camera, every range of a control, every step and every
sequence of messages, `ValuesLegal` (`Spec => []LegalValue`) and `KnobsMonotone`
(`Spec => Monotone`).  The invariant `LastApplied` says that what was sent last is `Applied` of the
last message; the rest is arithmetic that SMT does not find by itself: division and
rounding are monotone and exact on multiples (`QuotientBounds`, `StepMonotone`,
`RoundMonotone`), and rounding down to the step stays inside a range whose
ends are on the grid (`StepStays`, `GridMultiples`).

`FrameDecoderProofs` proves, for headers of any length with any number of tables, frames
cut off anywhere, and any cameras and sessions,

- `TypeCorrect`: `Spec => []TypeOK`, the parser inside the frame;
- `WholeFramesTaken`: `Spec => ParsedWhole`;
- `TablesOwned`: `Spec => []OwnTables`;
- `EnginesInside`: `Spec => []PlanesInside`, from `ScanoutFits` and `PictureFits`, which
  are about every size of layout and picture;
- `CodesCorrect`: `Spec => []CodesReadable`, when the camera's tables are `Encodable`.

from `FrameDecoderAssumption` (a length field counts its own two bytes, a segment's
tables are numbered from 1, a Huffman table has one of the four numbers and two
classes the code's masks leave, a frame header's size is not zero).
`WholeFramesTaken` needs that the parser stands at the end of the segments met so far
and that all of them are ones behind which it may go on (`WholeSoFar`); `Extent`, the sum of
their lengths, is a recursive function, of which `EndsExist` and `EndsAgree` show by a least
counterexample that it exists and that a longer header's extends a shorter one's.
`TablesOwned` is inductive with the types: a segment's tables come behind all places of
before (`LastReplaced`), and number and class of a Huffman table
have a pointer of their own (`HuffmanIdsApart`).  `EnginesInside` needs `RegistersAgree`: a
layout with a pixel format of its own has it in `pixel_format`, and a picture with an engine
format of its own has it in `format`, whatever earlier frames and sessions left there.  The
rest is arithmetic of the sizes: the luma of a smaller picture is no more than the
layout's (`StrideGrows`, `RowsGrow`), which the padded sizes hold (`StrideFits`,
`RowsFit`), and `ChromaFollowsLuma` says of every size, padded well or not, that the
chroma stays in its planes if the luma stays in its own.

`CodesCorrect` is the argument for canonical Huffman codes.  The code does not look at the
counts of a table, so that they leave words enough is a hypothesis about the camera,
`TablesEncodable` (`SampleCodesEncodable` in `MCFrameDecoder` has TLC see that the sample
tables meet it); the number of lengths, 16 in the code, is any.  Of the words of n bits a
table takes the first `Taken(num)[n]`, the code words of that length and all that begin
with a shorter one.  `FirstFree` shows that the first code word of a length in use is
twice what the shorter ones take, so the words of a length lie behind all that begin with
a shorter one (`TakenGrows`, `NoneBegins`); `TakenFits` bounds them by the powers of two
`Words`, and `IndexGrows` and `IndexCovers` give every symbol its one word.  Sums and powers
are recursive functions: `Recursion` shows once that a function defined by recursion
over an interval exists, and `Induction` replaces the library's induction theorem, which
takes an operator, by one about a set of numbers.  `EngineTables` carries the result to
the engine: with `OwnTables`, what it is given are tables of the camera's segments.

Model-checked only: liveness (`EveryFrameShown`, `CaptureResumes`, `StopReturns`,
`EveryMessageProcessed`, `Converges`, `CameraReopened`, `StopsWhenPolling`), which is out
of TLAPS's reach here.  Every invariant of the passing runs is a theorem.

## 5. What does not hold

- `supervisor_sigint`: a SIGINT during the setup of a session does not end the
  program.  `main` stores 1 in `capture_loop_run` and `control_loop_run`
  (`main.c:308-309`) without looking at `device_loop_run` again; between the two
  stores it even leaves the flags different, and `main.c:322` polls for ever.
- `cec_shutter`: `cec_controls.c:402` says the shutter is mapped inversely.
  `(val - min) / (max - min)` is already inverted for a descending range and
  `cec_controls.c:278-280` inverts it once more, so only the end points are.
- `cec_forward`: `cec_controls.c:284` sets `ctrl.id = 1`, the id of no control, so
  no CEC message ever changes the camera.

Known and not stated as a run, because nothing in the repository promises the
opposite: `NoTearing` fails with spurious wakeups or engine timeouts;
in a session that finds no adapter after one that did, `stop_cec_controls` joins a
joined thread and `poll_cec_events` locks a destroyed mutex (`ThreadsUsedRight`
speaks of the other sessions); `NeverStarves`
and `CleanStart` fail when `VIDIOC_QBUF` does; `NoUseAfterTeardown` fails for a
silent camera; an edit that ends between the program's first write and
its first `inotify_poll` goes unnoticed (`main.c:111-118`, `Converges` leaves it out);
and `terminate_display` can lose its
signal (`display.c:849-850`, no lock) when the display thread is about to wait on an empty
queue, after which `hw_close` never returns (`SignalLost`; `StopReturns` says that this
is the only way).

Of the display, the decoder and the rx thread:

- `deallocate_buffers` (`display.c:884-886`) closes the numbers of an earlier session
  when this one never showed a frame; the CEC adapter may have got one of them, or, at
  the first, it is number 0.  A capture thread that main gave up at the end may bring
  up the display after `hw_close`, and its descriptors stay open.
- A frame without the quantisation tables 0 and 1 is decoded through a NULL pointer,
  one without a frame header ends in a division by zero (`MissingTables`).
- The subsampling is looked at only while the display is not initialised
  (`jpeg_dec_main.c:404`); for 1x2 `init_display` prints that it is not supported and goes on
  with the pixel format of an earlier session and undefined divisors.  A later frame of
  another subsampling than the first of its session, or of one without engine format, is
  decoded into a layout that was not made for it, and one that is larger is written over
  the end of the planes: `jpeg.c:123-124` takes the size from every frame and nothing
  compares it with the layout (`LikeTheFirst`).
- The constants of `display.c:664-677` clear one bit where they should round down.  The
  scan-out fits nevertheless (`ScanoutFits`); the video engine's luma may not where
  `PaddingSuffices` fails: 1024x600 with 2x2 runs into the U plane.
- For a width that is no multiple of 32 the display engine's pitch (`display.c:714`) is not the
  video engine's (`jpeg_dec_main.c:215`).
- `select` counts its timeout down on Linux and `tv` is set only once
  (`cec_controls.c:165`): after two seconds of waiting the rx thread spins.  It costs
  time only and disturbs no property.
- `hw_init` does not look at the result of `ve_malloc` (`jpeg_dec_main.c:287`).

## 6. Not modelled

`memory.c` (dead code); `start_drm`, `stop_drm`, `find_new_plane`,
`setPlanesColorFormat` (enumeration of DRM objects, I/O without decisions the
properties depend on); the registers of the engine that get constants or addresses;
the output of `dump_jpeg`; the logical address of the CEC adapter; the layout of the
JSON document; logging.

## 7. Plan

Done: every component of section 1 but the dead one is modelled and checked, the three
refinements are proved, and so is every invariant of the passing runs.  Left:
composition of `CecQueue` with `CecValue` and `ControlSync`, from the switcher's
message to the camera's control and the file.
