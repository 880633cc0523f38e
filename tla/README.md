# waxcode-xwax in TLA+

A formal model of this fork of xwax: a digital vinyl player that runs headless,
one process per deck or a few decks in one process, and is driven by timecode
records, by a line protocol on a Unix socket (`PROTOCOL.md`) and, where there is
a screen, by the SDL interface. Paths below are relative to the repository.

## The system

### Threads

| thread | runs | may block |
|---|---|---|
| rig | `rig_main()`: polls imports and scans, handles them under the rig lock | yes |
| realtime | `rt_main()`: polls with a 10 ms limit, then every controller, then every sound device; a device submits to the timecoder and calls `player_collect()` | no: `rt_not_allowed()` aborts |
| control worker | one per control socket: LOAD, UNLOAD, TIMECODE | yes; does not take the rig lock |
| interface | SDL events; holds the rig lock except while it draws and waits | yes |
| children | `import` and `scan`, read through non-blocking pipes by the rig | |

### Components

| component | state | operations | talks to |
|---|---|---|---|
| track cache, `track.c` | list of tracks; per track the count, pid, pipe, blocks, length | acquire by import, acquire, release, clone; handle and reap an import | rig (posts imports), player (holds a reference) |
| rig, `rig.c` | lists of imports and scans, event pipe, the rig mutex | `rig_main`, post, quit, lock | track, excrate |
| deck, `deck.c` | record, cues, punch, protect | load, unload, recue, clone, cue, punch in and out | track, player, cues |
| control socket, `control.c` | listening and client socket, line buffer; mailbox of one LOAD, one UNLOAD, one TIMECODE and one resolved definition | accept, read, 20 commands, worker, clear | deck, player, timecoder |
| player, `player.c` | position, offset, pitch, modes, loop, cue point, track, spin lock | transport commands, set track, clone, `player_collect()` | timecoder, track, key lock |
| timecoder, `timecoder.c`, `lut.c` | two channels, bit stream, error counter, table of a definition | submit, get position, set definition, build lookup | player, control |
| excrate, library, `external.c` | listings, scan processes, line buffers | scan, rescan, handle, get line | rig, selector |
| index, listbox, selector | sorted listings, cursor, match | insert, match, move the cursor | library, interface |
| cues | 16 positions | get, set, unset, previous, next | deck, dicer |
| dicer, controller, midi | LED state, output buffer, fault flag | handle, realtime, clear | deck |
| key lock | stretcher, reads, fade | build, reset | player |
| devices (ALSA, JACK, OSS, dummy) | handles, fault flag | start, stop, handle | realtime thread, player, timecoder |
| `xwax.c` | everything | start and shutdown order | all |

### What is hard about it

* The import of a track is owned by three parties (deck, rig, child process), and
  a control worker works on the shared list without the lock that the interface
  and the rig use.
* The mailbox between a thread that must not block and one that does, with three
  kinds of request, one slot each and a condition variable.
* The player's fields are written by two threads, partly under a spin lock that
  one of them may only try, and partly without.
* Modes: tracking, relative and internal playback each read a different part of
  the state, which the commands and a load have to keep in step.

`PROJECT.json` lists every hazard at its line with the property that covers it.

## What is modelled

### `TrackCache`: tracks, decks, rig and imports

One variable per piece of state: `mem`, `refcount`, `importing` (`t->pid != 0`),
`child` (the process), `terminated` (the audio is cut short), `tracks` (the
list), `rig` (the rig's list), `deck` (`player.track`), `lock` (the rig mutex)
and a program counter for each thread. Loaders are interface threads or control workers; `Lockers` says which of them hold the
rig lock. `track_acquire_by_import()` is cut where another thread could see a
difference: `Scan`, `Create`, `Post`, `Acquire`; `track_release()` into the
decrement (`Release`), the decision (`Check`) and `Free`.

| run | shows |
|---|---|
| `TrackCache_ui` (pass) | with every loader under the lock the counts are exact (`RefcountExact`), nothing uses freed memory (`NoUseAfterFree`), only abandoned imports are terminated (`TerminateOnlyAbandoned`), a file is in memory once (`OneTrackPerPath`), and a track that nobody wants is freed in the end (`AbandonedFreed`), which needs its import to be reaped |
| `TrackCache_worker` (violation) | a control worker does not hold the lock: it acquires a track of which nobody holds a reference any more |

Bounds: two files, two addresses (as many as two files can have tracks), two
decks. Two files are enough for a reload to meet an import that is being ended
(A, B, A: the deck gets the track whose import was cut, which no document
forbids), and two decks for a shared track.

### `ControlMailbox` and `DeckRequests`: the control worker

`ControlMailbox` has the mutex and the condition variable (`locked`, and `wpc` for
where the worker is, asleep too), the three pending slots, the resolved definition
and the shutdown flag; the realtime thread's handlers are atomic because they
hold the lock for their whole body, and enabled only when it is free.
The worker lets go of it during a job, and a job is a step per effect that
another thread can see (`LoadRecord`, `LoadTrack`). Spurious wakeups are
allowed. `owed` counts accepted requests that are not finished.

`DeckRequests` is what the mailbox promises: an accepted request is held, a
later one of the same kind replaces it or is refused, and it is served once or
discarded at the shutdown. `KeepsPromise` says that `ControlMailbox` implements it.

| run | shows |
|---|---|
| `ControlMailbox_all` (pass) | no lost wakeup, refinement of `DeckRequests`; the lock is free while a request is served (`NeverWaitsOnJob`); requests are taken up, subject to those that go before them, and a resolved definition is applied (`RequestsServed`); the shutdown ends |

Bounds: two files and three timecode names, one of which does not resolve;
the slots hold one request, so two of a kind meet every case. The program stops,
so deadlock is not checked in this run; `ShutdownEnds` says that it stops.
The slots are not a queue: UNLOAD and then LOAD, sent while the worker is busy, are
served in the other order and leave the deck empty. `PROTOCOL.md` promises no order,
and `KeepsPromise` allows it.

### `Player`: transport, modes and loops

`position`, `offset`, `pitch`, `timecode_control`, `relative_mode`,
`relative_playing`, the loop, `cue_point` and `position_known` are the fields of
`struct player` of the same names. Time is counted in buffers of one second, so
that the pitch is also the distance of a buffer. The commands run on the
realtime thread; those that call `player_set_relative_mode()` first are two
steps. `player_collect()` is three: `Collect` up to the spin lock's release,
`ReadPosition`, and `Advance`, which stores the new position and wraps it in a
loop. `player_set_track()` on another thread is `LockSpin`, `Swap` under the
spin lock, and a step for each field written after it. The needle gives any position,
the runout or nothing, at any pitch. `last` (what was last asked of the transport) is a
history variable.

`Patient` (TRUE in the run) is an assumption on the client: it waits for a load to end before it
sends a command that moves the transport. It says nothing about the audio, which
interleaves with the load in either case. Without it a PLAY during a load is half
undone: `player_play()` and `player_set_track()` write the same fields in turn, and TLC
refutes `TransportObeyed` and `LiftedNeedleHolds`.

| run | shows |
|---|---|
| `Player_patient` (pass) | for a patient client the last command decides (`TransportObeyed`), loads leave the deck fresh (`FreshAfterLoad`), a lifted needle never stops a deck in relative mode, loops hold and jumps outside of them play on |
| `Player_reset` (violation) | the reset of the position by a load is overwritten by the audio callback |

Bounds: four positions, one of them before the track, one beyond the safe zone;
pitches back, still and forward; a loop of two seconds, longer than a buffer. (A
backward buffer that covers a whole number of loops would land on `loop_end`, outside the loop;
a buffer is some milliseconds, so the model assumes loops outlast it.) The fade of key
lock, volume, trim, `sync_pitch` and corrections below `SKIP_THRESHOLD` are left
out: no property depends on them.

### `ControlSocket`: connections and lines

`accept_clients()` and `read_client()` are cut at their system calls: `Accept`
and `AcceptReturns`, `Read`, `ReadReturns` (nothing there, or an error) and
`ReadsNothing` (0, the end of the stream or no room), and for each line
`HandleLine`. `Poll` and `Leave` are the head of the loop of `rt_main()`. A byte
is the connection it came from and its place there; `newline` says where the lines
end. `handled` is what `handle_line()` was given. Clients connect, write a byte at
a time, close, with replies unread or not; `accept()` may fail; `read()` may give
less than there is. `fcntl()` on a new descriptor does not fail, and replies are
not modelled: `write()` is to a client that is still connected or has its error
ignored (see the hazard about SIGPIPE).

| run | shows |
|---|---|
| `ControlSocket_serve` (pass) | lines are executed whole, in order and once, never with bytes of a replaced client; `read()` has room; a client that stays is served on a silent deck, because `poll()` has a limit |

Bounds: two connections (one is there, one replaces it), three bytes each and a
buffer of two, with the streams of `MC_ControlSocket`: lines of one byte, one
that fits exactly, one cut off, one too long.

A client that is replaced may lose what it has written (`LinesServed` excepts it).

### `DeckCues` and `Dicer`: cue points, punches and the Dicer's LEDs

`DeckCues` has what `deck_cue()`, `deck_unset_cue()`, `deck_punch_in()` and
`deck_punch_out()` do to `cues`, `punch` and the player's position and offset;
`MovePosition` and `MoveOffset` are the audio and everything else that seeks.
`home` is a history variable: the offset that the punch left, as long as nothing
else moves it. `Dicer` composes it with `dicer.c`: the actions are the events of
`event()` per LED mode, `Sync` (`sync_all_leds()` in the realtime callback, which
writes what fits, and keeps the rest of `obuf`), `ReadError` and `Clear`. The
hardware is a state of its own, `device`, which is sent the bytes that the port took.

| run | shows |
|---|---|
| `Dicer_leds` (pass) | LEDs follow the cue points on every page (`LedsShowCues`), an LED that is marked `SYNCED` is what the hardware shows, once it has the bytes that wait (`SyncedIsShown`), a punch that nothing disturbs returns to where it left from, and the hardware settles (`LedsSettle`) |

In the run `ShortWrites` is FALSE: the port takes nothing, all, or at least half of what
it is given. With `ShortWrites = TRUE`, when the port takes less than half, `memmove()`
(`dicer.c:264`) moves the wrong number of bytes, and TLC refutes `SyncedIsShown`.
Bounds: one deck, on the left unit, and none on the right; one button for each
unit; one of the six modes in which an LED is told its colour. `obuf` has room
for all LEDs at once, as the code's has (180 bytes), so that another change finds it
full while a write is incomplete. If one deck were given to both units, a cue point set
on one would not light the LED of the other.

### `Listings`, `Library` and `Selector`

`Listings` has `index.c` and `listbox.c` as operators on values: the binary search,
the insertion, the three indexes of a listing, the window and its cursor. `Library`
has the scans (an excrate with its reference count, process and output), the
listing that each crate shows and the events it watches. `Selector` adds every key
of `selector.c` and its callbacks. All of it runs under the rig lock, so that a
line of a scan, with everything it fires, is one action. The two indexes of the
selector keep the memory beyond their entries, which `hunt_target()` reads.
`watched` is the crate that the callbacks are attached to.

| run | shows |
|---|---|
| `Selector_view` (pass) | the view that is kept by increments is what crate, order and search give (`ViewIsMatch`), the cursor follows its target and stays in the window (`CursorFollows`, `CursorVisible`), listings agree, a crate is busy while its scan runs, and a scan is held, terminated and freed as its references say (`ScansHeld`) |

Bounds: two records in opposite orders, the crate of all records and one with a scan,
two scans (one replaces the other, whose end may come at any time), a search of one
key that one record matches. The window has one line, which is smaller than the
lists, and keeps its size. With `LineCounts = {1, 2}` TLC refutes `ViewIsMatch`: a window that shrinks
below the selected crate highlights another crate over the same records. `hunt_target()`
reads the entry after the cursor, which may be past the end, where the last view is still
in memory; no property forbids it. The window is drawn before the first key: with
no lines, as in a window too small for the library, End followed by a larger window
leaves the cursor outside of it. A search is the sequence of
what is asked of a record, since typing more only makes the words longer. Memory that was never written
does not hold the target (`Fresh`).

### `RigLoop`: pipes, polling and reaping

The loop of `rig_main()` is cut where another thread can act: `Fill` (the poll slots),
`Poll` and `Interrupted`, `Drain` (the event pipe), `Lock`, and under the lock `Handle`
for each job, one round of `read_from_pipe()` (`ReadAudio` and `Commit` for a track,
`ReadLine` for a scan), `Close` and `Reap` of `stop_import()` and `do_wait()`. `pe` and
`fds` keep what an earlier round left there, so that a job may be handled for the
descriptor of another. The process of a job is `Write`, `Exit` and `Terminate`; its pipe
holds `PipeSize` bytes, and what it has inherited from the parent (`inherited`) keeps
other pipes open. `Post` and `Quit` are the interface, when the rig has let go of the
lock. Bytes are numbered: `written`, `bytes` and `popped` say how far the process, the rig
and `get_line()` have come; `length` is what other threads may read of a track.

| run | shows |
|---|---|
| `RigLoop_jobs` (pass) | no sample is announced before it is stored (`PublishedIsStored`), what a process wrote is in the track to the last sample or in the listing to the last whole line (`NothingLost`), every posted job is reaped (`JobsEnd`) and a request to quit ends the loop (`QuitEnds`) |
| `RigLoop_inherit` (violation) | `stop_import()` waits for a process that never ends: a later process has inherited the read end of its pipe, so that it gets no SIGPIPE, and the later process itself waits for the rig |

`JobsEnd` and `QuitEnds` except the situation of the second run by name (`Stuck`), which is
a behaviour of the code: descriptors are not close-on-exec.

Bounds: one import and one scan, and one poll slot for the two, so that one always waits
for the other and entries go stale (the code has three slots for any number). A track
holds two blocks of one sample of two bytes, and the import writes seven bytes, more than
fit and with half a sample; the scan writes four bytes to a buffer of two, as two
short lines, a line over two reads, and one that fills the buffer. A job is posted
once. Lines that cannot be parsed and a record that gets no memory are left out, as are the
overview and meter of a track, which only the drawing reads.

### `Timecode` and `Timecoder`: the position on a record

`Timecode` has the shift register in both directions (`fwd`, `rev`) and the table
(`lut_push`, `lut_lookup`, with chains by `HASH`) as operators on values. A register
(`bits_t`) is the set of its bits that are 1: a shift moves them, `Bit` is a 0 or 1 shifted
into place, `lfsr` is the parity of those tapped, and `Plus` is the code's `+` in
`process_bitstream`, with its carry. `Timecoder`
puts a record under a needle: a sample moves the needle by at most a quarter of a wave,
`Jump` puts it anywhere, on either side. `Direct` is what a crossing of an axis tells of
the direction, `process_bitstream` compares the bit with the one expected. Any bit may be
misread. Definitions are changed in two ways: between two samples by the realtime thread
(`SetDefinition`), and by the interface, which reads the definition, stores the next and
then resets the counter (`CycleNext`, `CycleDefinition`, `CycleReset`) without a lock. So a
sample is cut in three: `Sample` sees the crossings, `ProcessSample` reads the direction and
the bit, and `Count` stores what `valid_counter++` made of the counter it had read.
`sample.defs` is what `tc->def` was since the crossings, and each place that reads it
(`Glances`: the direction, the polarity, the expected bit, the shift) may see any of these.
Workers build tables one entry at a time
(`FindBuilt`, `PushTimecode`, `FinishTable`). `clean`, `run`, `checked` and `torn` are history
variables: how many bits have been read well since the last that was not, since the last
reversal, and for this definition; and whether the counter counts bits of before its last
reset.

With `SetDefinition` between samples the model follows the comment at `control.c:184`: the
realtime thread is the audio path. That holds of ALSA, OSS and the dummy device. JACK calls
back on a thread of its own, and there `timecoder_set_definition()` would run beside a
sample; this is not modelled.

| run | shows |
|---|---|
| `Timecoder_follow` (pass) | a position that is given was checked on enough bits of one direction and one definition and is that of the needle if no bit of its window was misread (`NoFalsePosition`), wherever the interface's stores fall within a sample, with the exception below; a needle is found again after one window and `VALID_BITS` + 1 more bits (`FoundAgain`); a table that may be used is whole (`TablesComplete`) |

`NoFalsePosition` excepts `torn`. The interface's `valid_counter = 0` (`timecoder.c:671`) may fall
between the comparison of a bit and the end of `valid_counter++` (556-557): the old count is
stored over the reset, or a bit that was compared for the old definition is the first of the new count.
A position is then given that was checked on fewer bits of its definition than
`VALID_BITS` + 1, until the next misread bit or reversal resets the counter. Without the
exception TLC refutes `NoFalsePosition`. No document speaks of a change of definition
under a moving needle, so that this is no violation run.

Bounds: two sides with registers of three bits, wired opposite ways, tables of four and
two entries in chains of two, `VALID_BITS` 2 (24 in the code), seven bits of a record,
three places to put the needle down, and one worker, as one control socket has.
With `Workers = {w1, w2}`, which two control sockets in one process would give, TLC refutes
`TablesComplete`: both build one table, and entries are pushed twice. The definitions have
three bits each. With five bits on one side and three on the other it refutes
`FoundAgain`: `timecoder_cycle_definition()` leaves the bits as they were read, and going
forwards those above the shorter register move down into what is read, or their carries
do, so that it takes longer until the code is right. The pitch filter, the
thresholds and reference levels, and the monitor are signal processing and left
out.

### `Engine`: start, audio threads, shutdown

`main` walks through `main()` of `xwax.c`: `Launch` and `Handshake` (`rt_start()`, its
semaphore and flag), `DeviceStart` per device, `StartUp` (mlockall and the interface, which
may fail), `RigEnds`, then the shutdown in the order of the code, `InterfaceStop`,
`Finish`, `DeviceStop`, `Join`, `DeckClear`, `ControllerClear`, `Free`. `rt` is the realtime
thread: `Prioritise`, `Declare`, `Poll`, `ControllerHandle`, and each device in turn
(`Skip`, `Capture`, `Playback`). An ALSA device has two streams with a ring each, which
`Period` fills and empties and which stop when they overrun; `written` counts up to the
manual start of the playback. JACK calls `ProcessCallback` on a thread of its own for every
deck that is started. A worker may hold a job when the shutdown comes.

| run | shows |
|---|---|
| `Engine_run` (pass) | nothing is used after `main()` has cleared it (`NoUseAfterClear`), a refused priority starts nothing (`RefusedIsIdle`), playback that stopped for want of audio runs again (`AudioFlows`), and the shutdown always ends (`MainEnds`) |

Bounds: a deck of ALSA between two of JACK, so that the count of started JACK decks goes up
and down around the other; a buffer of two periods, so that a stream can be half full;
cards that give larger rings are not needed, since a ring is at most three. With
`buffer = 0` (`--buffer 0`, the largest buffer of the card) the count of written frames is never
below `buffer`, `snd_pcm_start()` is never called, and TLC refutes `AudioFlows`. OSS and
the dummy device have no such state. Assumed of the libraries: `jack_deactivate()`
returns when the callback has, and `snd_pcm_prepare()` leaves an empty ring.

## Fairness

`TrackCache`: weak fairness of each step a thread makes on its own, of the child's exit (an import reads a
finite file or gets a signal) and strong fairness of taking the rig lock, which
the interface gives up at every event. Loads are not fair.
`ControlMailbox`: weak fairness of the worker's steps, taking the mutex among them (the others
hold it within one step, so that it is never kept from the worker), of `apply_pending_definition()`,
which the realtime thread runs every 10 ms and which only tries the mutex, and of the
shutdown once it has begun. Nothing promises the mutex to the realtime thread while the worker
keeps taking it, which is why `RequestsServed` has a definition applied once the worker sleeps. `ControlSocket`: weak fairness of the realtime thread, strong fairness of
`Accept`, that is, `accept()` does not fail for ever on a connection that waits. `Dicer`: strong fairness of
`Drain`, a call of `Sync` whose write is complete: the port does not refuse for ever.
`RigLoop`: weak fairness of the loop, strong fairness of `Poll`
(a signal may interrupt it, but not for ever), weak fairness of a process that can write
or exit; nothing has to be posted, to fail or to quit. `Engine`: weak fairness of each thread;
the interface ends when it is told to, the worker's job ends, and no one has to quit or to
unplug a card. `abort()`s (`aborted`) end all of them. `Timecoder` and `Selector` state no liveness.
No client command and no spurious wakeup is fair.

## What is proved

TLAPS checks each theorem for all values of the constants.

* `TrackCacheProofs`, under `LockDiscipline` (every loader holds the rig
  lock): type correctness, exact counts, no use after free, frees and
  terminations are safe, no file twice, every import on the rig's list. The
  inductive invariant adds to these that a busy thread owns the lock, that the
  list is the heap, that a count of zero is only seen by the thread that is
  creating or freeing the track, and what each thread knows at each program counter.
  `RefcountExact` compares a number with the cardinality of the set of holders,
  so each step shows which holder is added or removed.
* `ControlProofs`, of the mailbox, with no hypothesis: type correctness, no lost
  wakeup, no job under the lock, each request once, and the refinement
  (`Implements`). The inductive invariant adds that the job in hand is of
  the kind the worker is at, and that nothing is in hand after the shutdown was seen.
* `PlayerProofs`: type correctness; a loop longer than a buffer holds and a
  jump outside plays on, with no hypothesis on the client; and under `Patient`
  the four invariants of the pass run about modes, loads and commands. The
  invariant records how far a load has got (`LoadProgress`), that no handler
  overlaps one (`HandlersAlone`), and that a deck held in relative mode
  that still moves was just told to stop (`HeldOnRequest`).

* `ControlProofs`, of the socket, with no hypothesis: type correctness with the bounds of the
  buffer, whole lines, order, room to read. The inductive invariant says that the
  buffer is a stretch of the client's stream that begins where the last line that was
  handled ended, and that nothing was read or handled of a connection in the backlog.

* `DicerProofs`: an LED is lit exactly when its cue point is set
  (`LitIfSet`), a punch that nothing disturbs ends where it began (`PunchesReturn`), and `obuf`
  is never overrun (`NeverOverrun`), with no hypothesis. The invariant for the second says that the
  offset and the punch add up to `home` (`PunchLeadsHome`). The hardware shows what is marked as
  synced once it has the bytes that wait (`SyncedAreShown`) under `~ShortWrites`: a port
  that takes less than half of the buffer leaves stale bytes in it, because of the `memmove()`
  of the wrong length. Otherwise what remains is the tail of what was there (`RemainingIs`), running the hardware on
  two sequences of bytes is running it on the second after the first (`RunConcat`), and the
  commands of the LEDs that fit leave exactly these as they are in memory (`AllTold`), whichever
  byte was the last that the hardware had.

* `SelectorProofs`: a scan's references, its termination and the
  watching crate (`ScansAreHeld`), a crate's business (`BusyExactly`), the listings
  (`ListingsDoAgree`), the window (`CursorIsVisible`, from `ListboxKeepsCursor`, one operation of
  a list box), the view (`ViewIsTheMatch`) and the cursor (`CursorDoesFollow`). The
  invariant of the first two (`IInv`) adds that no two crates share a scan, which makes the count
  of holders 0 or 1, and that the scan a crate shows has two references while it runs, so
  that its end does not clear the listing. The listings rest on the binary search: it stays within the part that it is
  given and splits a sorted sequence (`SearchSplits`), hence it finds what is there (`FoundIsThere`)
  and an insertion keeps the order and adds one record (`Inserted`).
  The view needs that a search of a longer sequence is that of the shorter
  one with the record added (`MatchedAppend`, `MatchedInsert`, since a set can be sorted in one way
  only, `SortedOnce`), that a refined search may begin with what is shown (`MatchedTwice`), and that
  the watched crate is the current one. The last two theorems have the
  hypothesis `NeverShrinks`, no step makes the window smaller: without it `ViewIsMatch` is false
  (see above). `CursorFollows` also needs that the cursor is never below the target
  (`BeforeTarget` in `CursorInv`), since `hunt_target()` only looks one entry further.

* `EngineProofs`, with no hypothesis on the devices: type correctness, nothing is used
  after it was cleared (`EngineClears`), a refused priority starts nothing
  (`EngineRefuses`), and, for any buffer but 0, a playback stream that waits has as many
  frames in its ring as are counted, so that it starts when it is full
  (`EngineStarts`). The invariant has a part for JACK (the client is active while
  a deck is started, and its callback runs only then or while it is waited for), one for
  the end (each thread has ended before what it
  uses is cleared), one for the handshake and one for what is still before it.

* `RigLoopProofs`, for any sizes of samples, blocks, tracks and pipes: every sample
  below the published length was stored whole in a block that is there (`RigPublishes`),
  and what was read is announced before the rig turns to anything else
  (`RigAnnounces`). The arithmetic is in lemmas on `\div` (`BlockOfByte`). What a
  reaped job has left (`RigLosesNothing`) needs that the lines that were popped are those of the
  text up to the place where the rig is, that a track is read without a gap, and that the bytes still in the buffer
  or the pipe are the ones that come next.

* `TimecoderProofs`, for definitions of up to 31 bits: `rev()` undoes `fwd()`
  (`Symmetric`, the assertion in `build_lookup()`), type correctness with a table for the definition in
  use, and, with one control socket (`OneWorker`), that a table that may be used is whole
  (`TablesAreComplete`), the position that is given was checked on enough bits and is the
  needle's (`PositionIsTrue`, with the exception of `torn`) and a needle is found
  again (`IsFoundAgain`). Only the last has the hypothesis `KeepsBits`, that the interface does not
  cycle to a definition with fewer bits (see above); both rest on the assumption `NoWrap`, no code is on a
  record twice, which `build_lookup()` asserts and `mktimecode` ends the record for.
  The invariant of the tables (`TablesInv`) says that a table is the first codes of its record, as many as
  were pushed, with each chain linked from the last to the first (`Filled`); the search finds the last
  place of a code (`LookupIs`), which is the only one. A register full of the bits that the needle
  has passed in this direction (`ReadsAt`) is the code of the place where it starts (`FullRegister`), and
  `fwd()` or `rev()` of it foretells the next bit (`ReadOn`). The invariant of the decoder (`DecoderInv`) says
  how many of its bits are such when a longer register may have left some above them: a bit that
  agrees moves those down by one without a carry (`Settling`), since a carry is not what `fwd()` expects,
  so that of `valid_counter` bits that agreed in a row only the first `VALID_BITS` + 1 - `bits` can have met
  one, and a whole window is clean when a position is given. It speaks of what can be
  trusted in the counter with the bit that is being counted (`Trust`) and holds while the
  counter is not torn and no reset of the interface is due. While no definition with fewer bits is
  cycled to, all of the last `run` bits are such, and all but those of the first window have agreed (`KeptInv`),
  which a torn count does not disturb: it is only too high.

Induction in `SelectorProofs`, `RigLoopProofs`, `TimecoderProofs` and `DicerProofs` is over sets: the numbers, sequences or parts
for which a statement fails would have a least one (`ShortestFailure`, `LeastFailure`). A
recursive function is equated with the function that its equation determines (`SearchIs`,
`KeptIs`, `Record`, `WalkEq`), which has to be shown to exist first (`SearchExists`, `KeptExists`,
`CodeExists`, `WalkExists`, and `Folded` for the folds).

The type invariants, `FreeOnlyUnheld`, `RigReapsEveryImport` and `StartsWhenFull` are proved but not repeated by a run. Every invariant that a passing run
checks is proved, with the hypotheses named above. Liveness
is model-checked only: the prover does not treat fairness. The violation runs are
counterexamples and prove themselves.

## Not modelled

* Key lock (`keylock.c`): the stretcher is a library that works on samples; what remains
  is the choice of the source, for which no document says what a failure should give.
* The rest of the key and signal processing: resampling, dither, `sync_pitch`, trim, the
  pitch filter, zero-crossing thresholds, RIAA, `mktimecode`.
* Drawing, option parsing, the status line, OSS and the dummy device, and the observers as a
  data structure (the events are calls in `Library` and `Selector`).
* Failures of memory that leave a half-made object: the code calls them errors of the
  job, which `Terminate`, `more_space_fails` and `FindBuilt` (nothing changes) stand for
  where they occur.
* The composition of the worker of `ControlMailbox` with `TrackCache` and with a reader
  of `player.track` on the realtime thread: `TrackCache_worker` already refutes that a worker
  holds what it acquires, so that nothing further could be shown of it.
* Replies of the control socket, which are written and never waited for.
* Memory orderings weaker than interleaving, which TLC does not explore.
* `rt_start()` without a realtime thread (`realtime.c:246`, when no device and no controller has a
  descriptor to poll, as with JACK decks only). `Engine` always starts the thread; its deck of ALSA has
  descriptors.
* `midi_read()` of less than a message, and the `abort()` on a byte that is not one of a Dicer:
  `Dicer` has an event per message.
* `cues_prev()` and `cues_next()` are only called by a test.
