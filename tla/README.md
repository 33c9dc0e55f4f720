# Verification of Jeed

Jeed receives market data from three kinds of source, turns every message into a
640-byte `WireRecord` and publishes it to a shared-memory ring that consumers in other
processes read. This directory holds TLA+ models of the parts whose correctness depends
on interleavings, failures and timing, models of the pure code between a message and a
record (framing, decoding, routing, the conf rules) beside what its inputs mean, the TLC
runs that check them, and proofs.

`PROJECT.json` is the index: which definition models which lines, what every run checks,
which plausible bug each property would notice, and the hazards the properties are for.

## 1. The system

| component | state | operations | talks to |
|---|---|---|---|
| `jeed-shm` ring | segment header (capacity, boot_id, write cursor), slots with a sequence word; producer's next_seq; consumer's boot_id, next_seq, capacity | `create`, `slot`/`publish`/`push`/`commit`, abandon; `attach`, `try_recv` | feed thread writes, consumer processes read, only through memory |
| `jeed-fix` session | link state, timers, inbound and outbound numbers, receive buffer | `poll_once` (= `try_connect` or `pump`, then `beat_record`), `subscribe`, `shutdown` | venue over TCP, ring through `RecordSink` |
| `jeed-krx` receiver | sockets, next heartbeat, counters | `poll_once`, `drain`, `ingest`, `beat` | multicast sockets, ring |
| `jeed-crypto` receiver | link and handshake, fragment assembly, ping and silence timers, subscription, ticket | `poll_once` (`try_connect`, `pump`, `tick`), `on_frame`, REST start books | venue over WebSocket and HTTP, ring |
| `jeed-krx` decoders | none | datagram by trcode to `WireRecord`, trcode and ISIN filters | called by `Pipeline::ingest` |
| `jeed-crypto` venues | per feed: instruments and the streams they were asked for | `check`, subscription texts, `route`, `route_rest`, `ingest`, the decoders | called by `Pipeline` |
| `jeed-fix` framing, market data | receive buffer | `peek`, `frame`, `parse_md_message`, `SnapshotAdapter` | called by `pump` and `Pipeline` |
| `jeed-wire`, `jeed-convert` | none | record layout and views, digits to integers | used by all decoders |
| supervision (`jeed/src/feed.rs`, `krx.rs`, `crypto.rs`, `fix.rs`, `signal`, `boot.rs`) | stop flag, running feeds, boot_id | `start`, `run`, `wait` | threads, signals |
| configuration (`jeed/src/conf`, `toml`), core pinning (`cpu`) | none | read, check, validate against the box | start functions, `run` of a feed |

**What is hard, and what makes each part correct.**

* *Ring.* There is no lock: a consumer copies a slot while it may be overwritten, may be
  lapped at any point of a call, and stays attached across crashes and restarts of the
  producer. Correct means: a `Record` is whole and is the one at the cursor; `Lagged`
  counts exactly what is gone; a consumer makes progress; a restart never passes off old
  records as new ones and is announced.
* *FIX session.* One thread, but everything it does races a remote venue and a clock.
  Correct means: market data is published in the venue's order; a hole is asked for once;
  our own numbers have no hole; a half-open connection is noticed; a reconnect
  resubscribes; the liveness record is written whatever the session does.
* *KRX receiver.* Fairness between sockets, staleness across midnight and clock steps, a
  liveness record on time whatever arrives.
* *Crypto receiver.* A message may come in fragments, with control frames between them and
  a reconnect in the middle; timers act on a clock read before the frames of the round; a
  start book races the deltas the stream already delivers; a ticket can lapse. Correct
  means: only whole messages are handed on, a talking venue is kept and a dead one given
  up, an open connection is asked before its frames are handled, the feed comes back.
* *Decoders and routers.* No concurrency, but hundreds of offsets, field orders and limits
  of which a test reaches a few: a venue may send a book's asks before its bids, a side
  longer than the record, a stream of an instrument nobody asked for.
* *Configuration.* Rules within a feed and between feeds, on a box that may or may not be
  known. Correct means: what is accepted also starts.
* *Supervision.* One feed down is the whole handler down, and every feed stops when asked.

The hazards, each at its line, are in `PROJECT.json`.

## 2. Modules

### `Ring`, `LossyLog`, `RingProofs`, `RingLogProofs`, `RingSectionProofs`, `MCRing`

`Ring` models producer and consumers store by store and load by load: every access to
shared memory that the other side can observe is a step, and the private code between two
accesses belongs to the step before it. The fences of the code (`Release` after the
sentinel, before the sequence and in `publish`; `Acquire` on the first load and before
the second) are what allows the steps to be taken in program order; the words of one fill
and of one copy are in any order.

| code | model |
|---|---|
| header fields, `write_cursor` | `hdrCapacity`, `hdrBoot`, `cursor` |
| a slot: `producer_seq`, other 632 bytes | `slotSeq`, `slotBody` (a stamp `<<run, seq>>` per word of `Words`) |
| `create` | `WriteHeader`, `WriteBoot`, `ResetCursor` |
| `slot()`; `fill`; `Err` from `fill`; `commit()` | `Claim`; `FillBody`, `FillSeqWord`; `Abandon`; `CommitSeq`, `Publish` |
| process end, new process on the same section | `Crash`, `Restart(k)` |
| `attach` | `AttachHeader`, `AttachBoot`, `AttachCursor` |
| `try_recv` | `RecvBoot`, then one of `RecvRestarted`, `RecvEmpty`, `RecvLapped`, `RecvReadable`; after the last, `RecvCheck`, `RecvCopy`, `RecvRecheck` |
| `reseat` | `Reseat` (re-reads the cursor) |

Two points are easy to miss. `fill` assigns a *whole* record, so it also writes the
sequence word, with the 0 that `RecordHeader::new` leaves there: that is the constant
`FillSeq`, and `FillSeqWord` may come before any body word. And a section is never resized
or cleared: a later run may use a smaller capacity (`Capacities`), never a larger one.
The u64 sequence numbers do not wrap in 584 years (`ring.rs:38-39`) and are naturals; the
sentinel `u64::MAX` is -1. Boot identities of different runs differ (`boot.rs` mixes time
and process id): runs are numbered. The diagnostic drop counter is left out.

`Spec` is one run of the producer, `SectionSpec` the life of a section over several.

`LossyLog` is what a reader is promised, with no slot, lock or copy in it: an append-only
log that keeps its newest `Lap` records; a reader joins at the end, is given the next
record, or skips exactly the ones beyond a lap. `Ring` implements it (`ImplementsLog`)
with `len <- cursor`, `pos <- cNext`, `Lap <- Section`.

### `FixSession`, `FixSessionProofs`, `MCFixSession`

One session: the feed thread of `jeed/src/fix.rs` around `Receiver`, `Pipeline`,
`SessionState` and `Emitter`. A round is `TryConnect` or `Pump`, then `EndRound`:

| code | model |
|---|---|
| `try_connect` | `BackingOff`, `DialFails`, `LogonFails`, `Connect` |
| `pump`: read, then up to `burst` messages | `StartPump`, `Fill`/`FillFails`, then `FramingError`, `IngestUnjudged`, `IngestMarketData`, `IngestAdmin` |
| `observe`, `apply_admin`, `is_silent` | `Verdict`, `Observe`, `ApplyAdmin`, `IsSilent` |
| `answer`, `apply`, `write` | `Answer`, `OwnReply`, `Disconnects`, `Applied`, `Reply` |
| `tick` | `LogonTimesOut`, `PeerSilent`, `SendTestRequest`, `SendHeartbeat`, `NothingDue` |
| `beat_record`, `subscribe`, the sleep | `EndRound` (`Beat`, `Subscribe`), `WakeUp` |
| `fail`, `drop_link`, `shutdown` | `Fail`, `DropLink`, `Stop` |

`now` is the clock at the start of the round and `clock` the clock of a message, as in
the code: the timers act on a reading older than the messages they follow. Time advances
only while the thread blocks: in an attempt to connect (the resolver, which has no timeout
of its own, `connect_timeout`, the Logon's write) for at most `DialTime`, and in the read, the
writes and the sleep of a round for at most `RoundTime` together (`spent`). A write may
fail on a connection that is open (`write_timeout`, or `WouldBlock` in spin mode): every one
takes the connection with it but that of a 35=V, whose number stays used up (`unsent`). A
message is its kind, number, PossDup flag and one argument; what the adapter makes of market data is
published or not (`MD`, `Quiet`). The venue (`VenueAnswers`, `VenueSends`, `VenueCloses`)
is external: it may skip, repeat and reset numbers, send what we do not decode, fall
silent, answer late, and close. A ResendRequest is answered by `Replay`: the numbers asked
for, in order, market data again and the rest gap-filled (`GapFills`) or passed over. `seen`, `asked`, `lastPub`, `testAt`, `wire`,
`unsent`, `subscribed` and `lastBeat` only record what happened, for the properties.

### `KrxFeed`, `KrxFeedProofs`, `MCKrxFeed`

One KRX feed: the thread of `jeed/src/krx.rs` around `Receiver` and `Pipeline`.

| code | model |
|---|---|
| `run`, `poll_once` | `SpinRound` or `BlockRound`, then the drains, then `Beat` or `NoBeat`; `StopSeen` |
| `Poll::wait` | `PollReturns` (readable sockets, timeout, or `EINTR`), `PollFails` |
| `drain` | `RecvDatagram`, `RecvTransient`, `RecvFatal`, `NextSocket` |
| `ingest`, the filters, `message_len`, `isin_offset` | `Checks`, `Fails`, `Outcome`, `Ingest` |
| `now_ns`, `absolute_ns`, `mark_stale`, `poll_timeout_ms` | `NowNs`, `AbsoluteNs`, `IsStale`, `PollTimeout` |
| `beat`, `heartbeat` | `Due`, `Schedule`, `Beat` |

A datagram is what the checks of `ingest` ask about it (a set of flaws, whether it is an
`M4` notice) and the instant it was stamped; the wire carries only the time of day, and
`AbsoluteNs` has to find the day. `time` is real time; the system clock is `time + skew`
and may be stepped. The segment is new or was taken over from an earlier run, whose drop count
`create` keeps (`OldDrops`, `carried`). The thread waits in poll for at most `PollTimeout`, and the rest of a
round takes at most one unit. The exchange, the kernel buffers (which drop when full),
socket errors, the clock and the stop flag are the environment. `passed`, `reading`,
`lastBeat`, `out`, `back`, `forth`, `carried` and `stopAt` only record what happened; `passed` counts
what was read elsewhere since a socket was last asked, not since it was last served, because
a transient error takes the place of a datagram in the socket's burst. Left out are
the two fields of `SocketStats` that only a log line reads.

### `CryptoFeed`, `CryptoFeedProofs`, `MCCryptoFeed`

One crypto feed: the thread of `jeed/src/crypto.rs` around `Receiver`, `Pipeline`, `Link`
and `Assembly`.

| code | model |
|---|---|
| `run`, top of the loop | `RenewTicket` (`TicketFetched`, `TicketFails`), `Shutdown` |
| `try_connect` | `TryConnect` (`BackOff`, `DialFails`, `Connect`) |
| `pump`: `fill`, then up to `burst` frames | `FillReads`, `FillEmpty`, `FillFails`; `OnFrame` (`TakeControl`, `PongFails`, `TakeWhole`, `TakeFragment`, `TakeLast`, `TakeEnds`) |
| `tick` | `PeerSilent`, `TickSends`, `TickFails` |
| `beat_record`, the counters `run` looks at | `EndRound` (`BeatRecord`, `Opened`) |
| after an open: subscriptions, REST start books | `AskVenue` (`Subscribe`, `SubscribeFails`, `StartBooks`) |
| the sleep while disconnected | `Sleep` |
| `drop_link`, `fail` | `DropLink`, `Fail` |

What a venue asks of the loop beside subscriptions (a ticket, start books, a keepalive of
its own) is `Traits`. A frame is its opcode, whether it ends its message, which part of the
message the venue meant it to be, and whether it belongs to this connection. The venue is
external (`VenueSendsControl`, `VenueStarts`, `VenueContinues`, `VenueLeaves`,
`TicketLapses`): it may continue what it never began, begin anew in the middle, close, or
stop without a word. Time is kept relative to the clock, as ages and deadlines that move
while the thread blocks, so behaviours have no bound on their length. `asked`, `part` and
the age `idle` only record what happened.

### `Wire`, `CryptoDecode`, `CryptoRoutes`, `FixCodec`, `KrxDecode`, `KrxLayouts`, `Conf`, `Codecs`, `CodecsProofs`, `MCCodecs`

The pure code. `Codecs` is a caller that makes one call at a time (`CallDecode`,
`CallIngest`, `CallIngestRest`, `CallPeek`, `CallFix`, `CallKrx`, `CallMain`) and keeps the
input beside the answer; the properties compare the answer with what the input means, and
the meaning is written without reference to the algorithm.

| module | what it models | its data |
|---|---|---|
| `Wire` | limits, views and `validate` of a record | a record is its levels, identifiers and time |
| `CryptoDecode` | every decoder of the eight venues: a table of the keys it knows, and the loop over the fields that every decoder of the code is (`Scan`) | a JSON object is its fields in the order they arrive |
| `CryptoRoutes` | `check`, the streams a venue is asked for, how a message names its stream, instrument look-up, batches, REST books, staleness | a stream name is a word, a depth and a symbol |
| `FixCodec` | `frame`, `peek`, decimals, dates and times, repeating groups, `push_entry`, `SnapshotAdapter` | framing works on bytes; behind it a message is a sequence of tagged texts; a time is a day and a time of day, with the last instant a `u64` holds (`LastDay`, `LastTime`), and a number has at most the digits `parse_u64` reads (`NumberLen`) |
| `KrxDecode` | dispatch by trcode, lengths, offsets, readers, level bands, both filters | a datagram is its trcode, its length, its last byte and the field at each offset; a slice that is not exactly a field gives scraps |
| `KrxLayouts` | reference: the tables of `documents/krx/layouts.md` as names and widths, from which offsets are summed | shares no offset, length or depth with `KrxDecode` |
| `Conf` | from a parsed TOML table to accepted feeds, `validate` against the box, and what `start` and the pin make of them | a table is a function from keys to typed values; a box is its siblings and whether it is known |

### `Supervisor`, `SupervisorProofs`, `MCSupervisor`

A handler process: `main`, `start`, the feed threads as seen from outside, `wait`, and the
signal flag. Every access to something shared (the two flags, a thread's end) is a step.

| code | model |
|---|---|
| `main` before `start` | `ConfRefused`, `ConfChecked` (`--check`), `ConfRead`, `InstallFails`, `Install` |
| `start`, first loop; second loop | `Prepare`, `PrepareFails`; `Spawn`, `SpawnFails` |
| `wait` | `Mirror`, `Scan` (`Join`, `Returns`), `Sleep` |
| `run` of a feed | `SeesStop`, `Dies`, `Panics` |
| the end of `main` | `Exit`, which ends the threads still running |

The three binaries share this shape. Feeds are prepared, spawned and joined in any order,
which covers the order of the conf and of `swap_remove`.

## 3. Runs

| run | checks | bounds |
|---|---|---|
| `ring` | `NoTornRead`, `LostIsOverwritten`, `ImplementsLog`, `CatchUp` (fair) | 1 consumer, 2 words, capacity 2, 6 records |
| `ring_section` | `TypeOK`, `RecordOfKnownRun`, `OldRecordsUnreadable` | 1 consumer, capacity 2, 4 records a run, 3 runs |
| `ring_torn`, `ring_edge`, `ring_resize` | one property each, violated | smaller |
| `fix_session` | `HalfOpenNoticed`, `PublishedInOrder`, `HolesAskedOnce`, `OutboundInOrder`, `SubscribedOnLogon`, `BeatsThroughOutages`, `FixTypeOK` | all timers 1, a dial of at most 2, other blocking of a round at most 1, burst 1, 6 units of time, 3 venue numbers, 2 messages under way |
| `krx_feed` | `CountersAgree`, `NoSocketStarves`, `BeatCadence`, `BeatsNotBunched`, `StaleMeansOld`, `StopIsPrompt`, `KrxTypeOK` | 2 sockets, both modes, burst 2, interval 2, longest wait 1, 5 units of time, at most 4 datagrams; a clock step and a stop each take the place of one, an odd event (an odd datagram, a socket error; at most 1) that of two; a segment with 0 or 3 drops |
| `supervisor` | `StartedOnlyWhenAllPrepared`, `NothingCutOff`, `ExitStatusTrue`, `StoppedForAReason`, `OneDownAllDown`, `SignalEndsHandler` (fair), `SupervisorTypeOK` | 3 feeds, no other bound |
| `crypto_feed` | `WholeMessages`, `AskedBeforeHandled`, `BeatsThroughBlocking`, `NotDroppedWhileTalking`, `DeadPeerNoticed`, `Reconnects` (fair), `CryptoTypeOK` | a venue with ticket, start books and keepalive (kucoin) and one with none of them (binance); reconnect after 2, all other timers 1, burst 1, 2 parts fit the assembly, 2 frames waiting; time and length unbounded |
| `codecs` | `DecodesAgree`, `StreamsComeBack`, `FramesWhole`, `FixMessagesComeBack`, `AcceptedConfStarts` | 2 levels a side, 3 in a delta, 15 bytes of body in 27 of buffer, 3 entries, integers of 127, 20, 40 and 640 for those of the code, 4 digits for the 19 of `parse_u64`; the calendar is not scaled |
| `fix_duplicate`, `fix_silence` | one property each, violated | as above; 8 units and 4 numbers for the second |

*Why these bounds are enough.* Tearing and losses happen between two sequence numbers
that share a slot: six records in two slots give three laps and every offset within
one; two words are the least a record can be torn into. One consumer is enough because a
consumer writes nothing anybody else reads, `ImplementsLog` is a statement about one reader,
and `NoTornRead` and `LostIsOverwritten` are proved for any set of consumers. Symmetry
(`ring_section`, no liveness) is sound because words are only compared.
Three runs let a consumer sleep through a whole run. For FIX, six units are a logon
timeout or two intervals of silence and a reconnect with a second session; three numbers
give a hole, the message that reveals it, and one beyond; a burst of 1 leaves messages in
the buffer between rounds; a dial may take longer than the backoff, the Logon's deadline and the
record's interval, as it may with the defaults of the code for the last. For KRX, four datagrams are one beyond a burst plus one waiting on the other socket, so
that an unfair drain would show; the interval is longer than the longest wait, so that the
clamp matters; a day is 16 units with midnight in Korea two units after the start, a late
datagram can meet a stepped clock, and five units are longer than the cadence bound of either mode. Three feeds let two end between
two looks of `wait` with one still running. For crypto, two waiting frames and a burst of 1 leave a frame
in the buffer when a round ends, which is what the timers race; two parts let a message be
whole, cut off, too large by one, and interrupted; the two venues have every trait and
none; the reconnect interval is longer than the sleep, so that a round may find it too early to
dial. `BeatsThroughBlocking` is against `LongestRound`, the ticket, the start books, the
sleep and the dial of one pass. Deadlock checking is off where the system may stop: no more
runs of the producer (`SectionSpec`), the stop flag or an error (`FixSession`, `KrxFeed`, `CryptoFeed`), the end of the process
(`Supervisor`).

*What `codecs` is given* (`MCCodecs`). The limits of the code are scaled down together, so
that inputs go to one past them. *Crypto decoders*: every table, its fields in every
rotation forwards and backwards; one field missing, zero or malformed; times at the limit;
for books every pair of sides, up to one level past the record, with levels that have no
quantity and a bad level where it is read and where it is not. *Routers*: every venue with
one channel, all channels or two instruments, each depth it has and one it has not; a batch
whose middle entry does not parse; acknowledgements, and streams and symbols nobody asked
for; fresh and stale. *Framing*: every prefix of a stream of two messages, of a long one and
of ones that are too long or empty, with each byte of the first twenty replaced by a
separator, a digit or another byte; lengths padded with zeros to one digit past what is read. *FIX market data*: both message types, every triple of
eleven entries that differ in type, size, rank and symbol, one entry too many, a count that
lies, decimals around the scale and the largest integer, dates around leap years, out of
range and around 21 July 2554, where the nanoseconds of a `u64` end, and a SendingTime that is
right, late or malformed. *KRX*: eight data classes with 14 product groups, in the interface of their own or, for a trcode without
one, in every layout; the length of every other interface; a missing end keyword; an ISIN that
is filtered; for one trcode of each interface, each field blank, junk, with its point elsewhere,
zero, negative or too large, times around their limits, and emptied levels. *Confs*: each key missing,
unknown or replaced by each of 27 values of other types and ranges; pairs of feeds
that share a name, a ring, a processor, a core or a port; boxes with and without siblings, known or not.
One value is the same on both sides by construction: a liquidity provider's quantity wider
than its word keeps its low bits in `KrxLayouts` too.

*Fairness* (`ring`, `supervisor`, `crypto_feed`). The receive thread blocks at most for a bounded timeout, so
`Create` and `Produce` are weakly fair; a consumer that is attached polls, so its calls
are too. Nothing makes anybody attach or detach. `CatchUp` also assumes that publishing
continues; the liveness records of every feed loop provide that, and
`BeatsThroughOutages` checks it for FIX, `BeatCadence` for KRX and `BeatsThroughBlocking`
for crypto. In `crypto_feed` the thread is weakly fair, and strong fairness of `Connect` and
`TicketFetched` says that neither the venue nor its ticket service is unreachable for ever,
which no code can do without; nothing makes a venue send or close. In `supervisor`, main is
weakly fair (its only wait is a sleep of 50 ms), and so is a thread that has been asked to
stop: every loop reads the flag once a round and a round is bounded, for KRX by
`StopIsPrompt`, for FIX and crypto by the read timeout and, around a reconnect, by connect
and REST timeouts. No failure and no signal is ever forced.

## 4. What the violated properties show

1. `ring_torn`. The in-progress sentinel is overwritten by the record's own
   `producer_seq` of 0. A consumer reading sequence 0 while sequence `capacity` is being
   filled can pass both checks with a mixed body. Every other sequence number is safe
   (`NoTornRead`, proved).
2. `ring_edge`. `create` stores the new `boot_id` before it resets the cursor. A consumer
   polling in between returns `Restarted` with the old cursor and is then deaf until the
   new run has published as many records as the old one.
3. `ring_resize`. `Restarted` does not refresh capacity and mask, so after a restart with a
   smaller capacity an attached consumer is given records of the old run.
4. `fix_duplicate`. A gap fill sent with PossDup in answer to our own ResendRequest is a
   `Duplicate`, and `apply_admin` still moves `next_expected` back to its NewSeqNo. For
   this reason `fix_session` runs with `GapFills = FALSE`: `HolesAskedOnce` and
   `PublishedInOrder` are claims about venues that replay and do not gap-fill.
5. `fix_silence`. `tested` is never cleared by traffic: only the first silence of a session
   earns a TestRequest, and the second one ends it untested.

Divergences without a run: `documents/feed_handler.md:118` puts a lagging consumer at
the live edge, the code at the oldest surviving record; the `start` functions say "Nothing
is started if anything fails", which a failing `spawn` after the first contradicts (in
`Supervisor` threads run while `pc = "failing"`; `StartedOnlyWhenAllPrepared` is what holds);
`clock.rs:19-22` of jeed-krx keeps `recv_ns` "for measurement and labelling only", but
`poll_once` schedules the liveness record by it, so a clock stepped back silences the record
for the length of the step (the `back` term of `BeatCadence`);
`silence_ns` speaks of the last framed message, but unrouted and undecodable messages do
not count.

Crypto feed:

* `pipeline.rs:132-138` of jeed-crypto makes the ticket call "before every connection
  attempt"; `crypto.rs:217-220` renews only after a disconnect. A ticket that lapses after a
  failed dial is dialled for ever (the exception in `Reconnects`), and after a failed fetch
  the old endpoint is dialled.
* `publish_batch` leaves the records before a bad entry in the ring, while the docs of
  `Outcome::Failed` and `decode_failed` say that nothing was published; `published` does
  not count them. `DecodesAgree` states what the code does.
* A start book that could not be fetched is not retried until the next open; the comment in
  `crypto.rs` counts one HTTP request an open, the code makes one per delta instrument.
* `drop_link` says it "arms the reconnect", but only `try_connect` sets `next_connect_ns`.
  `note_binary` says "dropped", but a binary message is routed.
* Frames left in the buffer by a full burst are discarded if the next `fill` sees the close.
* `LinkError::Silent` ("stopped answering pings") can be raised with no ping sent, after a
  long blocking call. In spin mode a `WouldBlock` while writing drops the link.
* A book side that is not an array ends the scan, and then the outcome depends on the order
  of keys; Binance's `parse_u64` on `null` reads on into the next field. Neither is a
  message a venue sends, and the inputs leave both out.
* Two Binance symbols that differ only in case pass `check` and share one stream.

FIX session:

* `receiver.rs:49-51` of jeed-fix: "A session that is logged off still writes the second one", so
  that the consumer does not "hear nothing at all, which is what a crash sounds like". The record
  is written between rounds only, and an attempt blocks the round for up to 5 s
  (`link.rs:72`) and as long as the resolver takes, against an interval of 100 ms
  (`receiver.rs:164`). `BeatsThroughOutages` states what holds: the record is late by at most a
  rest and the longest round.
* `try_connect` reads the clock before the attempt: the backoff (`receiver.rs:288`) and the
  Logon's deadline (`receiver.rs:332`) count from there, so an attempt that blocks for as long as
  the backoff is followed by the next one at once, and a Logon may be late when it is sent.
* A 35=V that is not written (`fix.rs:401-404`, `receiver.rs:268-273`) leaves the connection up
  without a subscription and with a number the venue never sees, and what a write that timed out
  half way left on the stream stands before the next message. `link.rs:172-174` calls that "a
  desynchronised session at the other end"; for every other message the connection is dropped.
  `SubscribedOnLogon` and `OutboundInOrder` make exactly this exception.

FIX messages: `pipeline.rs:171-172` says of `Refused` that "Nothing was published", but
`incremental` publishes as it goes (`fix.rs:153-183`), and the trades before a refused entry stay
in the ring (`FixMessagesComeBack` states what the code does); a date and a time are added
without a check (`tagvalue.rs`, `parse_utc_timestamp`, and `market_data.rs:319`), so that after
23:34:33.709551615 on 21 July 2554 a release build names an instant of 1970 and a debug build
panics, while later dates are refused; `market_data.rs:483-490` says that a venue that orders a group differently still
decodes, but a tag before the first delimiter is refused (`GroupTagOutsideEntry`);
`SnapshotAdapter` ignores `has_price`, and `incremental` ignores MDUpdateAction; a side
whose entries are all below the record's depth does not set its EMPTY flag;
`parse_utc_date` takes 31 February.

KRX: `stats.rs:8-16` calls `Stats::dropped` "everything the loop refused to publish" and the
segment's drop counter "deliberately *not* the same number", because filtered datagrams are not
in it. But `Stats::dropped()` leaves them out too (its own comment: "Filtered traffic is **not** in
this number"): it is the sum of the four outcomes that call `note_drops`, so within a run the
segment's counter grows by exactly it. What they differ by is what a segment was taken over
with (`producer.rs:42-44`, `krx.rs:66-70`), and `CountersAgree` says so. `field.rs:83-84` allows `'+'` as the sign byte, the readers refuse it and the message is
lost; a liquidity provider's quantity of 12 digits is cut by `as u32` (`securities/mod.rs:123`)
where bond yields are narrowed with a check; comments in `derivative/quote.rs:36-37`,
`trade_quote.rs:52-53` and `dispatch.rs:68-69` call single-stock futures five deep, the code
and the layouts say ten.

Conf: delays are multiplied into nanoseconds and `ring_slots` into bytes without a check
(`AcceptedConfStarts` speaks of values that fit); without a topology a core the box lacks
passes `validate` and the feed dies at its pin; every rule is about one file, so two
processes may still collide.

## 5. Proofs

### `RingProofs`

For every set of consumers and words, every section size, every set of power-of-two
capacities and every bound; assumptions are the `ASSUME`s of `Ring` only.

* `TypeCorrect`: `SectionSpec => []TypeOK`, one lemma per group of actions. `TypeOK` is
  inductive as it stands.
* `SequenceLock`: `Spec => []NoTornRead`. `NoTornRead` is not inductive; `LockInv` adds
  - `RunInv`: what is fixed within a run (capacity, cursor against `nextSeq`);
  - `SlotInv`: a slot whose sequence word is a protected number holds that whole record,
    and the number has been committed;
  - `FillInv`: while a slot is being filled its sequence word is the sentinel or `FillSeq`;
  - `CopyInv`: as long as the sequence word of the wanted slot still equals the wanted
    number, every word copied so far belongs to that record. This is where the lock does
    its work: once a writer has withdrawn the number, it never comes back, because the
    writer's numbers only grow, so the second check fails.
* `LossesAreReal`: `Spec => LostIsOverwritten`, from `LapInv`: a number more than a lap
  behind `nextSeq` is in no slot, since its slot was claimed for a number one or more laps
  later.

### `RingLogProofs`

`RingImplementsLog`: `Spec => ImplementsLog`, the refinement of `LossyLog` with
`len <- cursor`, `pos <- cNext`. `LockInv` gives the contents of what is read; `LogInv` adds
that the boot identity a consumer has read is the header's (so `Restarted` comes at most once
in a run) and that a committed slot, and a copy of one, holds words of this run only. Then
`Publish` is the log's `Append`, the end of an attach its `Join`, `Reseat` its `Rejoin`,
`RecvLapped` its `Skip`, a `RecvRecheck` that passes its `Deliver`, and every other step changes
nothing the log can see (or forgets a record already handed over, `Reuse`).

### `RingSectionProofs`

`KnownRunOnly` and `OldRunsUnreadable`, over any number of runs and a crash between any two
stores, under `OneCapacity`: later runs use the capacity the section was made for. Without
it `OldRecordsUnreadable` is false (`ring_resize`). What had to be found is the run that
last reset the write cursor: after a crash between the store of `boot_id` and the reset, the
cursor is that of an older run than the header names, and no variable says which. So the
invariant is `SectionInv == \E g \in Nat : Epoch(g)`: behind the cursor every slot has been
written by run `g` or a later one, and a consumer that knows a run newer than `g` has nothing
to read.

### `SupervisorProofs`

For every nonempty set of feeds. `SafetyInvariant` is `Spec => []SafetyInv`; from it
`NobodyCutOff`, `ExitStatus`, `PreparedFirst` and `ReasonToStop`, and `TypeCorrect`. The
properties speak of the end of the process; what makes them inductive is `MainInv`, which
says what main knows of the threads at each of its places: none before `start`; while
spawning, the vector holds exactly the threads started; in `wait`, whatever has left the
vector has ended, and `failed` is true exactly when one of those died. So an empty vector
means that everything has ended and `failed` is the whole truth.

### `FixSessionProofs`

For every choice of timers, burst, offered intervals and venue behaviour, and every bound.
Each action is first summarised by what it changes (`Rests`, `Connects`, `Judged` with
`CarriesOn` or `EndsWithIt`, `Sends`, `HangsUp`, `EndsRound`, `VenueMoves`, ...); `Steps` says
that every step is one of those, and each part of `SafetyInv` has one lemma over them.

* `TypeCorrect`; `LinkInv` gives the messages on the connection their shape: a Reset or a
  gap fill names the number after its own.
* `BeatsGoOn`, from `BeatInv`: how late the record can be at each place of a round, for any
  `DialTime` and `RoundTime`.
* `SubscribedAgain`, from `SubscribeInv`: a session that is up and has not tried to subscribe
  still has its Logon to act on, and does so at the end of that round.
* `SilenceNoticed`, from `RoundInv` (a round sees the clock of its start and takes `RoundTime`
  at most) and `SilenceInv`: how far past its deadline a session can be at each place, and that a
  session that is up has a nonzero interval, its own or one the venue offered.
* `OurNumbersFollow`, from `WireInv`: every number between the last one on the wire and the one
  built next was used up by a 35=V that was not written.
* `HolesOnce` and `InOrderOnly`, from `AskInv` and `PubInv`, which speak of the expected
  number: everything below it was judged or asked for, nothing from it on was asked for, and
  what was published is below it. They need that the number never goes back, and for a Reset
  that rests on `StreamInv`: a Reset on its way is ahead of everything sent before it and
  not behind the expected number. Both assume `~GapFills`. With a venue that fills gaps both
  are false, for the reason `fix_duplicate` shows: the replayed gap fill moves the expected
  number back, a resend then counts as in order and is published after newer data, and a
  hole still under way is asked for again (TLC finds both with six numbers or fewer).

### `KrxFeedProofs`

For any number of sockets, burst, interval, waits and clock steps, and every bound.

* `TypeCorrect`; `PromptStop`, from `StopInv` and `PaceInv` (where a round takes its time).
* `CadenceKept` and `NoBurstOfBeats`, from `SkewInv`, `ReadInv` and `LagInv`, which relate the
  schedule to what the clock showed at the last record and to the steps made since.
  `CadenceKept` assumes `ClockAfterEpoch`: the clock is never set before 1970, where `now_ns`
  stops at 0 and any wait would be hidden.
* `NobodyStarves`, from `TurnInv`: while socket `s` waits, what was read elsewhere is bounded
  by whole bursts of the sockets visited since plus what is used of the present burst, with one
  bound before its turn in the round and another after it. Sockets that are not in the round
  (the readiness wait found them empty) are the reason for the factor two.
* `StaleIsOld`: the arithmetic of `absolute_ns` (`NearestDay`: the day nearest to our clock
  is the day of the stamp whenever the two are less than half a day apart), under
  `StampsAfterEpoch`: no stamp is before 1970, where `absolute_ns` stops at 0.
* `EveryCounterAgrees`, from `TallyInv` (the pipeline's own counters) and `Totals` (the sums over
  sockets), both inductive beside the types. A sum is a recursive function (`Total`); that it
  exists, and that it moves by what one socket's count moves (`TotalMoves`), is shown by a least
  counterexample over the number of sockets. What the segment was taken over with is any number
  of `OldDrops`, and no step changes it (`CarriedOver`).

### `CryptoFeedProofs`

For every set of venue traits, every interval, burst and fragment limit, and any length of the
blocking calls.

* `TypeCorrect`: the timers keep their ranges (`TimePasses`).
* `AskedFirst`, from `PlaceInv` and `AskInv`: an open is seen by `run` before the socket can be
  read, so the places after it know what has been asked.
* `BeatsKeepComing`, from `BeatInv`: how far the record can be overdue at each place.
* `MessagesWhole`, from `AsmInv` and `FlowInv`: the parts gathered are the first of one message
  of this connection, and every continuation on its way carries the part after that of the
  data frame before it, through the buffer and the wire.
* `SilenceIsReal`, from `QuietInv`: the age the silence rule works with is that of the last
  frame taken.

### `CodecsProofs`

For every input the assumptions of `Codecs` admit, and every value of the limits. The
invariant of each theorem (`ConfInv`, `PeekInv`, `RouteInv`) is that the answer beside an
input is the one the code gives it; the work is in the lemmas about that code.

* `AcceptedConfsStart`. What a reader of the conf relied on is followed from the typed table
  to the started feed: the checks of `from_table` give every field its type (`FeedsLoaded`), those
  of `check_placement` hold between any two feeds (`PlacedApart`, `NobodyBeside`, `PortsApart`), and
  with both every refusal of `start` is excluded and every failure of the pin, unless nobody
  could read the box and it lacks the processor (`PlacedRuns`).
  `ConfsAssumption` says what the TOML parser and `Topology::detect` return: arrays are lists,
  integers are integers, and a box that could be read has processors that fit a mask.
* `FramesAlwaysWhole`. `Laid` says where the parts of a message lie in its bytes. `EncodeLaid`
  places them, `FrameReads` shows that `frame` finds exactly those places, `FrameIsMessage` the
  converse: whatever `frame` accepts is the encoding of its own parts. A message cut anywhere
  waits for the rest (`CutMessageWaits`) or is refused for a part that is already too long
  (`CutMessageRefused`). `FrameIgnoresTheRest` follows: the bytes behind a message do not matter.
  A BodyLength of more than `NumberLen` digits is refused, zeros or not, and so no part of a
  well-formed message. `StreamsAssumption`: a connection delivers bytes, in order, from the first message on.
* `StreamsAlwaysComeBack`. A stream's name splits into the channel it was asked for
  (`StreamSplits`), its symbol finds its subscription and no other (`LookupFinds`), the decoder
  picked for a channel is of the channel's kind (`TableKinds`), and where one channel carries both
kinds of book, the body says which. That the record is within its
  limits rests on an invariant of the loop over the fields (`Within`, kept by each field in
  `ReadWithin`): the sides of a book never exceed the depth of a record, and the counts of a
  delta's sides never exceed the levels it holds, though a side comes twice or asks come first.
  `MessagesAssumption` and `RestAssumption` say that a message names the stream it is of, that
  book sides are arrays (section 4), and that no two symbols of a Binance feed differ in case only.

The induction of these proofs is over positions, by a least counterexample (`FromOneToNext`,
`FirstPosition`); the recursive functions of `Scan` and `DepthOf` are first shown to exist.

### Only model-checked

* `CatchUp`, `OneDownAllDown`, `SignalEndsHandler`, `DeadPeerNoticed` and `Reconnects`: liveness
  under fairness is out of the prover's reach.
* `DecodesAgree` and `FixMessagesComeBack`: they compare a decoder with the meaning of a whole
  message, and both sides are folds and choices over it (decimals, dates, levels by rank, the
  documented layouts); what those compute for every input needs induction with an operator as
  its parameter, which no installed prover can instantiate. That a changed byte is noticed, in
  `FixMessagesComeBack`, is about the changes given to the run: a changed length moves the place
  where the checksum is looked for, and what stands there is up to the rest of the stream.

## 6. Plan

1. `Ring`, `LossyLog`, `RingProofs`: done as described.
2. `FixSession`: done as described.
3. `KrxFeed`, `Supervisor`, `SupervisorProofs`: done as described.
4. `CryptoFeed`: done as described.
5. `Wire`, `CryptoDecode`, `CryptoRoutes`, `FixCodec`, `KrxDecode`, `KrxLayouts`, `Conf`,
   `Codecs`: done as described.
6. Proofs of `Ring`, `Supervisor`, `FixSession`, `KrxFeed`, `CryptoFeed` and `Codecs`: every invariant
   and action property of the passing runs is a theorem, but for those section 5 lists as only
   model-checked.
7. Left: the agreement of the KRX offsets with the layouts and the validity of FIX records for
   every input, along the lines of `Within`.

**Not modelled.** The text scanning of JSON and TOML (a model would be a transliteration of a
character loop, and nothing above it depends on more than fields and order); the digit
tricks of `jeed-convert`, which work on whole 8 and 16 byte words and mean something only at
full width, while TLC's integers have 32 bits (what the readers accept and refuse is in
`KrxDecode` and `FixCodec`); the byte layout of `WireRecord`; TLS, SHA-1, masking and the
text of HTTP; the character rules of segment names and how the topology is read from the
system, which are constants of `Conf`; packet capture replay, logging and the counters only a
log line reads.
