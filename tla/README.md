# jpchat: a verification of its core

jpchat is a chat server without scripts in the browser: every channel is
rendered on the server as a picture and streamed to the windows of its users
as `multipart/x-mixed-replace`.  The program is about 1600 lines of Go at the
top of `src/`; `src/webp` is a vendored copy of a webp binding with the C
library libwebp below it (two versions, of which 1.0.2 is compiled), and
`src/cmd` holds four stand-alone tools.  Of libwebp the parts with control of
their own are modelled: the thread worker, the row pipeline and the incremental
decoder, and both encoders, with all that their threads share.

## 1. Inventory

| component | state | operations | talks to |
|---|---|---|---|
| world registry (`main.go`) | `world.channels`, `world.totalUsers`, `Channel.closed` | `/~stream` look up or create, `findChannel`, `purgeWorld` every minute | `loadChannel`, `Channel.Join`, `Channel.Len`, `Channel.Close` |
| channel presence (`channel.go`, `index.go`) | `ch.onlines`, per window `recv`, `timeout` | `Join`, timer callback, `handlePing` | `Append`, `Refresh`, the browser |
| channel refresh (`channel.go`) | `refreshThrot`, `autoRefresh`, `lastImgData`, `lastElapsed`, `degradeJPEG` | `Refresh`, `render`, `doAutoRefresh` | queues of the windows, `ch.data` |
| channel history (`channel.go`) | `ch.data`, `idctr`, buckets `channel-<name>`, `channel`, `channelsort` | `Append`, `loadChannel` | bbolt |
| send gate (`send.go`, `ctx.go`) | `cdMap`, `tokenStore`, `tokenctr` | `CheckIP`, `AddIP`, `makeToken`, `validateToken`, `handleSend` | world, `Append`, `Refresh` |
| links (`index.go`, `channel.go`) | `ch.links` | `render`, `handleLink` | world |
| identity (`ctx.go`) | cookie `uid2` | `handle`, `SetUidCookie`, `ipuid` | every handler |
| sanitizing (`index.go`) | - | `sanitizeStrict`, `sanitizeMessage` | every handler |
| text layout (`channel.go`, `draw.go`) | the picture | `render`, `DrawStringOmitEmojis` | fonts, emoji table |
| emoji table (`draw.go`) | heads and tails | `probeEmoji` | text layout |
| message codec (`message.go`) | - | `Marshal`, `Unmarshal` | history |
| certificates (`main.go`) | bucket `cert` | `Get`, `Put`, `Delete` | autocert, bbolt |
| webp thread worker (`thread_utils.c`) | `status_`, `had_error`, `impl_`, mutex and condition | `Init`, `Reset`, `Sync`, `Launch`, `Execute`, `End`, `ThreadLoop` | a thread of its own |
| webp row decoder (`frame_dec.c`, `vp8_dec.c`) | `thread_ctx_`, `mb_y_`, the cache of lines, `f_info_` | `VP8EnterCritical`, `ParseFrame`, `VP8ProcessRow`, `FinishRow`, `VP8ExitCritical` | worker, `put()` of the caller |
| webp incremental decoder (`idec_dec.c`, `vp8l_dec.c`) | `state_`, `mem_`, the bit readers, the checkpoint | `WebPIAppend`, `WebPIUpdate`, `WebPIDelete` | row decoder |
| webp encoder (`webp_enc.c`, `analysis_enc.c`, `alpha_enc.c`, `frame_enc.c`, `vp8l_enc.c`) | two jobs, statistics, partitions, the best stream so far | `WebPEncode`, `VP8EncodeLoop`, `VP8LEncodeStream` | worker, the progress hook |
| webp binding (`webp.go`) | - | `Encode` | encoder, `Refresh` |

How they meet: a request for `/~stream/<name>` looks its channel up in
`world.channels` under `world.Mutex`, loads it from bbolt if it is missing, and
joins it after the mutex is released.  `Join` registers the window in
`ch.onlines`, appends a "joined" notice, refreshes the pictures and then waits
on the window's queue `recv`.  `Refresh` renders outside `ch.mu` and offers
every window the new picture.  The browser shows three more documents beside
the picture: one that pings every ten seconds, one with the form that posts to
`/~send/`, and links that go through `/~link/`.  Each request is a goroutine;
timers (pings, pictures, the purge, the cooldown) run callbacks in goroutines
of their own.  A picture is encoded by `webp.Encode`, which asks for no thread;
the library's worker serves those who do, and the decoder.

### Hard behaviours

- two mutexes (`world.Mutex` around `ch.mu`), of which `ch.mu` is held over
  sends on bounded queues (`channel.go:209`, `channel.go:240`);
- state read under a mutex and used after it: the found channel (`main.go:125`),
  `ch.Len()` (`main.go:48`), `ch.links` (`index.go:98`);
- pairs of atomic calls that are not atomic together: the throttle
  (`channel.go:177`), the cooldown (`send.go:88-92`), the token
  (`send.go:64-67`);
- results out of order: pictures (`channel.go:200`), lists of links
  (`channel.go:573`), commits (`channel.go:143`);
- timers that race with what they are for: a ping against the time-out
  (`index.go:131`), a Reset against the replacement of the timer
  (`channel.go:108`);
- a restart between the part of `Append` in memory and its commit;
- two passes over one text that must agree on where the emojis are
  (`channel.go:446`, `draw.go:143`), texts cut at a byte (`index.go:157`);
- a mutex with one condition for two waiting sides (`thread_utils.c:220`), a
  cache of lines that a thread fills while the next row is parsed
  (`frame_dec.c:432`), a buffer that moves under its readers
  (`idec_dec.c:112`), jobs that fail after the one who waits has given up
  (`webp_enc.c:391`);
- boundaries: queues of 10, 50 entries, 16 links, 16 bits in an ID, 60000
  tokens.

`PROJECT.json` lists them as hazards with the properties that watch them.

### What makes each component correct

- *registry*: one open channel per name; what was accepted is found again; a
  closed channel loses its users; a user is counted once, and nobody who stays is
  missed; nobody waits for ever while every `ch.mu` is released.
- *presence*: the map lists exactly the windows that are there; a nickname
  belongs to one address at a time; a superseded or timed out window is told
  and leaves; nobody leaves without a notice; only a window that many takeovers and
  expirations have come to makes a holder of `ch.mu` wait.
- *refresh*: the heartbeat of an open channel never stops, that of a closed one
  does; one Refresh per second, unless it decides late; every entry gets into the
  pictures of an open channel.
- *history*: what is shown is in order and is the newest that is stored;
  trimming removes the oldest; one place per channel in the sorted index.
- *send gate*: one post per address and cooldown, a token is used once, no
  cooldown lasts for ever or is cut short.
- *links*: the tags on the screen come to open the links they stand beside; a
  request is answered with what was true.
- *text*: sanitizing a name again does not change it; what is stored is read back
  as it was; no rune gets lost at the end of a line; gaps and emojis meet.
- *webp*: the worker is a slot for one job, and neither side sleeps for ever;
  lines come out in order, once and final, whatever the pieces and threads;
  an encoder writes what its last pass has coded, tells of every failure and
  leaves nothing behind.

## 2. Modules

| module | models | state and actions |
|---|---|---|
| `Presence` | `Join`, the queue side of `Refresh`, timers, `handlePing` | `keys`/`onlines` = `ch.onlines`, `recv` = the queues, `mu` = `ch.mu`; `pc` runs through the statements of `Join` (`kick`, `announce`, `recv`, `write`, `leave`, ...); `fires`, `rivals` = the expirations and the takeovers a window has met |
| `NickLease` | what `ch.onlines` promises about nicknames | `holder`; abstract, implemented by `Presence` under the mapping `holder` |
| `Refresh` | `Append` as far as pictures go, `Refresh`, `doAutoRefresh`, `Close` | `throt` = `refreshThrot`, `ptr`/`stray` = armed timers, `outs`/`last`/`sent` = pictures, `slow`/`degrade` = `lastElapsed > 600`/`degradeJPEG`, `purging` = the purge is between `ch.Len()` and `ch.Close()` |
| `World` | `/~stream`, lookups, `purgeWorld`, restarts | `channels`, `closed`, `onlines`, `data`, `total`, `held` = a takeover or broadcast keeps the room's `ch.mu`; `Purge...` follows the loop statement by statement, with the wait for `ch.mu` in each `ch.Len()` |
| `History` | `Append`'s numbering and transaction, `loadChannel` | `data`, `idctr`, `bucket`/`seq`, `stamp`/`sorted`/`count` = buckets `channel`, `channelsort` |
| `SendGate` | `CheckIP`, `AddIP`, `makeToken`, `validateToken` in the order of `handleSend` | `hot` = `cdMap`, `timers`, `used` = `tokenStore` |
| `Links` | numbering in `render`, publication, `handleLink` | `links` = `ch.links`, `shown`, and per request `copy` |
| `Layout` | how `render` breaks a message into lines and `DrawStringOmitEmojis` draws them | `at` = the loop's indices, `lines`, `plan`/`seen` = what each pass puts where |
| `Text` | `sanitizeStrict`, `sanitizeMessage`, `Marshal`, `Unmarshal` | `rest`/`tmp` = what is read and built, rune by rune; `round` = which request sanitizes, the one behind `randomize` included; `entry` = the bytes in the store |
| `JobSlot` | what `WebPWorker` promises its users | `job`, `err`, `call`; abstract, implemented by `Worker` |
| `Worker` | `thread_utils.c` | `main`/`thread` = where both sides are, `status` = `status_` |
| `RowPipeline` | `VP8Decode`, `VP8ProcessRow`, `FinishRow` | extends `Worker`; `cache` = the lines, `out` = calls of `put()`, `at`/`finish` = where main and the job are |
| `IncDecoder` | `WebPIAppend`, `WebPIUpdate`, the states of a lossy picture | extends `RowPipeline`; `end`/`kept` = the buffer, `pos`/`stop` = the readers, `stale` = readers left at the old place |
| `LosslessDecoder` | the same calls with a lossless picture: header, `DecodeImageData`, `SaveState`, `RestoreState`, `ProcessRows` | `reader`, `src`, `colors` = the position, `checkpoint` = the saved one, `rows` = what was put out |
| `Encoder` | `WebPEncode`, lossy | extends `Worker`; `stage` = where main is, `hooked`, `merged`, `counted` = who called, what was counted |
| `StreamEncoder` | `VP8LEncodeStream` | extends `Worker`; `phase`, `err`, `winner` |
| `PresenceProofs`, `RefreshProofs`, `WorldProofs`, `HistoryProofs`, `PostProofs` (`SendGate`, `Text`), `RenderProofs` (`Links`, `Layout`), `WebPProofs` (`Worker`, `StreamEncoder`, `Encoder`, `RowPipeline`), `DecoderProofs` (`LosslessDecoder`, `IncDecoder`, `MCWebP`) | theorems and proofs | |
| `MC...` | instances for TLC: the symmetry, and constants a cfg cannot write | |
| `MCPost`, `MCRender`, `MCWebP` | parts of one handler or one library, one at a time in a behaviour: `SendGate`, `Text` or `History`; `Links` or `Layout`; one of the clients of `Worker` | |

Each module takes the others' part as a free environment: `Presence` lets any
Refresh come at any time (`Ticker`) and lets any of them find the throttle
closed; `Refresh` lets windows come and go at any time, also to a channel that is
being closed or is closed; `World` treats what happens in a room as the business
of `Presence` and `Refresh`, and lets the `ch.mu` of any room with a window in it
be held for as long as it likes (`Hold`); `Links` lets a Refresh start at any
time.  So each is checked against at least what its neighbours can do, and the
results compose by their assumptions:

- The liveness of `World` is under the premise `RoomsReleased`: no `ch.mu` is
  held for ever.  Its safety is not.  `presence_live` shows of one room with long
  enough queues that its holder gets on, `presence_stuck` that with full queues it
  may not; then `purgeWorld` waits for it under `world.Mutex`, and nothing is
  promised to anybody.  `WaitsOnlyInCrowds` says what it takes for a queue to be
  full.
- `Links`' fairness needs that Refreshes go on while somebody watches an open
  channel (`TimerAlive`, `EntriesShown` in `Refresh`).

### Abstractions

- A critical section of `ch.mu` that cannot block is one action.  The two that
  can block (the kick loop, the broadcast) hold `mu` and go step by step.
- Time is abstracted.  In `Presence`, `World` and `SendGate` a timer may expire
  at any moment after it was armed; in `Refresh` seconds are known by their age;
  in `History` the clock counts up and does not go backwards.
- `Presence`: the broadcast goes through the nicknames in any order, as the
  iteration of a Go map does (they may even alternate), and through the windows
  of one oldest first; the queue of a window is forgotten when it leaves, as
  nothing reads it any more.  `pictured` stands for `lastImgData`.
- `Refresh`: entries are counted, a picture is the number of entries in it.
  `stray` saturates at `MaxStray`: more timers of the same kind can do nothing
  that one cannot do again.
- `Refresh`: windows join a closed channel (`main.go:123` joins after
  `world.Mutex` was released), and one may join between the purge's `ch.Len()` and
  its `ch.Close()`; `EntriesShown` and `PicturesSettle` are about open channels, as
  `doAutoRefresh` ends in a closed one (`channel.go:102`).
- `World`: of `ch.mu` is kept whether a takeover or a broadcast holds it
  (`held`); every other section of it is one action.  A room that nobody refers
  to is garbage, and its identity may be used again, so two or three identities
  serve any number of channels one after another.  Windows have nicknames of
  their own.  The name in `/~stream` is taken as it is; the other handlers
  sanitize it, and the model is about names that this does not change.
  `loadChannel` always succeeds: its transaction fails only when the store is
  closed.
- `History`: whether IDs rise is a history variable, because the 16 bits of the
  counter start at random and may wrap; the properties hold as long as they
  rise, and TLC shows that this is the condition needed.  A room that was
  replaced by a load can still commit (`old`).
- `SendGate`: whether browser and age of a token fit is a free choice, and so
  is which token a full store forgets.
- `Links`: which messages fit into a picture is `Fits`, which grows with the
  width as lines only get fewer.  A panic ends the request (`net/http` recovers
  it) and is an answer of its own.
- `Layout`: runes are numbers that sort as their encodings do, and a glyph has a
  width.  Kerning is left out (drawing keeps the rune before for a Unifont glyph,
  where the layout sets it), and so are URLs; blank lines vanish as in the code.
- `SendGate`: two requests overlap at the token if one was between `Get` and `Add`
  when the other one looked (`besideTok`), and at the address if one was between
  `CheckIP` and `AddIP` when the other one passed it (`besideIp`); each excuses only
  its own.
- `Text`: a byte is the k-th of a rune's encoding; of the random suffix of
  `handleIndex` (`RandomTails`) the instance has two bytes where the code
  appends 14; the fixed fields of an entry take a cell each, and lengths are
  varints to a small base.  Entries that `Marshal` has not written are not read.
- `Worker`: a section between lock and unlock is a step, except where the thread
  executes a job and where main creates the thread.  Every caller resets an idle
  worker only, so the branch of `Reset` for a busy one is left out.
- `RowPipeline`: a line of the whole width stands for its samples; it knows
  which line it is, how often it has been filtered and whether from the right
  lines.  Chroma has half the lines, so what the filter touches counts twice.
- `IncDecoder`: a piece is a number of units, a position a number of units from
  the start.
- `LosslessDecoder`: a symbol says for how many pixels it stands and with which
  unit it ends; of a pixel is kept whether the symbol, its place and the colors
  the cache held were the right ones.  Whether a copy reaches back too far and
  whether memory lasts is left open.
- `Encoder`, `StreamEncoder`: what the transforms compute is left open: sizes,
  whether another pass is due, whether a step runs out of memory.
- `MCPost`, `MCRender` and `MCWebP` let a behaviour be one of a single part, as
  the parts have no state in common.

## 3. Runs

| run | instance | shows |
|---|---|---|
| `presence_safety` | 3 windows, 1 nickname, 2 addresses, queues of 2, 1 expiring timer, Hijack may fail | `MapMatchesThreads`, `OneAddressPerNick`, `SupersededAreTold`, `OnePictureQueued`, `NoSilentExit`, `WaitsOnlyInCrowds` (where holders do wait), and that `Presence` implements `NickLease` |
| `presence_live` | 2 windows, queues of 4 | `DoomedLeave`: no note that ends a window is lost; no deadlock |
| `presence_stuck` | 3 windows, queues of 2 | *violated*: `TakeoverCompletes`. A full queue of a window that waits for `ch.mu` stops the one that holds it |
| `refresh_core` | 1 poster, 1 timer, 2 widths, decisions up to a second late | `TimerAlive`, `OncePerSecondUnlessLate`, `EntriesShown`, `PicturesSettle`, `ClosedFallsSilent` |
| `refresh_rate` | 3 posters, decisions up to a second late | *violated*: `OnePerSecond`. An old second replaces a newer one in `refreshThrot` |
| `world_core` | 2 names, 3 rooms, 2 windows, 1 sender, 1 restart | `OneRoomPerName`, `LostOnlyWithItsRoom`, `TotalExact`; no deadlock |
| `world_live` | 1 name, 2 rooms, 2 windows, 1 sender | `OrphansLeave`, `EmptyRoomsGo`, `RequestsServed`, while rooms are released |
| `world_orphans` | 1 name, 3 rooms, 2 windows, 1 sender | *violated*: `PurgedIsEmpty`. A window joins between `ch.Len()` and the purge |
| `post_core` (`MCPost`) | 2 users and an admin, 2 addresses, 2 tokens, a store of 1; texts of up to 5 runes or stray bytes; 3 messages and notices, 2 entries kept, 3 counter values, 2 seconds, 1 load | `TokenOnce`, `OnePerCooldown`: overlap is the only way past either; `OneTimerPerAddress`; `LengthLimited`; `TextsStay`: a name survives another sanitizing (`NameIsStable`), a message its store (`RoundTrip`); `InOrder`, `NewestKept`, `ShownIsStored`, `SortedOnce` |
| `links_core` (`MCRender`) | 2 messages with or without a link, 1 tag, 2 Refreshes that overlap, 1 request; texts of up to 5 runes, 7 emoji tables, 2 widths | `AnswerWasTrue`, `TagsSettle`; `LaidOut` (every rune once, `TextKept`, and `InsideThePicture`), `GapsAsPlanned`, `ProbeIsLongest` |
| `links_panic` | 2 messages, 1 request | *violated*: `AnsweredWithoutPanic` |
| `webp_core` (`MCWebP`) | 5 jobs in any order; 63 decodings of a picture of four rows, 3 pictures in pieces, 4 lossless ones, 36 lossy encodings, 12 lossless streams | `WorkerSound`: `NeverBothWait`, `EveryJobOnce`, `ErrorsKept`, `NothingLeft`; `RowsSound`: `LinesInOrder`, `LinesFinal`, `AllLinesPut`, `NoPutAfterTeardown`, `TeardownOnce`, `NothingLeftOver`; `DecodersSound`: `PiecesSound` (`IdleOutside`, `ReadersFollow`, `AskedForAReason`, `DoneIsComplete`) and `LosslessSound` (`RowsOnce`, `Resumable`, `AskedOrDone`); `EncoderSound`: `HookIsMains`, `EveryRowOnce`, `AlphaIsWhole`, `LastPassIsKept`, `ResultTold`; `StreamSound`: `ShortestIsKept`, `StreamErrorTold`; both: nothing left behind; `CallsReturn`: every call returns, and `Worker` implements `JobSlot` (`SlotKept`) |

A property with several names behind it is their conjunction, one name for each
thing that its component owes.  Type invariants that TLAPS proves (`TypeCorrect`)
are not run with TLC again, but for those of `Text` (in `LengthLimited`), of `Layout`
(in `LaidOut`), and of all parts of the library (`WebPTypeOK`).

The violated properties are quotations of the source (`PROJECT.json`,
findings), and the traces show what the code does instead.

### Bounds, and why they are enough

- *Presence*: three windows are a window, its successor and one that arrives
  between the two.  In `presence_safety` and `presence_stuck` queues of 2 stand for
  queues of 10, so that the kicks and expirations of three windows fill them as
  those of ten and more do in the code; both waits, of a takeover and of a Refresh
  with a note in hand, occur.  `presence_live` is about queues that do not get
  full: with two windows, a picture, a time-out and a kick are the most, and 4 is as
  good as 10.
- *Refresh*: a poster and a timer are two Refreshes that overlap; two widths
  distinguish a half from a complete set of pictures; `MaxLag`, the seconds
  between `time.Now()` and the swap, is 1: a second more is as late.  `refresh_rate`
  shows that this breaks the throttle with three goroutines; what is left of it
  holds for any number and any lag (`ThrottleCorrect`).
- *World*: of one name two rooms are the one that was purged with a window on its
  way to it and the one loaded in its place; two names let `purgeWorld` have rooms
  behind it and before it while windows come, go and move between them, and wait in
  one while the other is asked for.  Liveness has one name, whose two rooms may both
  be held while both windows and the message want in, and no restart, as TLC's
  search for cycles allows no symmetry.  The theorems cover any
  number of names, rooms and windows.
- *History*: three counter values wrap with four messages; two kept entries are
  the least for which "oldest" and "newest" differ; one load lets a room of before
  append and commit beside the new one, and the theorems are for any number.
- *SendGate*: a second token is enough to evict the first.
- *Links*: one message fits the narrow picture and two the wide one, each has a
  link or not, and one gets a tag: the lists of the two widths differ, and are
  cut off.
- *Text*: a limit of three bytes cuts names before, in and behind a rune of four;
  the base of the varints is 2, so that lengths of one byte and of more occur.
- *Layout*: a letter, a joiner and two heads, one of which has a glyph as well;
  the tables have heads with one tail, with several of which one is a prefix of
  another, and with one that lies between; widths are those of three and of five
  glyphs, so that a line breaks within an emoji.
- *RowPipeline*: four rows are the first, the last and two between; the crops
  begin and end inside a row, on its border, and within the lines that the filter
  holds back.
- *IncDecoder*: three rows of two macroblocks in one or two partitions, pieces
  of one and of four units: a piece ends in every unit of the stream.  One picture's
  crop area ends in its second row: the third must be read and not be shown.
- *LosslessDecoder*: 36 rows of one pixel and 20 of two, so that there are several
  checkpoints and blocks of rows; a copy passes both at once; portions of none, one and
  five units end between any two symbols; one chunk is a unit too short.
- *Encoder*: one row does not split, two leave an empty half to the analysis'
  second job, three do not; a search takes three passes at most.
- *StreamEncoder*: one configuration, or the four or five that are tried at most,
  with the shortest in either half and with ties.

### Fairness

- *Presence*: strong fairness for goroutines that wait for `ch.mu` (a
  `sync.Mutex` starves nobody) or receive from a queue that a Refresh empties
  now and then (a channel serves its waiting receivers first); writes to the browser end
  because the connection has a deadline.  Nothing makes a window open.
- *Refresh*: goroutines run, armed timers fire, and time passes; strong for the
  clock because the bound `MaxLag` holds it back now and then.  Nobody has to
  post, come or go.
- *World*: strong for requests, for windows that leave and for the purge (they wait
  for `world.Mutex` or a `ch.mu`, and a `sync.Mutex` starves nobody), and
  with the windows for their time-outs and their silence once they cannot be heard,
  which are due when nothing else is (`Goes`).  Whoever keeps a
  `ch.mu` owes nothing (`Release` has no fairness): the liveness properties name the
  premise themselves (`RoomsReleased`).
- *Links*: goroutines run, and there is always another Refresh, which is what
  `Refresh` shows while somebody watches.

- *Text*, *Layout*: none is needed, as nothing but safety is claimed.
- *webp*: main's calls, main's waiting and the thread each go on (weak): a thread
  runs, and `pthread_cond_wait` returns after a signal.  The user who brings the
  pieces owes nothing, and neither does the order of calls in `"any"`.

`CHECK_DEADLOCK FALSE` is given where the system really may stop: requests of
`SendGate` are all answered, texts are read, pictures are finished, and in
`presence_safety` and `presence_stuck`, with queues that get full, windows may
be stuck, which is what the latter shows; that they are not with long enough
queues is `presence_live`'s.

## 4. Theorems

Checked by TLAPS for every value of the constants that the named assumptions
allow.

- `PresenceProofs`: `TypeCorrect`, `MapCorrect` (`MapMatchesThreads`),
  `AddressCorrect` (`OneAddressPerNick`) and `LeaseCorrect` (`LeaseSpec`: every
  step of `Presence` is a step of `NickLease` or leaves `holder` alone).  The
  inductive invariant `IInv` adds to the two properties that a window in its kick
  loop holds `ch.mu` (`KickHoldsMutex`), without which the windows that it has
  checked could change before it is admitted.  Two more build on it:
  `PictureCorrect` (`OnePictureQueued`), with `OfferIsAlone` (between the moment
  a Refresh sees an empty queue and its offer no picture gets there), and
  `ToldCorrect` (`SupersededAreTold`), with `KickTells` (a window that kicks has
  told all but those left in `todo`) and `KickEnds` (nobody takes another note
  after a kick); `ToldStays` goes through everyone who handles a queue.
  `ExitCorrect` (`NoSilentExit`) keeps accounts: `Owed` says that for each nickname
  the joins less the leaves in `ch.data` (`balance`), with the announcements still to
  come, are at most the farewells still to come, and one more if a window is there
  that kicks or that nobody has told to go (`Speaker`).  `CrowdCorrect`
  (`WaitsOnlyInCrowds`) has no hypotheses about the queues, windows or time-outs: a
  queue with no room for a kick, or for the note that a Refresh puts back, is the
  queue of a window to which takeovers and expirations have come `Cap` times.
  `Fits` counts, for each window, what lies in its queue and what others still have in
  hand for it: a picture at most, and a note for each takeover that has passed it
  (`Kickers`) and for each expiration.  `Rivalry` says that whoever is about to kick
  a window is among its `rivals`, and not yet among those that have passed.  Both
  rest on `Bystanders`: only a listed window has a timer, a note is in the hand of a
  Refresh only while it holds `ch.mu`, and a kick goes to other windows of the
  nickname.
- `RefreshProofs`: `TypeCorrect`, `HeartbeatCorrect` (`TimerAlive`, inductive
  with `TypeOK`), and `ThrottleCorrect` (`OncePerSecondUnlessLate`), for any
  `MaxLag`: a second Refresh of one second proceeds only if it decides in a later
  one, or after one that did has set `refreshThrot` back.  `ThrottleInv` says that
  `refreshThrot` holds the running second once a Refresh of it has proceeded, unless
  it was set back, and that whoever is about to swap has loaded another second than
  its own.
- `WorldProofs`: `TypeCorrect`, `RoomsCorrect` (`OneRoomPerName`) and
  `MessagesCorrect` (`LostOnlyWithItsRoom`).  `Rooms` adds `PurgeKnows` (what the
  purge looks at is still in the map, since it keeps `world.Mutex`); `Messages`
  adds where a message is between its append and its commit.  `TotalCorrect`
  (`TotalExact`) lets users come and go between the steps of `purgeWorld`: `Tally`
  says that whoever has been counted is not in a room still to be counted (`Ahead`),
  as a window that comes back meanwhile cannot get past `world.Mutex`, and that who
  has been there all the time is counted or in such a room.  It needs that a window
  is in the room it has found and in no other (`InPlace`).
- `HistoryProofs`: every invariant of `History`: `TypeCorrect`, `OrderCorrect`
  (`InOrder`), `NewestCorrect` (`NewestKept`, the limit of a bucket included),
  `ShownCorrect` (`ShownIsStored`) and `SortedCorrect` (`SortedOnce`).  The
  invariant says that the sequence of the bucket counts the accepted messages
  (`Stored`), that the bucket has as many of them as it may and those left out
  are older (`Top`), that IDs given are below the last one (`Ordered`), and that
  an entry on the screen is its sender's (`OnScreen`).  `NewestKept` follows: a
  message left out means a full bucket of newer ones (`LeftOut`).  `KeyOrder`
  shows that a finite set of entries with unique keys can be put in order, which
  is what a load reads.
- `PostProofs`, of `SendGate`: `TypeCorrect` (with `Store`: the token store is
  finite and holds tokens only), `TokensCorrect` (`TokenOnce`: only by an
  overlap between `Get` and `Add`), `CooldownCorrect` (`OnePerCooldown`: only by
  one between `CheckIP` and `AddIP`) and `TimerCorrect` (`OneTimerPerAddress`).
  `Tokens` adds that a spent token is in the store or was forgotten, `Cooldowns`
  that whoever passed since the last deletion is in `cdMap` or about to get
  there; the timers are inductive as they are.  Of `Text`: `LengthCorrect`
  (`LengthLimited`) and `TextsCorrect` (`TextsStay`), for any alphabet,
  encoding, limit, and base of the varints.  `NameInv` says that what is built
  consists of whole runes that are kept (`Whole`), each of which begins within
  the limit (`Begins`), and that a second sanitizing has gone through a part of
  the first result and left it as it was, with a random suffix up to the limit
  (`CutOf`); a message gets longer only below both limits (`MessageInv`).  That
  `Unmarshal` reads what `Marshal` wrote rests on lemmas about the digits of a
  varint.
- `RenderProofs`: `LinksTypeCorrect` (`TypeOK` of `Links`), with the number of
  pictures a Refresh has made (`MadeCounted`), and `AnswersCorrect`
  (`AnswerWasTrue`): `Answerable` adds that what is in `ch.links`, and what is in a
  request's copy, is among its moments.  `LayoutCorrect` (`LaidOut`): `LayoutInv`
  says that the lines cut so far, with the rest of the message, are the message
  (`TextKept`), and that what is planned stays left of the margin (`PlanFits`), as
  the pen does (`WrapInv`).  `ProbeCorrect` (`ProbeIsLongest`): the order of tails
  is transitive and has no loops, so above any tail that comes before the text there
  is a last one that does (`Highest`), and of two that fit the longer comes later.
  `GapsCorrect` (`GapsAsPlanned`): both passes go through a line in the same way, so
  one predicate, `Passed`, says for both where on a line everything was put and that
  nothing but runes that are not drawn lies between.  `GapsInv` keeps it for the line
  that is being broken, for each line made (`Made`, with its place in the text) and
  for each line drawn.  What both have put is then compared (`SamePass`): the next
  spot is the same (`NextSpots`); an emoji that was planned is found again, as the cut
  line still holds all of it and the candidates between it and the text get no
  more (`SameEmoji`); and one found only now was cut from what followed, on a line
  that ends within a line of the text (`WasBroken`).
- `WebPProofs`: of `Worker`, `TypeCorrect`, `SoundCorrect` (`WorkerSound`, the four
  invariants together), and `SlotCorrect`: every step is a step of `JobSlot` or
  leaves the slot alone.  `Coupled` says what the status tells of both sides: a
  thread that is asleep has status OK, main sleeps only over WORK.  Its clients
  take steps of the worker only (`StreamWorks`, `EncWorks`, `RowsWork`), so that
  the worker's invariant holds for each of them:
  - `StreamTypeCorrect`, `StreamCorrect` (`StreamSound`): `StreamInv` says in which
    call main is in each phase (`Asks`), who may touch which encoder (`OneJob`),
    that each half has kept the shortest of what it has tried (`BestKept`) and
    that an error told has occurred (`Told`).
  - `EncTypeCorrect`, `EncoderCorrect` (`EncoderSound`): `EncInv` counts rows: those
    a job has been through and those left are its half (`RowsCounted`), and the
    halves are the picture; it also says what a failure has done to `ok`
    (`OkTells`) and who has the alpha data (`AlphaCompressed`).
  - `RowsTypeCorrect`, `RowsCorrect` (`RowsSound`): `RowsInv` says which rows the two
    buffers hold (`BuffersHold`), in which place of the cache which line is and how
    often it was filtered, before and after each part of `FinishRow`
    (`CacheHolds`), and up to which line `put()` has been called (`OutHolds`).
    The row main is at, the job's row and the rows rebuilt are tied together by
    `RowNumbers`.  The proof is about `AnyRows`, the steps of `RowPipeline` and
    those of a main that parses a row in several steps, runs out of data, and
    comes back to a row it has begun; `RowsInv(L)` leaves open how many rows are
    read before the loop ends (`L`): `BrRow` in one go, all of them in pieces.
- `DecoderProofs`: the decoders that get their data in pieces, and the library.
  - `LosslessTypeCorrect`, `LosslessCorrect` (`LosslessSound`): `LInv` says that
    reader, pixels and color cache belong together (`Where`), and so do those of the
    checkpoint (`LoopHolds`, `GoodPoint`), before which all whole blocks are put
    out, and of what follows less than eight rows (`BlocksPut`); that the rows
    put out follow each other and are right (`PutSoFar`); and that a decoder ends
    with all of them (`Completed`).  The decoding goes on from the checkpoint with
    the same symbols, since there the cache is what it was: `SyncedPoint`,
    `RestoredKeeps`.
  - `IDecTypeCorrect`, `PieceRowsCorrect` (`RowsSound`) and `PiecesCorrect`
    (`PiecesSound`): `IncInv` is `RowsInv(pic.mb_h)` and `IncKept`, which says which
    state goes with which call (`StateAt`, `Untouched`), that the buffer holds what
    is still needed and no reader is left behind (`BufferKept`), that each
    partition's reader has read the units of the rows before, and of the row begun
    up to `mb_x` (`Placed`), that the modes of a row are read once (`ModesRead`), and
    that a decoder that waits has a reason to (`Reasoned`).  That the readers'
    places are units of the stream rests on sums over rows (`RowTotals`,
    `InStream`).
  - `WebPTypeCorrect` (`WebPTypeOK`), `DecodersCorrect` (`DecodersSound`) and
    `ClientsCorrect`, about `MCWebP`: `WebPInv` is the invariant of the client that is
    at work, and for the others that they rest.  The worker's, rows' and
    encoders' promises hold there, too: what `webp_core` checks in one instance.

The assumptions are those the modules name (`...Assumption`), which TLC evaluates
in the runs: sizes are natural numbers, an encoding has at least one byte,
the tables of emojis are as `main` builds them, the crop area lies in
the picture and begins at an even line.  The lossy pictures `MCWebP` starts with
are those of the instance, for each decoder its own; the theorems about each
decoder are for any picture.  Induction over data is used nowhere as a rule with
an operator; where a lemma needs it (the digits of a number, the concatenation
of lines), it is the induction over a set of naturals.

Every invariant that a run checks is the subject of a theorem, and so is the
safety part of both refinements (`NickLease`, `JobSlot`).  Only model-checked,
because it needs fairness: liveness, `CallsReturn` with the fair half of
`SlotKept` included.

## 5. Not modelled

Identity is a function of one request; certificates are three independent
transactions; pages, static files, statistics and the log change no state of the
others; `src/cmd` does not run in the server.  Of libwebp, what it computes from
samples (prediction, transforms, entropy coding, scaling, containers, each with
versions in assembler) is arithmetic without control that the properties could
tell apart, and the older copy of the library and its generated bindings are not
compiled: that is most of the lines in `src/`, and the reason why the map covers a
small part of them.  `PROJECT.json` gives the reason for each.

Seen while modelling, and left without a property:

- after a fallback to JPEG the broadcast drops the flag, and windows are told
  `image/webp` (`channel.go:217` against 303);
- `VP8EncLoop` does not look at `StatLoop`'s answer, nor `ResetAllMBInfo`'s caller
  at the hook's, though `encode.h:259` lets the user abort there; the abort is
  seen at the next report;
- `WebPEncode` may return 0 with `error_code` 0 if a worker cannot start or the
  alpha job fails (`encode.h:531` says it is set), and `StoreStats` may then read
  what a job still writes;
- `VP8LEncodeStream` wipes `bw_side` even if it failed before it was
  initialised (`vp8l_enc.c:1812`): in the model it returns or ends there;
- `Unmarshal` of an entry cut short panics, or reads an empty message.

## 6. Plan

In order of what matters most to users: presence, refresh and registry (who is
there, what they see, where they meet) came first, then history, the send gate
and the links, then the texts and the library.  What is left:

1. `Room`: `Links` and the throttle of `Refresh` together, to drop the
   assumption that a Refresh may start at any time; a cached channel of `World`
   with the windows of `Presence`.
2. Proofs about the compositions `MCPost` and `MCRender`, as there are for `MCWebP`:
   their parts have no state in common, so each theorem carries over by itself.

To check everything: `tlc -config <cfg> <module>` for the runs of
`PROJECT.json` and `tlapm` for the eight modules of proofs.
