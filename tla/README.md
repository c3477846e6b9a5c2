# Verification of Yahala Messenger

TLA+ models of the Yahala messenger for Android, the runs that check them with
TLC and the theorems that TLAPS proves about them. `PROJECT.json` lists, for
every definition, the lines it models; this file explains the whole.

Paths below are relative to `src/app/src/main/java/`. `XMPPManager.java` and the
other classes named without a directory are in `com/yahala/xmpp/`; `audio.c` and
`opus/` are in `src/app/jni/`.

## 1. The system

Yahala is an XMPP client with the user interface of an early Telegram. The
network layer of Telegram is gone; what replaces it is `com/yahala/xmpp` on top
of the Smack library, and `org/appspot/apprtc` for calls. Voice notes are recorded
and played by `com/yahala/android/MediaController.java` and C code under `app/jni`:
`audio.c`, the opusfile reader and libogg. Everything runs in one
process whose threads are

| thread | what it runs |
|---|---|
| UI (main) thread | views, broadcast receivers, everything posted with `RunOnUIThread` |
| `xmppQueue` | one task at a time: connect, log in, reconnect, stop |
| `storageQueue` | one task at a time: the SQLite database |
| `stageQueue`, `fileLoaderQueue`, `imageLoadQueue`, `cacheOutQueue` | file and image loading |
| Smack's reader and writer, its listeners' executor, its ping timer | incoming stanzas, receipts, connection events |
| a `java.util.Timer` of `XMPPManager` | the delayed retry |
| `recordQueue`, `fileEncodingQueue` | the microphone; encoding and closing a voice note |
| `fileDecodingQueue`, `playerQueue` | decoding a voice note; writing it to the `AudioTrack` |
| the looper of `LooperExecutor` | call signalling |

The queues are `DispatchQueue`s (`com/yahala/messenger/DispatchQueue.java`): a
thread with an Android `Handler`, so tasks run one by one in the order posted.

### Components

**Connection manager** (`XMPPManager`, `android/Internet`, `android/ScreenReceiver`).
State: `connectionState`, the current `XMPPTCPConnection`, the type of the network
it was opened over, the retry timer, and the listeners on connection objects.
Operations: requests for a state change, `initConnection`, `connectAndAuth`,
`onConnectionEstablished`, `maybeStartReconnect`, `cleanupConnection`, `stop`, the
callbacks `connectionClosed`, `connectionClosedOnError` and a failed ping, the
two broadcast receivers. Hard: the state is read and written by four kinds of
threads without a lock; `maybeStartReconnect` returns in silence in several
states; a retry passes through a delayed post, a timer and a queue, each of which
something else may cancel. Correct if: online means there is a connection with a
listener; a task never starts to dial while the state says online; a wait for the
network ends in a request; nothing leaves the application disconnected with
no retry under way except a reason the code has for it; a reported loss leads to
a new attempt.

**Outgoing messages** (`XMPPManager.sendMessage`, `sendTextMessage`,
`MessagesStorage`, `XmppNotifications`, `ui/ChatActivity`). State: the row of a
message, the object in memory that the chat shows, copies of it that were loaded
from the database, and the tasks queued for the storage thread, which write from
whichever object they hold *when they run*. Operations: send, resend after a
login, receive a receipt, open and close the chat, delete. Hard: three threads
write the send state of one message through different objects. Correct if: a
message never claims to be sent or delivered unless it is; a text that could not
be sent is sent in a later session; and not more than once in each.

**File transfers** (`FileLoader`, `FileOperation`, `FileLoadOperation`). State: for
uploads, downloads and loads a queue of operations that wait, a counter of those
under way and a map from paths to operations. Operations: ask for a transfer,
cancel it, start, end, fail. Hard: transfers run on the thread that also handles
cancellations; three kinds of transfers share counters; the end of one has to
start the next. Correct if: the counter equals the uploads under way; a waiting
upload gets a slot; one path is not uploaded twice at a time.

**Configuration and message ids** (`messenger/UserConfig`). State: the counter of
local message ids and the current user, in memory and in the preferences.
Operations: take an id, save, load, clear. Hard: rows are stored under ids on
another thread than the one that saves the counter, and a process may be killed
in between; `clearConfig` is not atomic. Correct if: an id is used once; the
preferences are never behind in a way that matters after a restart.

**Incoming and offline messages** (`MessagesController.processChatMessage`,
`MessageListener`, `XmppOfflineMessages`). State: rows, chats, unread counts, open
views. Hard: Smack's thread stores and notifies; offline messages are deleted on
the server before they are stored.

**Dialogs and unread counts** (`MessagesStorage`, `android/NotificationsController`).
The list of chats and the number of unread messages, recomputed on
`storageQueue`. Hard: check-then-queue (`putMessage` looks for the chat and queues
its insertion).

**Recording voice notes** (`MediaController.startRecording`, `stopRecording`,
`recordRunnable`; `audio.c`). State: the tasks of two queues, `audioRecorder`, the
recording and the chat it is for, `fileBuffer` and its position, and the globals of
`audio.c` (encoder, file, Ogg stream, counts of samples). Operations: start, stop to
send, stop to cancel, read, encode a frame, close, send or delete. Hard: both queues
and the UI thread use the same fields and globals, and a new recording starts while
the one before is still encoded. Correct if: what is sent is what was said, to whom
it was said; the file is one Ogg stream; a recording the user stopped is dealt with.

**Playing voice notes** (`MediaController.playAudio` and what follows; `audio.c`).
State: three buffers in two lists, the tasks with which two queues keep each other
going, the `AudioTrack`, the file open in `audio.c`. Operations: play, pause, resume,
seek, stop, decode, write, the end. Hard: a seek or a new note empties the lists
while a run of each queue holds a buffer. Correct if: no buffer is lost or in two
lists; a note is heard in order; it ends.

**Ogg framing** (`opus/ogg/framing.c`). State: `ogg_stream_state` of a writer and of a
reader, `ogg_sync_state`. Operations: packet in, page out, flush, find a page, page
in, packet out, reset. Hard: packets over several pages, pages lost, damaged or cut,
reading from the middle. Correct if: what comes out went in; a gap is told;
undamaged packets survive.

**Reading and seeking Opus files** (`opus/opusfile/opusfile.c`). State: `OggOpusFile`
and the locals of a search that runs over many pages. Operations: open, read, tell,
seek to a sample, seek to a byte. Hard: a page says only where its last packet ends,
so positions of packets and of the search are inferred; positions wrap. Correct if:
read, tell and seek agree, the decoder has converged, the search ends.

**Notification centre** (`messenger/NotificationCenter`). Observers by id; changes
made during a broadcast are put off. Hard: broadcasts nest.

**Task queues** (`messenger/DispatchQueue`). Hard: posts while the thread starts.

**Call signalling** (`WebSocketRTCClient`, `WebSocketChannelClient`,
`LooperExecutor`). Two state machines on one looper thread. Hard: disconnection at
any point, messages before registration, callbacks after the end.

**Calls** (`xmpp/call`, `CallActivity`, `PeerConnectionClient`), **images**
(`FileLoader.loadImage`, `LruCache`, `gif.c`), **roster**, **accounts**, **database
access**, **protocol objects**, **user interface**, codecs, legacy and vendored code:
see section 6 and `PROJECT.json`, which say of each why it is not modelled.

### How they interact

- The connection manager calls `handleOfflineMessages` and posts
  `getUnsentMessages` to `storageQueue` when a login succeeds
  (`onConnectionEstablished`): in `OutgoingMessages` these are `SessionOpens` and
  `Established`.
- Sending takes an id (`UserConfig`), queues a row (`MessagesStorage`), saves the
  counter and hands the message to Smack on the UI thread, in that order.
- Smack's reader calls back for receipts, messages and connection events; each of
  these posts to `storageQueue` or `xmppQueue`, never waits for it.
- A file is announced through the connection when its upload has ended;
  the upload waits for the connection in a loop on `fileLoaderQueue`.
- Views learn of everything through the notification centre.
- A voice note is a file of pages (`OggFraming`) that `VoiceRecorder` writes, that is
  sent like any file (`FileTransfers`), and that the other side reads: `OggStream` finds
  its pages, `OpusFile` its samples, `VoicePlayer` plays them. The recorder and the
  reader share the operators of `OggFraming`, as both call libogg.

## 2. Modules

| module | what it is |
|---|---|
| `XmppConnection` | the connection manager |
| `MCXmppConnection` | its symmetry set for TLC |
| `XmppConnection_proofs` | theorems about it |
| `OutgoingMessages` | the life of the messages a user sends |
| `OutgoingMessages_proofs` | theorems about the states it shows and its resending |
| `SlotPool` | what uploads are meant to be: a FIFO pool with a number of slots |
| `FileTransfers` | uploads, downloads and loads; its uploads implement `SlotPool` |
| `FileTransfers_proofs` | theorems about it |
| `MessageIds` | the counter of ids, the user, and what is saved of them |
| `MCMessageIds` | its symmetry set for TLC |
| `MessageIds_proofs` | theorems about it |
| `OggFraming` | libogg's packets, segments and pages, as operators on records |
| `OggFraming_proofs` | what these operators and those of `GranulePos` compute |
| `OggStream` | a file written, damaged, searched for pages and read, with them |
| `OggStream_proofs` | theorems about it |
| `VoiceRecorder` | recording a voice note, into pages of `OggFraming` |
| `VoiceRecorder_proofs` | theorems about it |
| `VoicePlayer` | playing a voice note |
| `MCVoicePlayer` | the lengths of its notes for TLC |
| `VoicePlayer_proofs` | theorems about it |
| `GranulePos` | opusfile's arithmetic of granule positions |
| `OpusFile` | opening, reading, telling and seeking, on pages of `OggFraming` and positions of `GranulePos` |
| `MCOpusFile` | the files for TLC |

Definitions called "mutants" in comments are deliberate mistakes (a dropped
save, a missing release). The specifications do not use them; they are put in
the place of the definition they imitate to see that a property notices.

### XmppConnection

`worker` is what the `xmppQueue` thread is doing: idle, or between the steps of a
connect and a login, with the object it works on. `xmppQueue` holds requests and
the `reopen` tasks that `connectionClosed` posts. Connection objects have identity
(`Conn`): `sock` says whether one is closed, open or authenticated, `listeners`
counts its connection listeners, `errored` are the objects whose loss Smack has
yet to report. `stageTimer` and `delayed` are the two steps of a retry. Actions:

- `RunTask`: one task of `xmppQueue` up to the point where it dials: `AlreadyOnline`,
  `InitConnection`, `StopRequested`, `WaitForNetwork`, `Reopen`,
  `ReplaceConnection`, `ReopenThrows`, and `DelayedReconnect`;
- `Dialling`: the outcomes of `connect()` and `login()`, and `RestartConnection`;
- main thread and timers: `StageTimerFires`, `AppCallsReconnect`, `Arm`, `ScreenOn`,
  `NetworkChanges`, `ConnectivityBroadcast`;
- Smack: `SocketDies`, `ReportError`, `ServerCloses`, `PingFails`.

Abstractions. Time is left out: a timer that is armed may fire. An object nobody
refers to and that can call nobody back stands for a new one (`Unused`), so that
two are enough. Whether Smack 4.2.0-alpha3 logs an object that was logged in
before in again on `connect()` is the constant `LoginOnConnect`: it is TRUE in the
runs, and the theorems of section 5 hold safety for both values. The server ends a replaced session (the resource is fixed), which is
`OrphanDies`.

`RestartConnection` is the way out of `connectAndAuth` when `XHTMLManager` throws an
exception without a message: the object is cleaned up and given up, a new one is
dialled by a nested call on the same thread, which may set ONLINE, and then the
outer call goes on with `login()` on the object it had ("relogin"). `worker.outer` is
the stack of these calls, at most `MaxRestarts` (1 in the runs) deep.

Not modelled: presence tasks, account creation, vCards, chat
states, an exception while a new connection object is built, the requests
`RECONNECT_DELAYED` nobody makes, `connectionSettingsObsolete` nobody sets.

### OutgoingMessages

For each message: `row`, its send state in the database; the object the sender
made and the state it has; the copies a chat has loaded. Tasks on `storageQueue`
name the object they will write from ("mine", "copy" or a literal state), because
the code passes objects that others go on changing. `DeleteMessage` takes the row and,
with `MessageDeleted`, the chat's object, so that an error reported for the message
afterwards finds none and ends the process (`ErrorNotShown`). `sendMessage` is several
steps, in the order of the code: `SendMessage` (row queued), a
transmission that succeeds, fails after or before Smack took the message, or ends
the process, then `QueueUpdate`. The scan of a new session is split where other
threads can come in between: `BeginScan` reads the rows, `NextUnsent`, `ResendOk`
and its failures treat one, `QueueUpdates` writes. Receipts arrive on Smack's
thread at any time (`ReceiptArrives`, `ReceiptMissed` when the row is not there
yet). `Killed` loses everything but the rows. Two history variables: `sends`, how
often Smack took a message; `late`, the messages whose failed resending was stored
after the next session's scan had begun.

Not modelled: call messages (type 40), files (see below), loading by pages. A
session that the `connectionClosed` task opens again runs no scan, as in the code.

### FileTransfers and SlotPool

`FileOperation` does the whole transfer inside one task of `fileLoaderQueue`, so
`thread` says where it is (uploading, waiting for the connection, finishing) and
nothing else on the queue moves. `FileLoadOperation` posts its work to another
queue and may be cancelled by the UI thread at once. `Admit` starts an operation or
makes it wait, with the counters the code looks at and the ones it increments,
which differ for downloads. `Release` ends one and starts the next.
The step that puts a load in the map and starts it is one action: a cancellation
in between has the same effect as one before or after.

Left out: progress, the storing of messages, loads of audio (every path this
program writes contains `Integer.MIN_VALUE`, for which the load returns at once),
`downloadOperationPaths` (never read), the unsynchronised access to the lists.
A load that asks the network never ends here, because the request is commented
out in the code.

`SlotPool` is a set of at most `Slots` busy operations and a queue. The mapping takes
the operations that hold a slot, from admission until the release is handled, as
`busy`, and the upload queue as `waiting`. An ended upload hands its slot directly
to the first that waits: this is what the abstract `GiveUp` promises.

### MessageIds

`last` and `user` are `lastSendMessageId` and whether `currentUser` is set; `saved`
and `known` what the preferences hold of them. A thread of `Thread` receives or
sends one message at a time, with the steps in the code's order: *id, save, row*
for what is received, *id, row, save* for what is sent and for received files,
*id* alone for calls. `Insert` is the storage thread's plain INSERT; with a taken id
it throws, nothing catches that, and the process ends (`InsertFails`). `Boot` is
what a new process starts with. `clearConfig` is split at its assignments, because
only its last step takes the lock; `Reload` is `connectAndAuth` finding no user.
Left out: the other preferences, `lastLocalId`, the file `user.dat` written by
older versions.

### OggFraming and OggStream

A stream state is a record: `body` (bytes kept), `lacing` (the segments, each with its
length, its flags and its granule position), `packet` (how many segments belong to
whole packets), page and packet numbers. `PacketIn`, `PageReady`, `PageOut`, `AfterPage`,
`PageIn`, `PacketWaits`, `FirstPacket`, `AfterPacket` are `ogg_stream_packetin`,
`ogg_stream_flush_i`, `ogg_stream_pagein` and `_packetpeek`. Bytes have identity, so a
byte in the wrong packet shows. The sizes that libogg fixes (255 as a full segment,
255 segments, four packets) are constants.

`OggStream` writes packets with any mixture of `Pageout` and `Flush`, then `Damage`s or
`Truncate`s the file (an item changed or lost, a table that lies), then reads it:
`Read`, `Skip`, `TakePage` are the loop of `op_get_next_page` around
`ogg_sync_pageseek`; `Seek` begins again anywhere. Left out: the checksum (two
different pages never have the same), several logical streams, buffer growth.

### VoiceRecorder

A task of each queue is split where another thread can come in between; the
microphone gives numbered samples, and a frame's packet is the frame. `Start`,
`StartFails`, `MicFails` are the runnable of `startRecording` (the microphone may fail when
it is constructed, before the counters are reset, or when it is started, after); `ReadMic`, `ReadNothing`,
`ReadFails`, `ReadNoMic` the `recordRunnable`; `FillBuffer`, `WriteFrame`, `WriteFails` one
turn of the loop of `fileEncodingQueueRunnable`; `CloseRecorder` and `SendOrDelete` the end.
`Release` is `stopRecordingInternal`. `StartRaces` and `WriteCrashes` are the two ways in
which native code uses an encoder that is gone: undefined behaviour, modelled as
the end of the process. Time is counted in frames, as the program does it.

### VoicePlayer

`DecodeTake`/`DecodePut` and `PlayTake`/`PlayWrite`/`PlayFree` are the runs of the two queues,
split at the locks and at the write. `PlayNote` and `PlayOpened` are `playAudio` before and
after it waits for the file to open; `Begin` the task with which the decoding queue
starts. `Read` is `fillBuffer` with the test for the end as it is written, up to one of the
samples in `Readable`: `op_read` may fail before the buffer is full, for instance at a
hole of the page numbers, which sets `_finished` and leaves what was read, be it
nothing. `native.failed` remembers whether that was inside a buffer or between two. A
buffer knows from where to where it goes and which opening or seek it belongs to.
`ProgressTimer` stores how far the note got, which is where a later `playAudio` seeks to.
When a buffer of an earlier note is heard under a new one, that position may lie behind
the end of the new note: `Sought` fails there, as `op_pcm_seek` does, and the file stays
where it is. Left out: files that are not Opus, and other failures of `op_pcm_seek`.

### GranulePos and OpusFile

`GranAdd`, `HasDiff`, `GranDiff`, `GranBefore` translate `op_granpos_add`, `_diff` and `_cmp`
with a word of any size (`MaxGp`). `OpusFile` has `op_open_file` (`Open`), `op_read` (`Read`,
with `Fetched`, `Submitted` for `op_fetch_and_process_page` and `Decoded` for a packet),
`op_pcm_tell` (`PcmTell`), `op_raw_seek` and `op_pcm_seek`: refused, `SeekNear`, `SeekAtHand`
or `SeekFar`, then `Bisect` and `Scan` (the outer and the inner loop of
`op_pcm_seek_page`, one guess or page a step), `Land`, `Skip`. No other thread touches the
file during a search: the steps are there so that the run can count them. A sample is
known by its place in the recording; `fedFrom` is since when the decoder was fed
without a break. The first granule position is one of `Bases`, one of which makes the
positions wrap within the file. How the end of the file and the links are found when
it is opened is taken from the file.

## 3. Runs

| run | what it checks | bounds |
|---|---|---|
| `connection` | the connection manager: safety, retries, and that a loss leads to a new attempt | two objects, one network, two listeners, one task, two delayed posts, one restart from within a dial |
| `connecting_stuck` | finding: `CONNECTING` with nobody connecting | two tasks |
| `online_unauthenticated` | finding: `ONLINE` on a connection that failed | two tasks |
| `outgoing` | messages: earned states, resending, and that unsent texts are dealt with | two messages (a text, a location), one loss or kill, two openings, three of these together (`MaxEvents`) |
| `files` | three kinds of transfers, the refinement of `SlotPool`, and that waiting uploads start | three files, a url, two attachments, three requests, one cancellation |
| `message_ids` | ids and the user across kills | two threads, three ids, two tasks, a kill, a logout |
| `ids_reused` | finding: an id given twice | the same without a logout |
| `ogg` | pages written, damaged, searched and read | three packets of 0, 1, 3 or 4 bytes, segments of 2 and two of them to a page, one fault, one seek |
| `recorder` | recordings | two starts, two stops, two reads of 3 samples, frames of 2, one failure |
| `player` | playing | two notes of 1 and 4 samples, the three buffers of 2 samples, two plays, two seeks, a pause, five of these together, a seek counted twice (`MaxActs`) |
| `opusfile` | reading, telling, seeking | five files of 5 to 8 packets, two first positions, every sample as a target, two bytes |
| `opusfile_seek` | finding: a seek that does not begin where it was asked to | the same |

**Properties.** Besides one type invariant per module:

- `OnlineIsWatched`: ONLINE implies a current connection with a listener on it, so
  its loss will be reported. `OnlineOnlyBesideRelogin`: while the `xmppQueue` thread
  dials, the state is ONLINE in one place only, where `restartConnection` has put a
  connection up and the outer call logs its old object in; that object is not the
  one the application is online with. `WaitingIsNotForgotten`: in RECONNECT_NETWORK with a
  network there is a request on the queue that ends the wait. `RetryOrGiveUp` (action):
  only a failed login, a requested stop or a change of the network leaves the
  application disconnected with nothing scheduled. `LossLeadsToDial` (liveness).
- `StatesAreEarned`: neither a row nor an object says SENT of a message Smack never
  took, or AKN of one the peer does not have. `UnsentHasSender`: a text stored as
  SENDING that was never sent, in a session whose scan has been posted, has
  somebody who will treat it. `ResentOncePerSession`: a message is sent at most once
  by the sender and once by each session's scan. `UnsentIsDealtWith` (liveness).
- `UploadsAreCounted`, `OneUploadPerPath`, `WaitsOnlyForSlots`, `UploadsAreAPool`
  (refinement), `WaitingUploadStarts` (liveness).
- `IdsInFlightDiffer`: ids held and queued are distinct and spent.
  `ReceivedIdsAreSpent`: the saved counter has passed every id of a received message.
  `SavedNeverGoesBack` (action). `SameUserAfterRestart`: with no logout or registration
  under way, a kill does not change whether there is a user. The first three are
  stated for an installation nobody has logged out of: a logout restarts the count.
- `PacketsAreWhole`: a packet that comes out is one that went in, byte for byte, with
  its position and flags. `HolesAreReported`: packets come in order, and where one
  is missing a hole was told. `OnlyDamagedIsLost`: a packet all of whose pages are
  intact comes out, unless a damaged table at the end asks for more than the file has.
- `SentAsSpoken`: a note that is sent holds the samples that were spoken, from the
  first on, but for part of a last frame. `SentAsAsked`: sent only when asked, to the
  chat it was made in; thrown away only when short. `FileIsAStream`: its own pages,
  numbered, positions that do not go back, the end with the right length.
  `StopIsAnswered` (liveness).
- `BuffersAreKept`: each buffer is in one place, and the tasks that keep the queues
  going do not multiply. `HeardInOrder`: of a note everything is heard in order, nothing
  lost or repeated, and the first piece after a beginning or a seek begins where the
  file was moved to, unless yet another seek is posted; what comes before it of the old
  place is only what was in hand. The piece that ends the playing ends the note.
  `PlayingEnds` (liveness).
- `ReadsWhatItTells`: `op_read` gives the sample `op_pcm_tell` named. `SeekLands`: a seek
  that succeeds is where it was asked to be, and only a packet that straddles pages
  makes one fail. `DecoderIsWarm`: 80 ms are decoded before what is heard.
  `SearchEnds`: within `MaxSteps` (12) guesses and pages.

**Cases the properties leave out.** They are what the code does, and each is named
in the property: a recording that overlaps with the one before, that was cut by a
short read in mid-frame, whose microphone or file failed; a playing that began with
tasks of an earlier one left over or was resumed before it had begun. `HeardInOrder`:
audio that fills its buffers exactly, and `op_read` failing inside a buffer, both of
which end the playing early. `PlayingEnds`: a seek after the file was read to its end,
a single full buffer, and `op_read` failing where a buffer begins, after which
`_finished` is set with nothing to play and the note never ends. In `opusfile`: samples left over by a short seek (checked to be
the finding), and a short seek soon after a full one.

**Bounds.** Every bound is a constant and a conjunct of a guard. Two connection
objects are the current one and a replaced one; one network is enough because a
change goes through "none"; a second listener or delayed post is the first
that can repeat. The two finding runs of the connection have two tasks and treat objects as
symmetric, those of `MCMessageIds`, whose properties are safety only, the threads;
`connection` has one and no symmetry, because of its liveness property, and the
theorems of section 5 hold its four safety properties for every bound and for
both values of `LoginOnConnect`; the liveness property is checked for TRUE only. One
restart is enough for a nested call beside an outer one. The second message checks that receipts and scans name
the right one; three events are a loss, a message and an opening of the chat in any
order. Three paths are needed for one to wait for two slots. Two threads and three
ids give every order of two messages, and a kill between any two steps. Three packets
and two segments to a page give pages with several packets, packets over several
pages, and both at once; sizes 0 and 4 are multiples of a segment. A full read is a
frame and a half, so frames and reads do not fall together. One note fills its last
buffer and one does not. The files of `opusfile` have small pages before large ones
(which mislead the guess), several packets on a page, a packet on two pages, an end
that cuts samples off, and no end mark at all. Deadlock is checked for `opusfile`; in
the other runs the models stop when the bounds are used up, and an idle messenger
has nothing to do.

**Fairness.** Of a queue's thread: a task that is posted runs and its steps go on
(`RunTask`, `Dialling`, `StorageSteps`, `UiSteps`, `QueueSteps`; `RecordQueue`, `EncodingQueue`,
`SendOrDelete`; `UiTask`, `DecodingQueue`, `PlayerQueue`); a handler does not
skip tasks. Of timers: the retry timer is strongly fair, since `cleanupConnection`
may cancel and others arm it again. Of Smack: a lost connection is reported, for
each object; strongly fair because the queue's bound may disable it. Of the
network: a connect, a login and an HTTP request end, one way or other; the code
sets no timeout for HTTP, so `WaitingUploadStarts` assumes it. Of Android: a track that
plays reaches its marker, and a write to it returns, but a write to a paused track
may wait for as long as it is paused. Nothing is assumed
about the user, the server's willingness or the network's return; the
liveness properties name what they need: a network that stays, a session that
lasts, XMPP connected for good and fewer than two uploads that threw.

## 4. Findings

1. `XMPPManager.java:776`. A stream error during login calls `maybeStartReconnect`
   while the state is CONNECTING, where it does nothing (line 1294). The task ends,
   CONNECTING stays, which `com/yahala/android/ConnectionState.java:8` calls
   "currently opening a connection".
2. `XMPPManager.java:1142`. The task posted by `connectionClosed` ignores that
   `connectAndAuth` failed and declares the connection established: ONLINE, which
   `ConnectionState.java:9` calls "connected and authenticated", without a session.
3. `XMPPManager.java:2000`. A sent message's row is queued before the counter of ids
   is saved at line 2009. A kill in between gives the id again, and the second
   INSERT fails.

4. `opus/opusfile/opusfile.c:2462`. A short seek forward sets what is to be discarded
   and leaves the decoded samples in the buffer: `op_pcm_tell` names the sample asked
   for, but the next `op_read` gives what was in the buffer. `opusfile.h` says of
   `op_pcm_seek`: "decoding will begin at exactly the requested position".

The models show other behaviour that no text of the repository rules out, listed
as hazards: a location that fails is never resent; a chat that opens may set a
delivered message back to an older state, after which it is sent again; a
resending that fails may be stored behind the next session's scan, which leaves the
text SENDING until the session after; an upload that throws keeps its slot; a
download that has to wait is never started; a logout during a reconnection may
load the user back; a recording started at once after another disturbs it, in the
worst case while native code runs; a voice note that fills its buffers exactly ends
one buffer early, and one of a single buffer never ends; a note with a hole in it ends
there, or never does when the hole is where a buffer begins; a seek to a packet that
begins on a page after another packet and goes on on the next page fails.

## 5. Proofs

All are checked by TLAPS for every value of the constants, from the assumptions
named in the modules: bounds and sizes are natural numbers, `NoConn` is no connection,
`NoNetwork` no network, texts are messages, ids are integers. No other fact is
assumed.

**Types.** `TypeCorrect` in `XmppConnection_proofs`, `OutgoingMessages_proofs`,
`MessageIds_proofs`, `FileTransfers_proofs`, `VoiceRecorder_proofs` and
`VoicePlayer_proofs`. The proofs have one lemma for each variable or group of variables: the actions that change it one by
one, then all others at once. In `VoicePlayer` the invariant of the run was not
inductive: that a seek stays within the note was not in it. It does not (a seek
after the progress timer's last report may go behind the end, and `op_pcm_seek`
refuses it), so the proof attempt led to the action `ProgressTimer` and the failing
case of `Sought`.

**Connection.** `OnlineWatched` and `OnlineBesideRelogin` follow from `WatchedInv`. It adds
to the two properties `CallsDiffer`, that the calls left in `restartConnection` hold
different objects, none of them the current one, and that *every* current connection, not only an online one, has
a listener, and that the object a `reopen` task dials is the current one: without
these, `onConnectionEstablished` could set ONLINE on an object without a listener.
`WaitingNotForgotten` follows from `WaitingInv`, which is about the order of the queue:
behind every RECONNECT_NETWORK request there is one that ends the wait, if there is
a network. `RetriesOrGivesUp` goes by cases over the actions, from the types.

**Outgoing messages.** `StatesEarned` follows from `EarnedInv`: the claim must hold of
everything that will be written later, so the invariant says of rows, objects,
queued storage tasks and UI tasks, the scan's results and pending receipts that
the state they carry is earned. Earned states stay earned, because `sends` and
what the peer has only grow.

**Resending.** `ResentOnce` follows from `SendInv`, a budget:
what Smack took of a message, and what a scan, a task or the sender may still give to
it, is paid for by the sender's one attempt and the logins so far. It holds because a
scan reads each row once and the tasks of a scan are gone before the next begins.
`UnsentIsSeenTo` follows from `UnsentInv`. Its claim is again about what will be written
later: between two scans every stored SENDING of an unsent text must be one that the
next scan will read, or one with a sender. Nine parts are needed: messages that exist
are numbered (`Numbered`), the peer has only what was sent (`PeerHasSent`), what the chat
shows is an object somebody made (`RefsShown`, `ShownHaveNoLiteral`), a load misses only
what was sent since the chat was opened, deleted or not, and brings all the rest
(`LoadSeesAll`), there is one at a time (`OneLoad`), objects and rows agree
unless a task in the queue will make them (`ObjectsAgree`), the sender's own object says
what the sender does (`SenderShows`), and a scan covers all the rows there were when
it was posted (`ScanCovers`).

**File transfers.** `CounterIsExact`, `OneUploadOfAPath` and `NobodyWaitsInVain` share one
inductive invariant: an operation is in one lane at a time (waiting, running, ended
with its release posted), a lane names only operations that exist, a path in the map
belongs to the operation that waits or runs for it, and a release is posted once. The
counter then is the cardinality of the operations admitted and not released; that
the release hands its slot on (`Release`) keeps that number while the queue is not
empty, which is why nobody waits while a slot is free. `UploadsImplementAPool` proves
from the same invariant that every step is a step of `SlotPool` or leaves it alone.

**Message ids.** `ReceivedIdsSpent` and `SavedFalls` follow from `CountInv`: while nobody
has logged out, the counter in memory is at or below the saved one, ids held are
above the counter, and an installation without a user is fresh. The last part
(with `Users`, on how the user is lost and found) is needed because a registration
resets the counter: it may do so only before any id was given. `IdsDiffer` follows from
`CountInv` and `Differ`, which says of two holders that their ids are different: a
new id is below all others, because those are above the counter. `SameUser` is
inductive as it stands.

**Recording.** The four theorems share one inductive invariant, `Recorded`, in layers
that each need the one before:

1. `Kept`: types, among them that every sample queued, spoken or written carries its
   recording and its number; and each recording is begun once and dealt with once
   (`BegunOnce`, `ClosedOnce`), whatever the order of starts, stops and failures.
2. `Owned`: a recording no other one overlapped with (`Alone`) has audio.c's globals, both
   queues and the microphone to itself until `CloseRecorder`, and from then until the
   UI thread deals with it nobody has them. This is what the flag "overlap" must
   exclude and all it must exclude.
3. `InSequence` and `Counted`: the buffer in work and the queued ones go on one after the
   other up to what was spoken, and the frames counted are at least those of the samples
   consumed. `AskedIsSent` follows, with the duration test of `SendOrDelete`.
4. `ShortReadIsLast`, `InFile`, `StreamGoesOn`, `Streams`: a short read is the last one and
   begins a frame; the file followed by `fileBuffer` holds what was consumed; the stream
   in audio.c goes on where the file ends, and is not ended before the last sample.
   The loop's odd length (`FrameLength`, a position in the wrong buffer) is then the
   right one, because at a short read both positions are zero (`LoopMeets`).
   `SpokenIsSent` and `OneStream` follow.

What a page holds is `OnePacketOnePage` (`OggFraming_proofs`): a packet that fits on a
page, put into a stream at rest and flushed, comes out as that page. `Laced` and `Bytes`
are recursive functions; that they exist and what they sum to is proved without the
library's induction, from the least counterexample (`LeastNat`, from the well-founded
order of the naturals). So is `AudioGrows`, for the audio of a file. `OnePage` needs that a
frame fits on a page, an assumption of `VoiceRecorder` on its constants: the code's frame
has 960 samples and at most 383 bytes encoded, a page has room for over 65,000.

**Playing.** `BuffersKept` follows from `OnePlace`, that the two lists and the two buffers
in hand are a partition of the buffers, and from a count: the tasks that keep the queues
going are at most the starts. `InOrder` adds `Orderly`, an invariant of a playing that
began well. It is in one of three phases: `Opening` (both queues rest), `Starting` (the
first task is the start, and nothing was heard), `Running` (a chain of tasks of
each kind, at most one long). In the last, what was heard, the buffer being written
and the buffers in `used` form one pipe (`PipeInOrder`): each piece begins where the one
before ended or, as the first of its reading, where the file was moved to, and the last
ends where the file is. The end comes where the note's does, one full buffer before
it, or where reading failed. A run of the
decoding queue that a seek overtook has the buffer of an older reading, so pieces
carry the number of their reading.

**Reading what was written.** `PacketsComeOutWhole`, `HolesComeOut` and `DamageStaysLocal` are about
`OggStream`, with packets over any number of pages, pages with any number of packets, every mixture
of `Pageout` and `Flush`, any damage, reads of any size and seeks to any place. What the
writer makes is described by a *script*: the sequence of all segments in the order of
writing, each a pair of its packet and its number in the packet (`Mark`). The
invariant `IInv` follows it through the system, and has two witnesses that the model
does not carry, the script and, for each segment the reader holds, its place in the script:

1. `WriterOK`: the segments not yet on pages are the last of the script, with their bytes;
   `PagesOK`: the lacing table and the body of page j are those of the segments from
   `Cut(j - 1)` to `Cut(j)`, its flags say whether it begins with the rest of a packet,
   and its position is that of the last packet to end on it, -1 if there is none.
2. `FileOK`: the file holds items of pages, damaged or not. `SyncOK`: what
   `ogg_sync_state` holds is the part of the file from `Done(sync, offset)` to what was
   read. A header whose table lies can never be completed to a page, because the
   checksum covers the table; so `PageFound` means a page that was written
   (`PageFoundIs`), and in a file nobody damaged the search never skips the beginning
   of one (`ReadingSkips`), from whatever place it began.
3. `Holds`: every segment in the reader carries the bytes of its place in the script;
   neighbours are neighbours in the script, or a hole lies between them, after which a
   packet begins (`Linked`); the first is a packet's first (`Begins`). The three
   branches of `ogg_stream_pagein` keep this one by one: a page that follows, a gap
   (`ResumedGap`, which drops the half packet and puts the hole), and the rest of a packet
   whose beginning was lost (`OrphansAre`, dropped up to the first segment below 255).
   `LastOK` says how far behind the last page the reader is.
4. `GotAt`: every packet given is one of the script, and the next to be given is the
   one after it unless a hole comes first.
5. `Kept`, until the first seek, has one more witness, the set of pages the reader took:
   `Passed`, every page all of whose items lie in the file before `Done` is one of them,
   because the search stops at any head (`SkippedIs`) and takes what is intact there
   (`FoundThere`), and no page lies within another (`OneHead`); `Came`, of the packets all of whose
   pages were taken, those that ended, and the one that is open on the last page, are
   held or were given. A page that goes on with a packet finds its beginning still
   held if that came whole (`NoOrphans`), so neither the gap nor the rest of a packet is
   ever charged to a packet that is complete (`CameTakes`).

That a run of segments from a packet's first to the first one below 255 is that packet
(`PacketRun`) gives the first theorems: the packet's bytes, its position and its flags are
those that were put in. For `DamageStaysLocal`, an intact page of a file that was read to its end
begins before `Done` (`IntactTaken`); the pages from `BeginPage` to `EndPage` hold all segments of the
packet (`PagesOfPacket`), so it is held or given, and what is held and ended would
still wait (`HeldEnds`). How segments and bytes are cut and joined is in `OggFraming_proofs` and in
the first part of the module, for lacings of any length. TLC checked `IInv`, with the
witnesses computed, before it was proved.

**Granule positions** (in `OggFraming_proofs`). Each valid position stands for a number (`Value`: the word read
without its sign). `AddIsExact`: `op_granpos_add` gives the position of the exact sum
and fails exactly when there is none. `DiffIsExact`: a difference that is given is exact,
and it fails exactly when it does not fit in a word. `BeforeIsLess`: the comparison is
that of the numbers. `AddThenDiff`: what was added comes back as a difference. By
cases on the signs, for every size of word; these carry the runs of `OpusFile`, with
small words, to 64 bits as far as the arithmetic goes.

Only model-checked: `UnsentIsDealtWith`, `StopIsAnswered` and the other liveness properties, for
the prover handles neither fairness nor ENABLED.
`OpusFile` is out of its reach, for it uses RECURSIVE operators (the collection of packets
and pages).

## 6. Not modelled, and the plan

- **Call signalling and calls** (`org/appspot/apprtc`, `xmpp/call`): Google's demo with few
  changes; it shares no state with the rest. Its known races are one hazard.
- **Notification centre, task queues**: the modules take their effect for granted,
  FIFO queues that run and notifications that reach their handler. The start of a queue
  and nested broadcasts are listed as hazards no property covers.
- **Chats and unread counts, offline retrieval**: derived from the rows for display; no
  text says what the counts promise. Two hazards, without a property.
- **Images** (`FileLoader.loadImage`, `LruCache`, `gif.c`): which bitmap a view shows.
- **In opusfile**: chained links and the bisection that finds them, unseekable
  sources, read errors, gain, dithering, tags and pictures: the program plays
  files of one link from storage and asks for none of the rest. **In libogg**: the
  checksum's computation, several logical streams, the bit packer.
- **Codecs** (`opus/celt`, `opus/silk`, `opus/src`, `libjpeg`): most of the C code in the
  repository, and vendored. They compute samples and pixels from numbers; there is no
  state for a model checker to explore that is not arithmetic on them. Hence the
  definitions here cover only a few percent of all lines of C.
- Roster, accounts, serialisation buffers, legacy controllers, protocol objects,
  generated database access, layout of views: no behaviour of their own, or not in use.

What would come next: `OpusFile` without RECURSIVE operators, to prove about it; a module of
the notification centre.

## 7. Running it

    tlc -workers 2 -config XmppConnection.cfg MCXmppConnection
    tlc -workers 2 -config OpusFile.cfg MCOpusFile
    tlapm XmppConnection_proofs.tla

Each run takes less than three and a half minutes on two cores, each proof module
one to three, `OggStream_proofs` seven.
