# Verification of the Arduino HomeKit server

TLA+ models of the HomeKit accessory server for the ESP8266 in this repository, with the TLC configurations that
check them and TLAPS proofs of their main invariants. Paths below are relative to the repository; "the library" is
its `src` directory, and `cpp` stands for `src/arduino_homekit_server.cpp`.

## The system

One accessory runs one server. `arduino_homekit_loop` is called by the sketch again and again; each call accepts at
most one connection, reads what each client sent, runs the handler of a complete request to its end and then sends
the queued events. There are no threads: the concurrency is between the connections (whose requests interleave
between handlers), the sketch (which reports values between two calls of the loop), the network (a socket may fail
in the middle of a handler) and the chip (which may reset between two flash operations).

| Component | State | Operations | Interactions |
|---|---|---|---|
| Pairing storage (`storage.c`) | one flash sector: magic, accessory id and key, 16 pairing blocks | init, reset, save and load id and key, add, update, remove, find, iterate, compact | called by server init, pair setup, pairings requests |
| Connections (`cpp`) | list of client contexts, `nfds`, sockets | accept, process, close; `write` closes on error | every handler may close the client it serves |
| Pairing protocol (`cpp`) | `paired`, the shared pairing context, step, verify context, `encrypted`, `pairing_id` of a client | pair setup M1, M3, M5; pair verify V1, V3; add, remove, list pairings; preinit | storage; the loop makes the pairing context again |
| Event queue (`cQueue.c`) | ring, `in`, `cnt` | push, pop, flush | filled by notifications, drained by the loop |
| Notifications (`accessories.c`, `cpp`) | callbacks of each characteristic, queues, values | notify, subscribe, unsubscribe, write, process notifications | connections (closing removes callbacks) |
| Frames (`cpp`) | `count_reads`, `count_writes`, the input buffer | decrypt, encrypt, reassemble | between socket and HTTP parser |
| Routing (`cpp`) | endpoint, body | url, body, message complete | picks the handler by endpoint and `encrypted` |
| Accessory database (`accessories.c`) | ids of accessories, services, characteristics | init, lookups | used by reads and writes |
| Advertisement (`cpp`) | TXT record, config number | mDNS init, config number update | `paired`, setup id |
| JSON answers and writes (`cpp`) | none between two requests | get, accessories, update, events | JSON stream, database, notifications |
| Encodings (`tlv.c`, `json.c`, `query_params.c`, `base64.c`) | none, or a stream state | parse, format | used by the handlers |

Hard behaviours: a sequence of flash operations cut short by a reset; an operation that fails in the middle; blocks
that move under an index already read; one pairing context shared by all connections; a client freed inside its own
handler; cached answers (`paired`, `pairing_id`, permissions) against the storage; a short queue that overwrites;
retries of pair setup after an error. What makes each component correct:

- storage: a lookup returns what completed operations promised; others' pairings stay; a device has one record;
- connections and protocol: the pairing context is owned by a live client and never taken over, a handler finds the
  state it uses, `nfds` counts, sessions refer to their own pairing, pair setup becomes possible again when it must;
- queue and notifications: the queue is a bounded buffer, callbacks belong to live clients, a change reaches every
  subscriber once, with the newest value;
- frames: both ends number the frames alike, every byte is decrypted once and in order, each request is answered
  once;
- encodings: what is written is what the other end reads, wherever a buffer or chunk ends in it; a write stores only
  what the characteristic allows; ids that were generated are new.

Vendored or platform code is left out: wolfSSL, cJSON, http_parser, the fork of the WiFi library, `port.c`,
`watchdog.c` and the examples. PROJECT.json lists every component with its status.

## Modules

| Module | Models | Used by |
|---|---|---|
| `PairingBlocks` | the table of blocks: what lookups, searches and the admin scan see | both of the next |
| `PairingStore` | `storage.c` with a reset or a failure between any two flash operations, and the start of `homekit_server_init` | `MCPairingStore` |
| `PairingList` | abstract: what the table promises, a list to which one appends, from which one drops, or which is cleared | `PairingStore` (refinement) |
| `HomekitServer` | connections, pair setup, pair verify, pairings requests over the table | `MCHomekitServer` |
| `EventRing` | `cQueue.c` as a LIFO ring with overwriting, as operators | `Notifications` |
| `Notifications` | reports, writes, subscriptions, queues and `process_notifications` | `MCNotifications` |
| `EventBuffer` | abstract: for each client the last `Size` events | `Notifications` (refinement) |
| `SecureChannel` | one connection between the socket and the HTTP parser: frames, their numbers, the buffer | `MCSecureChannel` |
| `RequestChannel` | abstract: one answer to each request, until the connection is lost or closed | `SecureChannel` (refinement) |
| `JsonStream` | `json.c`: states, nesting, buffer | `JsonAnswers` |
| `JsonAnswers` | the JSON bodies that the server sends, as calls of `json.c` | `CharacteristicUpdate` |
| `CharacteristicUpdate` | an element of a write: checks, value stored, subscription, status | `Encodings` |
| `Tlv`, `QueryParams`, `Base64`, `AccessoryIds` | `tlv.c`, `query_params.c`, `base64.c`, the numbering of `accessories.c` | `Encodings` |
| `Encodings` | all inputs of these up to a length, and what the other end makes of the results | `MCEncodings` |
| `PairingBlocksProofs`, `PairingStoreProofs`, `HomekitServerProofs`, `SecureChannelProofs`, `NotificationsProofs`, `EncodingsProofs` | theorems about the module of that name (the event queue is with the notifications) | |
| `JsonProofs` | theorems about the JSON of `Encodings`: the stream, and the answers and EVENTs written with it | |
| `Induction` | lemmas: induction and recursion over the natural numbers | the proofs about recursive functions |

### PairingStore

`pc` names the next flash operation of the function `fn`; one action is one call of `spiflash_write` or
`spiflash_erase_sector` with the decisions up to the next one. `Crash` may come before any of them, `TornWrite` in
the middle of the programming of a record, and each has a failing variant. `promised` and `clean` are history: the
permissions a caller may expect of each device, and whether none of the five events has happened that are known to
break the table:

1. a compaction (it erases the sector and never writes the copy back),
2. a second record for a device that has one (M5 does not look),
3. a record written while the magic, id or key is missing (the next start formats),
4. an update stopped between its two writes,
5. a read of the magic, id or key that fails at start-up.

`Faithful` says that without these five a lookup is always right; `PairingStore_others` shows what the first leads to. The public key of a record is left out. Flash writes clear bits: saving an id over another leaves a mixed
one, which may or may not pass `homekit_storage_load_accessory_id`, and the model takes both. A failing write is
taken to change nothing; reads of single blocks inside the scans are taken to succeed.

### HomekitServer

An action is one handler call on one connection, run to its end, the socket failing in it included (`Reply`).
`server.saved` and `server.owner` are `saved_preinit_pairing_context` and the client of `server->pairing_context`.
The storage functions are single steps here, with the effects that `PairingStore` gives them step by step, the
erasing compaction included (`Room`). Controllers (`Connect`, `Send`, `PeerCloses`) are the environment: they follow
the protocol's order, one request at a time, may start over or use a wrong setup code, may go away at any time, and
keep their long-term key. When a write closes the client inside a handler, the rest of the handler uses freed memory:
the model lets it survive, and `Reboot` may follow at once; in M5 it always resets the chip, the pairing context
being a null pointer then. `homekit_mdns_init`, allocation failures and a failing preinit are left out.

### EventRing, EventBuffer, Notifications

A popped cell is `NoEvent`: the caller frees the event. `QueuesAreBuffers` maps the rings to sequences (`Contents`),
so that one abstract buffer per client has to explain every push, overwriting push and pass of the loop, wherever the
ring's index stands. In `Notifications` a client is connected, then verified
(`HomekitServer` has the steps), then writes, subscribes and unsubscribes; the sketch reports values; a pass of
`process_notifications` drains all queues and a failing socket closes its client in it. Requests with several
elements are as many requests with one, since nothing comes between the elements. A write that is refused changes
nothing and is not an action. Two reads of uninitialised memory are choices: the `is_null` bit of a value made by
`types.c` may be set, in which case a write stores null and notifies nobody (`PutNull`), and the
`current_characteristic` and `current_value` of a client that has not written yet may suppress an event (`unset`).
`behind` is history: which client has events of a characteristic queued and was not told of its last change, so that
`NewestIsCurrent` can say that all others are up to date.

### SecureChannel

`wire` holds the bytes the socket has received and the server has not read, each named by its frame and its place in
it (or, before pair verify has been answered, by its place in the stream of requests); `ctx` is the client context with
the bytes kept in the buffer, `count_writes`, `count_reads` and what the parser has taken; `ctl` is the controller's
side and belongs to the environment. One action is one call of `homekit_client_process`: `k` bytes are read, as many as
fit and the network likes, `client_decrypt_` runs over them, the parser gets its output, and a completed request is
answered by up to `MaxPieces` calls of `client_send`, any of which may fail and close the client. The parser is in
the model as what takes bytes in order: any other byte breaks it. `Receive` is a read that ends at a frame's end or in
an unfinished frame, `ReceiveInvalid` one with a frame that does not decrypt, `ReceiveTooShort` one of less than a
frame's overhead, whose size of plaintext is negative. Which of these happen follows from the bytes read, since the
code decrypts only the first `k` bytes of a buffer that starts with those kept before.

`whole` is history: so far each read took exactly one frame. The code is right as long as that holds, which is what
`InOrderIfWhole` and the refinement of `RequestChannel` say (there a session that is not whole is "lost"); it need not
hold, TCP being a stream, and `SecureChannel_unfinished` shows what a frame in two reads comes to.

### JsonStream, JsonAnswers, CharacteristicUpdate, Tlv, QueryParams, Base64, AccessoryIds

These are operators, since the code keeps no state between two calls but the stream's own. `Encodings` gives them
their inputs: `kind` chooses one of them, and `input` grows by one symbol in each step, so that every input up to
`Bound` is a state. The properties say what the *other* end reads: JSON by its grammar (`IsJson`, `ValueAt`, written
from the grammar and not from `json.c`), queries by their separators (`Fields`), TLV and Base64 by decoding.

- A JSON token has a width and no characters; the buffer is flushed by width, so that the interesting boundaries
  (a token that fits but for the null, one that fills the buffer, one that is too long) come with the widths chosen.
- `json_string` escapes nothing (`json.c:286`). `Lexemes` says which tokens a reader finds in the characters of one: a
  plain token (`Plain`) is read as itself, a string with a quote ends at the quote, one with a backslash is another
  string. `StreamsAreJson` is about calls whose strings are plain (`Unescaped`), and the other JSON properties assume
  that the strings in the sketch's database are (`AnswersAssumption`): a string that a controller writes need not be
  (see below the runs).
- The array of nestings has `JSON_MAX_DEPTH` places and is written without a test. `JsonStream` has no such limit, so
  `StreamsAreJson` claims nothing of calls that nest deeper (`Shallow`). No answer of the server does.
- A characteristic is what its JSON and the checks of a write depend on; its value is one token, none where the value
  has another format than the characteristic. There are no setters and getters of the sketch.
- Doubles are counted in halves, which tells an integer, a fraction that is cut to an allowed integer and a limit
  apart. Strings, TLVs and data are their lengths. `uint32` and `uint64` are checked as `uint16` is, to other limits.
- Statuses are sent as the eight bits that `json_uint8` leaves of them (`Status`), numbers with the six characters
  that `json_integer` keeps (`Integer`).
- Queries and Base64 texts are modelled character by character, TLV items byte by byte with short chunks.

## Runs

| Run | Bounds | Shows |
|---|---|---|
| `PairingStore_safety` | 3 controllers, 3 blocks, 1 reset, 1 fault | types, order of the records, `Faithful`, `UniqueRecords`, refinement of `PairingList` |
| `HomekitServer_safety` | 3 connections, limit 2, 1 controller, 2 blocks | pairing context, steps, sessions, `ClientCount` with refused connections |
| `HomekitServer_sessions` | 2 connections, 3 controllers, 2 blocks, until the accessory id is lost (`IdIntact`) | `SessionPairingId`, `NoAdminEnablesPairing`; the answer of a full table |
| `HomekitServer_liveness` | 2 connections, 1 controller, 1 block, fairness | `SetupReleased`, `SetupReopens` (a setup that is given up leaves a new public key behind) |
| `Notifications_events` | 2 clients, 2 characteristics, 2 cells, not all queues full at once (`SomeRoom`) | callbacks, `NewestIsCurrent`, coalescing, overflow (`LostByOverflowOnly`), refinement of `EventBuffer` |
| `SecureChannel_frames` | frames of 3 bytes and 2 of overhead, requests of 1 or 2 frames, 3 frames received and 5 sent in a session, answers of 1 or 2 pieces | frame numbers, order of the stream, refinement of `RequestChannel` with its liveness |
| `Encodings_inputs` | see below | what the other end reads; `StoredIsAllowed`, `GeneratedIdsAreNew` |

Three blocks are enough for a record, a removed record and an erased block in every order, and for a compaction with
a hole; with one reset and one fault every pair of a reset and a failing operation occurs, and a second reset meets
the same sector states from a start. Two connections are enough for the rules on the shared pairing context, which
relate its owner to one other client; the third one of `HomekitServer_safety` is there to be refused. A queue of two
cells overflows with events of one characteristic only and with events of both; the switch has two values, so that a
queue can hold an old and a new one, and the sensor one, since its events matter only as the others of the queue.
Three controllers and two blocks fill the table and leave one that is refused (`AddPairingMaxPeers`).

Two constraints keep the runs short, and the proofs do not have them. `IdIntact`: the properties of sessions claim
nothing once the accessory id is gone, and only a restart brings it back, with the table of `Init`. `SomeRoom`: each
queue overflows while another has room, and no step of one queue depends on what another holds.

In `SecureChannel` a read can be shorter than the overhead, end within a frame, at its end, or in the next one, and
three frames give a request of two frames before or after one of one. A session's first request is answered in plain
and the next ones encrypted, so five frames sent cover the change-over, an answer in pieces and EVENTs in between;
a session may end and another begin at any point, with all of it anew.

`Encodings_inputs` uses a buffer of seven characters with tokens of one to three, one that fills it (6) and one that
never fits (7), and TLV chunks of two bytes. Inputs are: up to 8 calls of `json.c` (which reaches a flush at every
place between nested brackets, of which `MaxDepth` allows three, with a string that is not plain among the calls), 3 ids to read out of eight characteristics and two that do not exist, with every set
of options, 2 services, 3 events, 2 elements of a write (each property relates one element to those before it), 4 TLV
items of up to five bytes (below, at and over one and two chunks), 6 characters of a query, 5 bytes and 8 characters
of Base64 (a block and the beginning or end of another), 5 objects to number with given and missing ids.

The runs expected to fail each check one statement of a comment, a log message or the README against the code;
PROJECT.json quotes the statement under "findings":

| Run | Statement refuted |
|---|---|
| `PairingStore_others` | what follows an error in compacting ("error resetting flash", "error writing compacted data"): compaction copies the records and takes the success of the reset for an error, and when the add returns the other controllers' pairings are gone |
| `HomekitServer_disconnect` | "stop disconnected client" (the flag is never read) |
| `Notifications_newest` | a reported value is the one sent (the oldest is) |
| `SecureChannel_unfinished` | "Unfinished chunk" (it is kept and never decrypted) |
| `Encodings_pairings` | a separator of size 0 is an item (it is written but not counted: a list of two pairings is two bytes short) |

The models contain further behaviours of the code that the passing properties leave out by name, and for which no run
is kept:

- storage: an update that had to compact zeroes the block it has just written and reports success (`storage.c:343`);
  a compaction erases the accessory id, so the next start resets the storage (`cpp:3356`);
- pairing: an update that makes the last admin a member leaves `server->paired` set with nobody to manage the
  accessory (`cpp:2536`; `Demoted` in `NoAdminEnablesPairing`); M5 of a controller that is recorded as a member adds a
  second record, and the controller is still found as a member (`cpp:1241`); M3 frees the public key, so that M1 of a
  retry after a wrong code is answered with an empty key (`cpp:1061`); a session keeps the permissions it was verified
  with (`cpp:1764`);
- notifications: a subscription passes whatever the permissions are (`cpp:2338`); a write stores null when the
  uninitialised bit happens to be set (`types.c:9`);
- writes: a boolean written to a number, accepted "in order to fix a bug in HomeKit", stores 0 for true as well
  (`cpp:2069`; cJSON sets no `valuedouble`); "ev" of another type unsubscribes and succeeds (`cpp:2345`); the length
  of TLVs and data is checked on their Base64 text (`cpp:2299`);
- formats: a string with a quote or a backslash, which a controller can write to a string characteristic, is sent as
  it is ("TODO: escape string", `json.c:286`), and the answers that hold it are not JSON, or are read as another string;
  a number of more than six characters is cut by `json_integer` (`json.c:268`); a string that does not fit
  the buffer is left out with its quotes (`json.c:88`); HAP statuses arrive as their lowest eight bits (`cpp:2431`);
  `tlv_parse` joins an item to one of the same type before it whose last chunk is full (`tlv.c:204`); `"&"` at the end
  of a query makes the scan run over the null character (`query_params.c:13`; the properties are about queries whose
  fields have names).

Every run checks for deadlock, the sketch, a controller or a reset being able to take another step at any time, but for the
two of `Encodings`: an input stops growing at its bound.

Fairness (`FairSpec`): `arduino_homekit_loop` is called for ever and each call runs preinit when it is due, accepts one
waiting connection and serves each client, which gives weak fairness of `LoopPreinit`, of `Accept` or `Reject` and of
`Serve` for each connection. `SecureChannel` has weak fairness of `Process` for the same reason: each call of the loop
reads from every client that has bytes to be read; `RequestChannel` asks only that a request is answered, lost or
closed in the end. Nothing is assumed of controllers, the sketch's reset or reboots.

Symmetry: controllers, connections and values are interchangeable in the safety runs; the liveness runs use none.

## Proofs

The proofs hold for every set of controllers and connections, every number of blocks and clients, every size of the
queues and frames, and every bound; none needs the constraints of the runs. They assume what the ASSUMEs of the
modules say: at least one block and one client, `NoDevice` and `NoConn` outside their sets, a finite set of
connections, frames of some size, that `Split` has the ways to cut a request or an answer into frames that are not
empty, and for `Encodings` what the types of the C structures say (`WritesAssumption`, `SymbolsAssumption`) and what
the tokens of JSON are (see `JsonProofs`). In each module but those of `Encodings`, `Inv` is an inductive invariant
that TLC has checked on the runs before; a theorem follows from it.

- `PairingBlocksProofs`: facts about the table: the first record of a device exists and is unique, the first erased
  block lies behind every record of a filled table, so that writing to it or zeroing a record keeps the table filled
  and a lookup of another device the same.
- `PairingStoreProofs`: `Inv` is `TypeOK`, `Control` (which steps go with which function, and that an update in
  progress holds the index of a record of its device while the table is clean), `RecordsBeforeErased` and
  `clean => Kept`. `Faithful` alone is not inductive: at the moment an update retires the old record the new one must
  be there, be behind it and carry the new permission, which `Kept` says. Proved: `TypeOK`, `RecordsBeforeErased`,
  `Faithful`, `UniqueRecords`, and that the table implements the list of pairings (`ImplementsPairingList`). For the
  last, `Listed(b)[n]` is the list of the first `n` blocks: writing the first erased block appends to the list of all,
  since only removed records lie before it (`AppendBehind`), and zeroing a record drops its entry (`ListedZero`). That
  `PairingList` drops the *first* entry of the device needs `Located`: the index that an update has kept from its
  search is the device's first record when the zero is written, or a compaction has erased the table in between. This
  theorem does not ask for a clean table: every failure, crash and erasure maps to a step of the list or none.
- `HomekitServerProofs`: `Inv` joins the types, `ClientCount`, `Owners` (the pairing context's owner, the steps, the
  answers a controller may go on from) and `Sessions` (`Linked`: a session's block still belongs to its controller).
  `SetupStepOwner` needs the controller's side, since the request that the handler must be ready for depends on the
  answer sent before. Proved: `TypeOK`, `ClientCount`, `SetupContextOwned`, `PairedWithoutSetup`, `SetupStepOwner`,
  `SecureSession`, `SessionPairingId` and the action properties `SetupNotTakenOver` and `NoAdminEnablesPairing`. The
  last goes through the steps that can take the last admin from the table (`LastAdminGone`): a removal, which sets
  `paired` by a new scan, an update that makes a member of the admin, which the property leaves out by name, and what
  loses the id. `Named` says that a pairings request names a controller, without which a removal might be of nobody.
- `SecureChannelProofs`: `CountersAgree`. The server counts a frame when its session is encrypted, the controller when
  it has seen an answer, so `Inv` has `Sides` (these are the same), which a broken parser could undo by running a handler
  in plain; hence `PlainStream`, that until then the bytes on the wire continue what the parser has got, whatever
  pieces they were read in. `InStep` is the first half of `Inv`. `TypeOK` needs that the run of frames which
  `client_decrypt_` opens in a buffer, and the tail it keeps, are bytes of the stream (`Rest`, `RunTyped`).
  `InOrderIfWhole` needs `Framed`, that the bytes on the wire are the tail of one frame and whole frames in their order, and
  `Ordered`, that in a whole session they begin where the parser stands; a read of exactly one frame then opens that
  frame and no other (`OneFrame`, `FrameAlone`), and a read of anything else makes the session not whole.
  `RequestsAnsweredInTurn` is the safety part of the refinement of `RequestChannel` (`InTurn`): each step of a connection
  is one of the abstract channel's or none. That no answer is sent twice, or unasked, comes from `Ordered` again: as long
  as the session is whole, bytes on the wire belong to a request that waits (`NothingLeft`), so a read that completes one
  answers the one that was asked (`StepsInTurn`); and what is closed starts anew (`ClosedIsNew`).
- `NotificationsProofs`: first what a push and a pop do to the contents of a ring, wherever its index stands
  (`PushedContents`, `PoppedContents`), with the arithmetic of the index modulo the size. `Inv` is `TypeOK`, `QueuesFilled` (a cell within `cnt` holds an event, so that a pop returns
  one), `CallbacksOfClients`, `OneCallback`, `ReportedOnce` and `NewestIsCurrent`. The loop over the callbacks is a
  recursive function of the list, as is the coalescing of events; `PushedToListed` says that each client of the list
  gets the event once, which needs `OneCallback`, and `AllReported` that the coalescing reports each characteristic
  exactly once. Proved besides: the action property `LostByOverflowOnly`, and the refinement `QueuesAreBuffers`.
- `EncodingsProofs`: for inputs of every length, where the run stops at `Bound`. An input is only known to be made of its
  symbols (`InputTyped`); the rest is induction over the recursion of each operator. `StoredIsAllowed`: an element that is
  accepted stores an allowed number (`ConvertedAllowed`), since half a double that is cut stays between whole limits
  (`TruncatedBetween`), and the other values are kept. `DecodedFits`: after each block no more is decoded than three bytes
  for each, less one for each "=" at the end of the text; a block that is not full ends the decoding. `Base64RoundTrip`:
  the text falls into its blocks of four (`FlattenFours`), each of which gives three bytes back (`BlockRoundTrip`, with
  the arithmetic of the six-bit digits), but the last. `TlvRoundTrip`: `FormatRests` places the items in the text, as far
  apart as they were said to be long (`ItemLength`), and `ItemParsed` reads one back, from its last chunk to its first:
  a full chunk joins what follows it (`FullChunk`), and the last one joins the next item exactly if the item is of whole
  chunks (`LastChunk`), which is what `Merged` says. `GeneratedIdsAreNew`: a counter is past all that was numbered
  (`Passed`), the one of services and characteristics until the next accessory, whatever ids the sketch has mixed in.
  `QueriesAreSplit`: `ParsedSteps` and `FieldsSteps` are the equations of the scan and of the definition by separators,
  `FieldsSplit` says that a field ends at the next "&", `FieldEnds` that there the scan ends a value, and `FieldIs` that
  the parameter it makes of the text between is the field's. `ScanGrows` is one field more, from the end of the query to
  its beginning: behind a "&" the scan starts with the "&" itself, finds an empty name and steps over it
  (`NothingAtSeparator`), which is why the property asks for names, and the list grows at its end, so that it is the
  fields in reverse (`ReverseGrows`) and the first found of a name is the last given (`FindIs`).
- `JsonProofs`: for every size of the buffer, every width of the tokens, every database and every number of calls, ids,
  elements, services and events. Two invariants carry it.
  *What is written can be read on* (`Reads`, kept by each call in "Every call keeps what is written readable"): at each
  point of a stream that has not failed, the chunks flushed and the buffer, joined, are the text of the calls so far, the
  state and the nesting name the brackets that a reader has open there, and whatever text continues it, the reader gets
  from its beginning to this point. Once all brackets are closed this is `StreamsAreJson`; a chunk never exceeds the
  buffer, whatever is flushed when.
  *What a sequence of calls writes* (`IsValue`: one value that a reader finds as this; `Run`: items of an array or an
  object; `Members`: members with these names): a call that writes a value does so wherever a value may stand, two runs
  one after the other are a run (`RunConcatenated`), and a bracket around a run is a value again. Every
  operator of `JsonAnswers` is such a composition, so each handler's answer is read back from the inside out:
  `ReadsAreAnswered` (every id of a read answered once and in order, with a status exactly in a 207, and a value only
  where it may be read), `ListsAreWhole` (the database is read with every service, its characteristics and their
  permissions, and an EVENT names what changed, in order), `UpdatesAreAnswered` (a refused element changes nothing, an
  accepted one only what it names, and statuses are told apart as eight bits). The proofs assume: a value is a token that
  is no punctuation, the names in an answer are no literals, and the strings in the answers need no escaping
  (`CallsAssumption`, `AnswersAssumption`), so that the reader finds the tokens that were written (`LexedPlain`); each token has
  a width and the tokens of answers fit the buffer (`WidthAssumption`; a longer string is left out, see below the runs);
  no two metadata of a characteristic have one name; different bytes are printed differently (`Decimal`).
- `Induction`: the library's induction theorems take an operator as a parameter, which the provers cannot instantiate.
  The lemmas here are about sets instead: the arguments that a statement holds for are a set, which contains all
  numbers if it contains 0 and is closed under successor (from the well-foundedness of `<`). `RecursionUpTo` gives
  a function with the recursive definition's equation at each step, and `RecursionDownFrom` one that is defined from the
  end on, as reading is, where each value depends on one further on. With them `BytesTotal` (the sum of
  a request's frames is a number), `TailsTyped`, `ListedSteps` and the two recursions of `Notifications` are proved.

Only model-checked:

- the liveness properties `SetupReleased` and `SetupReopens`, and of the refinement `AnswersRequests` that a request does
  not wait for ever, which is the fairness of its abstract specification: fairness and ENABLED are out of the prover's
  reach.

Every invariant and action property of the passing runs, the refinements of `PairingList` and `EventBuffer` and the
safety part of the one of `RequestChannel` are proved.

## Not modelled

- The advertisement and the config number: `homekit_mdns_init` hands its record to callbacks of the MDNS library, which
  is not in the repository; planned as far as the state in `cpp` goes (`paired`, config number, setup id).
- URLs: endpoints are operations; that a prefix of a URL reaches its endpoint (`cpp:2727`) is not expressed.
- The heap: allocation failures (a dropped chunk, `cpp:712`; a dropped event), the memory that queued events of a
  closed client keep (`cpp:206`), freed blocks that are still used (`cpp:3120`, `cpp:2284`). Modelling them means
  following every handler's allocations; in their place a failing write ends the client or the chip.
- Null pointers out of requests without "aid" (`cpp:2427`) or with an "id" that has no value (`cpp:1914`), the bytes
  before an empty Base64 text (`base64.c:32`), and what is overwritten when JSON nests deeper than `JSON_MAX_DEPTH`
  (`json.c:112`), which no answer does.
- `tlv_parse` of an item of size 0, which does not advance (`tlv.c:204`): it has no result to compare with.
- The accessors of `tlv.c` by type, cloning and lookups by type in `accessories.c`, getters and setters of the sketch,
  the header texts of HTTP answers, identify and `/resource`.
- FIFO queues, peeking and dropping in `cQueue.c`, which the library does not call.
- Cryptography (`crypto.c`, wolfSSL), cJSON, http_parser, `port.c`, `watchdog.c`, logging, the WiFi fork and examples.

## Plan

1. Done: pairing storage, server and protocol, notifications over the event queue, frames, encodings and writes; proofs
   of all their properties but liveness, and of the refinements of `PairingList`, `EventBuffer` and `RequestChannel`
   (the last apart from its fairness).
2. `Advertisement`: `paired`, config number and mDNS across resets; a controller whose key changed in AddPairing
   (`cpp:2526`), which sends an error and updates the pairing all the same.
3. A run for the boolean that stores 0 in a number; prefixes of URLs.
