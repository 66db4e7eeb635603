# HopDesk verification project

TLA+ models of HopDesk's own logic, the TLC runs that check them on small
instances, and proofs, checked by TLAPS, of what matters most for every
instance.  Everything is translated from the source in `src/`; where a document
or a comment says something else than the code does, the model follows the code
and section 7 says how they differ.

`PROJECT.json` holds the machine-readable side: for each definition the lines
of the source it models (`map`), the runs, a mutant of the code for each
property, the hazards, the findings and the theorems.

To check a model: `tlc -workers 2 -config Gates.cfg MCSharing.tla`.
To check proofs: `tlapm SharingProofs.tla`.

## 1. The system

HopDesk lets a person see and control another computer.  A **host** is reached
over the local network or through a **relay**; a **viewer** proves that it knows
the host's access code, or that it is on the same account, was trusted before or
holds a grant from a session that just dropped; the person at the host allows
it; then the two negotiate a WebRTC connection for the media.  Around that there
are an account server, a worker that tells an installation whether it may run at
all, a VNC client, and external viewers for other protocols.

| Part | State it keeps | Operations | Who it talks to |
|---|---|---|---|
| Guessing protection (`protocol/limiter.ts`) | a table of peers with attempts in flight, failures in a row, lockout; failures since the code was new; callers counted in windows | `begin`, `succeed`, `fail`, `resetForNewCode`; `PeerThrottle.allow` | called by the handshake; `onRotate` asks the host for a new code |
| Replay protection (`protocol/replay.ts`) | nonces seen, with their times | `check` | called by the handshake |
| Handshake (`protocol/handshake.ts`, `session.ts`) | per link: keys, role, step, attempt | `onHello`, `confirm`, `abandon`; `acceptViewer`, `connectToHost` | limiter, replay cache, grants, trust store, the person |
| Sealed channel and framing (`crypto/channel.ts`, `protocol/session.ts`, `transport/framing.ts`) | counters of both directions, bytes not yet framed, messages nobody has taken yet | `seal`, `open`, `expect`, `receive`, `close` | carries everything after the hello |
| Host role (`desktop/host.ts`) | code, authenticator, listener, sessions | `start`, `stop`, `regenerateCode`, `acceptLink`, `endSession`, `revokeTrust` | handshake, LAN listener, relay client, capture window, `main.ts` |
| Input (`desktop/host.ts`, `platform/linux/x11.ts`, `portal.ts`, `macos/cgevent.ts`) | keys held by each viewer, keycodes borrowed, the portal's bus, question and token | `key`, `releaseAll`, `openInputController`, `ask` | host role, the desktop's portal, X server or Quartz |
| Clipboard (`desktop/host.ts`, `renderer/hopdesk.js`) | the last text of each side, whether it is shared | watch, focus read, `sendClipboard`, writes | sealed link of a session |
| Capture (`desktop/main.ts`, `rtc-bridge.ts`, `renderer/peer.js`, `host-rtc.js`) | one hidden window, one stream of the screen, peer connections | `ensureHostWindow`, `attach`, `screenStream`, `switchScreen`, `close` | host role |
| Viewer role (`desktop/viewer.ts`) | target, attempt number, session, retry timer | `connect`, `disconnect`, `attemptConnect`, `onClosed` | handshake, relay client, LAN |
| Media negotiation (`transport/negotiation.ts`, `desktop/rtc-bridge.ts`) | descriptions and candidates held back, whether settled | `run`, `connected`, `dispose` | sealed link, media window |
| Relay client (`transport/relay.ts`) | socket, state, retry timer, sessions, pending requests | `connect`, `requestSession`, `closeSession`, `close`, `receive` | relay server |
| Relay server (`server/signaling.ts`, `presence.ts`) | a connection per device, sessions between two | `accept`, `connect`, `frame`, `close`, `dropBlocked` | relay clients, account store |
| Account API (`server/api.ts`, `tokens.ts`, `store.ts`) | accounts, devices, refresh tokens and their families, installations, blocks, throttles | sign-in, `refresh`, `approveDevice`, `enrolDevice`, `removeDevice`, `registerInstallation`, blocking by an administrator | account client, authorization, relay server |
| Account client (`desktop/account.ts`) | session tokens, enrolment, computers, relay client | `restore`, sign-in, sign-out, `refresh`, `list`, `connectRelay` | account API, relay server |
| Authorization (`desktop/authorization.ts`) | the last signed answer, when it was had | `register`, `status`, `accept` | account API or worker; asked by host, viewer and `main.ts` |
| Authorization worker (`auth-worker/worker.ts`) | challenges, installations, throttles, in a database | `/challenge`, `/register`, `/status`, admin | authorization |
| VNC (`core/session.ts`, `protocols/rfb.ts`) | decoder state, status, update under way, retry timer | `start`, `drain`, `requestNext`, `renderComplete`, `onDropped`, `stop` | the window showing it |
| VNC window (`renderer/app.js`, `desktop/keymap.ts`) | whose frames are painted, keys held | `resetScreen`, painting and acknowledging, `KeyTracker.down`, `up`, `releaseAll` | VNC session |
| The session under way (`desktop/main.ts`) | `active`, the history rows | `connect`, `startVnc`, `startRdp`, `startExternal`, `disconnect` | the next three |
| External viewers (`core/engines.ts`, `rdp.ts`) | child processes, their timers; a certificate looked at | `start`, `stop`, `probeRdpCertificate`, `decideRdpCertificate`, `buildRdpLaunch` | child processes |
| Saved hosts and vault (`core/connections.ts`, `credentials.ts`) | a JSON file each, its image in memory, queued writes, the key | add, update, remove, duplicate; `unlock`, `lock`, `set`, `delete` | `main.ts` |
| Known and trusted devices, settings (`trusted.ts`, `devices.ts`, `core/settings.ts`) | a JSON file each and its image in memory | remember, revoke, forget, update, `flush` | host and viewer roles |
| Discovery (`transport/mdns.ts`, `core/discovery.ts`) | sockets, networks, hosts heard of, timers | `HopdeskAnnouncer`, `findHosts`, `browseLan` | other hosts by UDP |

Cryptographic primitives, the drawing of the renderer, mDNS packet encoding,
updates, the login item and the command-line tools are not modelled;
`PROJECT.json` lists each with the reason.

### What is hard in it

Everything runs on JavaScript event loops: between two `await`s nothing
interferes, at an `await` anything may.  The awkward behaviours are therefore

* a value read before an `await` and relied on after it (an authenticator, a
  grant, trust, a certificate, a list of computers, a screen track, a
  connection that was meanwhile replaced);
* two activations of one handler side by side (two handshakes of one viewer, two
  refreshes of one token, two requests for one target, two connects, two
  settings updates);
* links that go away at any moment, so that each failure path must give back
  what it holds, and messages already framed when the handler changes;
* counters and tables at their limits, shared by everyone who connects;
* clocks: windows, graces and timers, and a clock that is set back;
* files: a write that fails, a program that is killed, a change made while an
  older one is being written;
* what an administrator or the person decides while something is under way:
  stop, revoke, block, new code, sign out, remove, lock.

### What makes each part correct

* **Guessing and replay**: an attempt is given back exactly once; a code is
  exposed to a bounded number of guesses whatever overlaps; a lockout is never
  shortened; the tables are bounded, and a hello is heard twice only if a full
  table displaced it.
* **Host sessions**: Map, links, peer connections and phases agree; nobody is let
  in whom the person never approved; what is revoked stays revoked; the window
  outlives the media in it; each handshake ends.
* **Host lifecycle**: a host that is shown as off is off; one that is on answers;
  each start undone by the stop that follows it.
* **Viewer role**: no session after `disconnect`; one session at a time; the
  retries end.
* **Relay**: at most one connection per device; both ends of a session agree; a
  blocked device has none; each request is answered once, by its own answer; a
  client that is not closed is connected or going to try.
* **Tokens**: one live token per family; a token used twice ends the family, and
  an honest client is never taken for a thief unless an answer was lost or two
  requests overlapped.
* **Authorization**: a computer known to be blocked does not run; a grace window
  does not grow; a block that is lifted ends.
* **Sealed channel, framing**: nothing is accepted twice or out of order, and
  nothing an honest link brought is lost between two handlers.
* **Negotiation**: descriptions before candidates; settled once; failure reaches
  whoever waits.
* **VNC**: one update under way; every request answered once; the picture catches
  up; retries end; keys held are released.
* **Vault and stores**: what is on disk is what was last confirmed, a password
  belongs to a connection, and trust to an address.
* **Input and clipboard**: what is down is what somebody presses; a text does not
  go back and forth; one question and one bus to the portal.
* **External viewers**: a stopped viewer ends, a failure is the last thing said.

## 2. The plan

The modules in the order in which they were written: first the way into a
computer and out of it, because that is what HopDesk is for; then what
introduces the two computers; then what connects them; then what each of them
keeps.

| | Module | Of | Status |
|---|---|---|---|
| 1 | `AttemptLimiter` | guessing protection | modelled, proved |
| 2 | `HostSessions` | host half of handshake, consent, grants, trust, sessions, capture window | modelled, proved |
| 3 | `HostLifecycle` | start and stop of the host role under all their callers | modelled, proved |
| 4 | `ViewerRole` | the viewer's attempts, drops and reconnects | modelled, proved |
| 5 | `RelayServer` | enrolment, blocking, connections and sessions at the server | modelled, proved |
| 6 | `RefreshTokens`, `SignIns`, `Throttle` | token families at both ends; what they promise; the API's throttle | modelled, proved; `RefreshTokens` implements `SignIns` |
| 7 | `RelayClient` | the connection, its retries, pending requests, sessions | modelled, proved |
| 8 | `Authorization`, `AuthWorker`, `AccountClient` | signed answers and their grace; single-use challenges; the account's computers | modelled, proved |
| 9 | `Admission` | recorded hellos, the brake on callers | modelled, proved |
| 10 | `SecureLink`, `OrderedLink` | framing, inbox, sealed channel, connecting; what it promises | modelled, proved; `SecureLink` implements `OrderedLink` |
| 11 | `Negotiation`, `SharedScreen` | media between two programs; one capture for many sessions | modelled, proved |
| 12 | `RfbClient`, `VncSession`, `VncScreen` | byte stream, update loop, window | modelled, proved |
| 13 | `ActiveSession`, `ExternalEngine`, `RdpLaunch` | the session under way, child processes, certificates | modelled, proved |
| 14 | `StoredFiles`, `Durable`, `Vault`, `Connections` | what is kept on disk; what that promises | modelled, proved; the queued file implements `Durable` |
| 15 | `InputDevice`, `InputAccess`, `SharedClipboard`, `Discovery` | keyboard, portal, clipboards, finding computers | modelled, proved |

Every safety property that a run checks is also a theorem; liveness is only
model-checked, and section 5 says why.

*Composition.* Each module is the environment of another and describes that
other as freely as the real one behaves: `HostSessions` takes the limiter's slots
as a set, `held`; `HostLifecycle` takes a handshake as one step, `ViewerRole` the
host's answer as a choice, `VncSession` the RFB client as its events,
`ActiveSession` a VNC session or a viewer process as what it reports, `Connections`
the vault as a lock.  What is checked of one therefore does not lean on what is
checked of the next.  The `MC` modules put several side by side so that one run
explores each of them; in a behaviour of such a run one part moves.  `MCSharing` and
`MCDesktop` have more parts than one run can explore: their constant `Checked` says
which parts a configuration is about, and those of the others are idle.

## 3. The modules

Common to all: an action is what the code runs between two `await`s (on the
server: a whole handler, because `node:sqlite` answers synchronously).  Names
are the source's where TLA+ allows it.  Identities - peers, links, tries,
devices - are model values; secrets, proofs, names, addresses, text shown and
logged are left out.  Variables marked *history* are read by properties only.
In each module an operator whose comment begins with *Mutant:* is a plausible
bug of the definition after it, there to show that a property can fail; it takes
no part in the specification.

**`AttemptLimiter`** (`protocol/limiter.ts`).  `record` and `tracked` are the
`peers` Map; `pending` and `sinceRotation` the counters; `attempt[h]` is the pair
of closures handshake `h` holds, with the code it was begun against.  `Begin`
and `Refuse` are `begin()` with the look-up, pruning and displacement it does
first (`Remaining`, `Touched`); `Succeed` and `Fail` are the closures, `Fail` with
rotation and the new code that `onRotate` makes the host generate; `Regenerate`
is the *New code* button; `Tick` is the clock.  A handshake that is abandoned
fails like any other.

**`Admission`** (`protocol/replay.ts`, `PeerThrottle` in `limiter.ts`).  `Check` and
`Allow` are the two methods, each with the pruning and the eviction it does;
`Passes` and `SetBack` are the clock.  `Stamp` is a viewer making a hello, with a
time of its own.

**`HostSessions`** (`host.ts` 96-375, `session.ts` 205-300, `handshake.ts`
145-265, `grants.ts`, `trusted.ts`, the capture window in `main.ts`).  `phase[l]`
is the await at which `acceptLink` stands for link `l`: the hello, hashing the code,
the confirm, the person's answer, the media window opening, loading, negotiating.
`Arrive`, `HelloRecognised`, `HelloWithCode`, `Hashed`, `Confirm`, `Allow`, `Reject`,
`OpenWindow`, `WindowReady`, `MediaConnected` go through them; `HandshakeFails`,
`HashFails`, `CreateFails` are their failures; `Leave`, `EndSession`,
`RevokeTrust`, `SwitchOff`, `BlockedCheck`, `Start`, `GrantLapses`, `TrustLapses`
may come at any of them.  `standing` is history: what the person last said of a
viewer.

**`HostLifecycle`** (`host.ts` 106-250, its callers in `main.ts`, `settings.ts`
131-163, `mdns.ts` 218-290, `tray-state.ts`).
`task[t]` is what one call of `start`, `stop`, the switch in the window, the
settings, the tray, waking up, launching or the authorization check is waiting
for.  `StartHost` runs from the test of `listener` to the announcer's socket,
`Announced` the rest; `StopHost`, `Closed`, `Hushed` are the three parts of
`stop`.  A port may be taken and a disk full, by constants.

**`ViewerRole`** (`viewer.ts`, the viewer's half of `negotiation.ts`, the buttons
of `hopdesk.js`).  `step[t]` is the await of try `t`; a try is one activation of
`attemptConnect` or `connectAccount`, made by the person or by the timer (`Fire`).
Failures end in `NotReached`, `Refused`, `PrepareFails`, `NegotiationFails`; a link
ends in `Drop`, preceded by `Bye` or not; `OnClosed` is `onClosed`.  `latest` is
`reconnectTimer`, `timers` all timers still running, which is not the same.

**`RelayServer`** (`signaling.ts`, `presence.ts`, and of `api.ts` and `store.ts` what
decides who is enrolled and blocked).  `socket[c]` distinguishes a connection
that is closing, still counted and still heard, from one that is gone.  `Arrive`
is authentication with all it replaces; `Introduce` is `connect`; `EndSession` is
`close`; `Drop` and `Gone` are the two ends of a close; `Sweep` is `dropBlocked`;
`Enrol`, `Approve`, `Remove`, `RegisterInstallation`, `Block`, `BlockAccount` and
their opposites are the requests that change a record, `Block` by the console,
which disconnects at once, or by the command line, which does not.

**`RelayClient`** (`transport/relay.ts`).  `pending` is `pendingConnects`, a call for
each target, because that is its key; `wire` and `inbox` are the two directions,
lost with the connection.  `Closed(permanent)` is the close event with the code
that says whether to retry; `Receive` is the whole of `receive()`.  A session
answered after its request timed out is carried though nobody holds its link: the
model has it, and `FramesInOrder` says of it only that nothing is lost.  `ConnectThrows`
is a first connect for which no socket can be made.

**`RefreshTokens`** (`tokens.ts`, `store.ts`, the session handlers of `api.ts`,
`account.ts`).  `row[t]` is a row of `refresh_tokens`, `stored` the token the client
keeps, `errand[c]` a call of the client at an await.  `Rotate` is one step at the
server: the used mark, its successor, and the end of the family when the mark
was there; the check that the account is blocked comes after it, as in the code.
`Loses` is an answer that never comes, `ProgramRestarts` a client that forgets what
it had not written.  `excuse` records the only things that may sign an honest
client out: overlapping refreshes, a lost answer, a restart, a block.
`revokeAccountTokens` has no caller and `Prune` runs when the server starts.
**`SignIns`** is what this promises: a sign-in begins once and never comes back.

**`Throttle`** (`Store.throttle` and the handlers that use it): a row counts before the
password is hashed, so that guesses under way at once count.

**`Authorization`** (`authorization.ts`, `checkAuthorization` in `main.ts`).  `check[c]`
is a check between sending, the service's decision, and the answer; `cached` the
answer in force, with when it was decided and received; `skew` the error of the
clock, `file` and `kept` what a restart finds.  `accept()` keeps the answer that
came last; `heard` and `mishap` record whether one decided earlier can have come
after one decided later.  **`AuthWorker`** (`worker.ts`) has other requests between any
two of its statements: of a request for a challenge (`IssueChallenge`), to register
(`SelectChallenge`, `DeleteChallenge`, `SaveInstallation`) or to verify (`Decide`), each
of which passes the throttle first, whose row is read and written apart (`ReadCount`,
`Count`).  `came` is the `now` a request takes on arrival, before it awaits anything.
`crowd` is history: how many stood in the throttle at once in this window, each of them
worth one attempt too many (`AllowedPerWindow`).

**`AccountClient`** (`account.ts`).  `known` is `computers`; `Listed` is the server
answering a list, `TakeList` the client taking it, between which announcements
(`Presence`) and `SignOut` may come.  `relays` counts clients not closed.

**`SecureLink`** (`framing.ts`, `session.ts`, `channel.ts`, `connectToHost`).  A frame is
a header and a body, a chunk any run of them: `Chunk(k)`.  `Runs` is one turn of
what handles it: a frame to the inbox, to whoever waits, to the channel;
`Return` and `Answer` are promises continued after it, the point at which a message
already framed finds the next handler or nobody.  `Meddle` forges, drops or repeats
a frame on the way.  **`OrderedLink`** is what the session relies on.

**`Negotiation`** (`negotiation.ts`, `rtc-bridge.ts`, `peer.js`).  Per side `body` is
`run()` and `handling` what its message handler awaits; `Gather`, `Add` and the flush
of held candidates are separate, because the renderer answers each by itself.  After a
failure the host closes the channel and the viewer leaves it open (`Closes`).  `bad` sides
send descriptions the other must refuse.  **`SharedScreen`** (`host-rtc.js`,
`peer.js`): `at[s]` is where `answer()` of a session stands, `change[x]` where one
`switchScreen()`.

**`RfbClient`** (`protocols/rfb.ts`): a message is a sequence of pieces, `Data` is a
chunk, with whatever pieces it holds, `Read` a turn of `drain()`, from the version on
through security, init and updates by rectangle.  `sent` is the history of what the
server said and of where each message ends.  The server keeps to the protocol
(`ServerAssumption`): an update has the rectangles it announces, up to one the client
cannot read, and every other message is one the client knows, or junk it rejects.
Pixels, DES and the texts of the clipboard are left out.  **`VncSession`**
(`core/session.ts`): the retry timer, the loop that keeps one request in flight and
the window's acknowledgements; the picture is two areas.  `ProbeDue` tells a probe that
was done with before the next is due from one that was not ("late"): then nothing but
probes may be asked for, and `ScreenCatchesUp` excepts it.  **`VncScreen`**
(`main.ts`, `app.js`, `keymap.ts`): both directions of messages with their delays,
none of which says which session it is of.

**`ActiveSession`** (`main.ts` 1116-1389): `phase[c]` is the await of a connect call,
`life[c]` its session, `row[c]` its line in the history.  **`ExternalEngine`**
(`engines.ts`): the child, its signals and four timers.  **`RdpLaunch`** (`rdp.ts`):
`ConnectRdp` to `SessionStarts` through the probe and the person's answer, against a
server that may change its certificate at any moment, or speak legacy RDP security,
which has none (`NoCert`); the arguments are computed
by `Arguments` and `Warnings` from the options and what this FreeRDP can do.

**`StoredFiles`** has the two ways in which files are written.  One is queued (the
`persist()` of `connections.ts`, `devices.ts`, `trusted.ts`, `credentials.ts`): each
write serialises the data as it is when its turn comes, and **`Durable`** is its
promise.  That of the settings (`settings.ts`) has no such queue.
**`Vault`** (`credentials.ts`) and **`Connections`** (`connections.ts` with its callers in
`main.ts`, and what two computers remember of each other in `trusted.ts` and
`devices.ts`) say what is decided on and when it is written.

**`InputDevice`** (`host.ts` `handleInput`, `x11.ts`, `portal.ts`, `cgevent.ts`): `pool` are
borrowed keycodes, `unread` presses an application has not looked up yet, however long
it takes; `GiveBack` is the 250 ms after which a keycode goes back all the same.
**`InputAccess`** (`main.ts` `hostInput`, `prepareInput`; `portal.ts`; `portal-token.ts`):
`question` is what an opening awaits.  **`SharedClipboard`** (`host.ts`, `hopdesk.js`):
reads and writes of both clipboards take time, and the host's watch reads every second
whether or not the last read has answered (`reading`).  `fromHost[v]` says that the last text a
viewer knows came from the host: only such a text must not be sent back.  A text that
comes while the viewer shares nothing is remembered though it is not written
(`hopdesk.js:1081`, `main.ts:1790`), and what the viewer had before may then be sent
although it came from the host once.  **`Discovery`** (`mdns.ts`,
`discovery.ts`): `toLeave` are queries handed to Node that have not left, and may go
by the interface set after them.

## 4. The runs

Where several properties belong to one component, the configuration names their
conjunction, which the module defines; the parts keep names and comments of their
own, and each part has a mutant that breaks it alone.

| Run | Instance | Distinct states | Checks |
|---|---|---|---|
| `Gates` | limiter: 2 peers, 3 handshakes, `RotateAfter` 3, 2 new codes, 2 ticks; relay: 2 devices, 2 accounts, 3 connections, 2 sessions | 590 k | `CountersMatchAttempts`: no slot leaks; `GuessBudget`: no code meets more than `RotateAfter + MaxPending - 1` guesses; `LockoutsStand`; `OpenIsRightful`: the open connection is the one a device is reached by and belongs where it is enrolled; `SessionsJoinDevices` of one account |
| `HostSessions` | 2 links, one of the LAN, of 2 viewers | 903 k | `SessionsStand`: Map, links, phases and media agree, attempts come back, the window outlives the media; `NoStrangers`; `RevokedStaysRevoked`; `HandshakesEnd` |
| `Roles` | host: 2 overlapping calls, 2 announcers, 2 codes; viewer: 2 tries, 1 reconnect in a row; relay: 2 devices, 1 account, 2 connections | 266 k | `ShownIsSo`: an open listener can answer and the announcement is real; `ReconnectingMeansScheduled`; `DeliberateIsFinal`: a session its host ended is not resumed; `RolesSettle`: a host that may listen does, a blocked one stops, a try ends, a block cuts off |
| `Accounts` | 2 overlapping calls, 3 tokens; 4 guesses, window of 2; relay client: 2 calls for 2 targets, 2 sockets | 267 k | `AccountsHold`: one live token per sign-in, a family revoked together, an honest client stays signed in, guesses per window; `RelayClientHolds`: it goes on trying, requests end, nothing outlives the connection, frames in order; `SignInsAreSessions` |
| `Authorization` | 2 checks, clocks wrong by 1 or 2, one block; 3 requests, of which a window allows 2, 1 nonce, 2 hours; 2 calls, 2 sign-ins | 512 k | `AuthorizationHolds`: the grace is bounded, a block heard holds; `WorkerHolds`: answers are current, blocks survive, a spent nonce is spent, a window lets through one more at most for each request in the throttle at once; `RelaysAreHeld`; `NewsArrives` |
| `Link` | 3 messages, 2 meddlings, chunks up to 4; 1 candidate a side; 2 sessions, 1 switch, 3 tracks; timers of 2; 1 host, 2 networks, 2 searches | 113 k | `LinkHolds`: nothing swallowed between two handlers, tampering is fatal; `LinkIsOrdered`; `MediaHolds`: candidates held until described and given once, insecure ones refused, one screen; `SwitchFreezesNobody`; `ToldIsTrue`: what a viewer process reports; `FoundIsTrue`; `EveryWaitEnds` |
| `Active` | 3 connects to 2 computers; 3 certificates and none; 2 screens, 2 keys | 2387 k | `ActiveHolds`: a running session is held, rows are closed, sessions counted, what is shown is true; `RdpHolds`: nobody unvouched for, a change is asked about, the plan is honest; `WindowHolds`: whose picture, frames keep flowing, no key left down |
| `Vnc` | 6 messages of every kind, 3 attempts, 2 changes of the screen, 1 repaint | 710 k | `StreamHolds`: nothing left waiting, one answer per request; `VncHolds`: the loop is alive, one update under way, nothing forgotten, single retries; `VncSettles` |
| `Stores` | 3 versions, queue of 2; vault of 2 secrets with 2 calls; 2 connections with 2 calls; one pair of computers, 4 days; 2 viewers, 3 openings; 2 overlapping updates | 177 k | `FilesHold`, `FileIsDurable`, `PasswordsAreKept`, `AccessHolds`, `StoresSettle` |
| `Sharing` | 2 viewers, 2 borrowed keycodes; 2 clipboards beside the host's, 2 copies, 2 reads at once; table of 2 for 3 nonces; 3 peers in a table for 2 | 1403 k | `SharingHolds`: nothing stuck, borrowed codes known, typed as pressed, Shift held, no echo; `TablesHold`: a replay was displaced, tries per window, no record in use dropped, the table bounded |
| `HostRevoke`, `HostStop` | 2 links of one viewer | to the counterexample | section 7 |

*Why the bounds are enough.*  Each is the least at which the thing to be feared
can happen.  Two handshakes of one peer overlap and a third comes from another,
so `maxPending`, `maxPendingPerPeer` and rotation all bite; a full table needs one
peer, or nonce, more than it holds, and `MaxPending < MaxPeers`, as in the code (3 and
1024).  Two links are enough for everything that goes through the Map, the capture
window or the grant of an earlier session: each interferes with one other at a time,
and a link that resumes presents the grant of the other.  Two calls are enough for
a start to be overtaken by a stop, a refresh by a refresh, an update by an update; a
third connect call is what it takes for the first, to the same computer, to be
mistaken for the second while another one is shown.  A third connection is what it
takes for one to be replaced while another is closing.  A third request is what it
takes for two to stand in the throttle of the worker while the window is full.
`MaxAttempt` is 1 instead of 5, `MaxAttempts` 3: the last one is then reached, which is the boundary.  Chunks of up
to four pieces reach from the middle of one frame over a whole one into a third, and
three messages allow one to be handled, one queued and one in pieces.  Two versions of
a file are enough for an old one to overwrite a new one, the third shows that the
queue goes on.  Three timers' worth of ticks let each of two race the other.
That the results do not depend on these numbers is what the proofs are for.

*One machine* is all `Link` lets `Discovery` have: with two it has 1.5 million states
and holds just the same, but the run would take too long to be repeated.

*Constraint.*  `NotRaced` in `Sharing` explores no step from a state in which two reads or
writes of the clipboards have raced: `NoEcho` excepts these, so nothing that follows
could violate it.

*Symmetry* is used in the runs of safety properties only (`Gates`, `Accounts`, `Active`,
`Sharing`), over names nothing orders; `Sharing` gives viewers and texts the names of
other parts, of which one moves at a time.  `Accounts` has a refinement as a property:
`SignIns` is a safety property of one step at a time, and token numbers, which it
speaks of, are not in the symmetry set.

*Deadlock* is checked in `Gates` and `HostSessions`.  Elsewhere each try, call or budget is
used up, and the system then really has nothing to do.

*Fairness.*  What the code waits for and has a timer for, happens or times out (weak);
what a timer does again and again and needs another thing to be there, is done
infinitely often if it can be (strong).

* `HostSessions`: hashing ends; the handshake's failures and the person's refusal happen
  if nothing else does, because the waits for the viewer's messages have timers of
  15 s and the consent prompt one of 60 s.  Nothing says that a viewer confirms, that a
  person agrees or that media connects.
* `Roles`: writes and sockets of the computer itself answer (weak), the authorization
  check, which runs on a timer, is made again and again (strong: a call of it needs a
  free task, of which a run has two); each await of a try has a timer or an answer,
  and a timer that is set fires; the relay's sweep is a `setInterval` of 30 s, and the
  WebSocket library ends a close the other side does not answer.
* `Authorization`: the checks and the poll come round for ever on their timers; a request
  that is made again and again gets through now and then (strong) - without that a
  computer that is never online would have to learn of its block.
* `Link`: a turn that has begun runs on; timers go off; a viewer process obeys a signal it
  is not deaf to.  That the other side says anything is not assumed.
* `Vnc`: what has been received is read; promises continue, the retry and render timers
  go off; the server answers requests as long as it is connected.  That the window
  paints is not assumed.
* `Stores`: the person goes on clicking, a host answers now and then, both programs live
  long enough to write once (strong, for `OneClickHeals`); the session bus answers a call,
  and the desktop's question is answered or runs into its timer (weak).

## 5. The proofs

TLAPS checks these for every value of the constants that satisfies the assumption
named.  Each is of the form `Init => IInv`, `IInv /\ [Next]_vars => IInv'`,
`IInv => property`; the step has a lemma for each action or group of actions.  Where
the theorem is about an `MC` module, each part has an inductive invariant of its own,
and a step of one part leaves the variables of the others alone; the bounds of the
runs are constants there, of any value.

| Module | Theorems | From | Inductive invariant |
|---|---|---|---|
| `SharingProofs` | `TypeCorrect`, `SlotsNeverLeak`, `RecordsOutliveAttempts`, `GuessesAreBounded`, `TableStaysBounded`, `LockoutsAreServed` | `LimiterAssumption`: finitely many handshakes, `MaxPending < MaxPeers` | `Accounting` (types, both counters equal to what is in flight, a record for each attempt), `CapRespected`, `CodesInOrder`, `CurrentCounted`, `ReplacedWithinBudget` |
| | `NobodySpoilsForOthers` | `DeviceAssumption`: keysyms, keycodes and the pointer have different names; `ClipboardAssumption` | `BooksAreTrue`, `BorrowedOnce`, `BorrowedIsKnown`, `TypedAsPressed`, `ModifiersAreKnown`, `DownIsWanted`, `AtTheEnd`; `HostTracks`, `ViewerTracks` until a race |
| | `TablesForgetInOrder` | also `AdmissionAssumption`: room for one nonce | also `HellosAreKnown`, `Braked` until the clock is set back |
| `DesktopProofs` | `SessionsAreHeld` | `ActiveAssumption` | `CallsProceed`, `OverlapsAreNoted`, `EverySessionIsHeld`, `RowsAreClosed`, `CountedOnce`, `ShownIsTrue` |
| | `LaunchesAreHonest` | `LaunchAssumption` | `OnlyApproved`, `SessionIsVouchedFor`, `ChangeIsAskedAbout` |
| | `WindowIsTrue` | `ScreenAssumption`: finitely many letters, markers that are not screens or keys | `QueueIsTheirs`, `FrameIsSafe`, `NothingHeld`, `KeysAreTracked`, `UpIsUp` |
| | `VncSessionIsAlive` | `VncAssumption` | `RetriesAreOne`, `PaceIsKept`, `NothingIsForgotten` |
| | `StreamIsReadToItsEnd` | `ServerAssumption`: the server's messages are well formed up to one the client cannot read | `InTurn`, `Whole`, `UnderWay`, `MessagesAreKnown`, `RestIsMissing`, `AnswersAreOwed` until the client is closed |
| `HostSessionsProofs` | `TypeCorrect`, `SessionsStayTogether`, `WindowStaysForMedia`, `AttemptsReturned`, `SessionsStayUp`, `StrangersStayOut`, `RevokedForGood` | `SessionsAssumption`, `HelloAssumption`: the markers for nothing are nothing | `TypeOK`, `LinkInv`, `WindowOutlivesMedia`, `ApprovalInv` |
| `RolesProofs` | `LifecycleTypes`, `OpenMeansAnswering`, `AnnouncementIsTrue`, `ShownStaysSo` | `LifecycleAssumption` | `LifecycleTypeOK`, `ListenerCanAnswer`, `AnnouncedForReal` |
| | `ViewerTypes`, `ReconnectingIsScheduled`, `EndedStaysEnded` | `ViewerAssumption` | `ViewerTypeOK`, `ReconnectingMeansScheduled`, `HeardBye` |
| | `RelayTypeCorrect`, `OpenStaysOnline`, `OpenStaysEnrolled`, `OpenStaysRightful`, `OneAccountPerSession` | `RelayServerAssumption` | `RelayTypeOK`, `OnlineIsThere`, `CountedHasDevice`, `OpenIsOnline`, `OpenIsEnrolled`, `SessionsJoinDevices` |
| `AccountProofs` | `OneTokenWorks`, `RevokedAreAll`, `EndedSignInsStayEnded` | `TokensAssumption` | `RowsOK`, `OneTokenPerSignIn`, `RevokedTogether` |
| | `BooksAreKept` | also `ThrottleAssumption` | also `Honest`, while nothing excuses the client; `Chained`, `WindowsHold` |
| | `RelayKeepsPromises` | `RelayClientAssumption` | `DialInv`, `MessagesOK`, `RequestsEnd` with `NobodyWaits`, `LinksInv` |
| `AuthorizationProofs` | `PermissionIsGiven` | `AuthorizationAssumption` | `AuthTypes`, `AllSaid`, `BlockIsKnown` where no two checks overlap |
| | `AnswersStand` | `WorkerAssumption` | `RecordStands`, `NowCounts`, `AnswersAreCurrent`, `SpentIsGone`, `CountsAreBounded`, for `WorkerSpec`, of which the run is a part |
| | `RelaysAreClosed` | - | `RelaysAreHeld` |
| `StoresProofs` | `LastQueuedWins`, `PromiseIsKept` | `FileAssumption` | `WithinBounds`, `Between`, `QuietMeansSaved` |
| | `WrittenIsLastSaid` | also `SettingsAssumption`, `PairingAssumption` (of `Connections`) | also `TmpIsItsOwn` and `OneAtATime` until updates overlap; `BackUnwritten` |
| | `PasswordsStay` | `VaultAssumption`, `ConnectionsAssumption` | `QueueOfSaves`, `MadeOnce` and `PromisesHeld` until the slip; `CallsFollow`, `NoOrphans`, `SecretsFollow`, `TrustFollowsAddress` |
| | `AccessIsHeldOnce` | `AccessAssumption` | `AskedOnce`, `BusIsHeld`, `TokensAreGood`, `Told` |
| `LinkProofs` | `LinkKeepsPromises`, `LinkOrders` | `SecureLinkAssumption` | `LinkShape`, `LinkOrder`, `Watched`, `Straight` |
| | `MediaKeepsPromises`, `SwitchesFreezeNobody` | `NegotiationAssumption`, `ScreenAssumption` | `DescribedFirst`, `CandidatesInTurn`; `OneScreen`, `OneAsks`, `OnlyReadySend`, `SendsAnew` |
| | `FoundCanBeReached`, `WhatIsToldIsTrue` | `DiscoveryAssumption`, `EngineAssumption` | `DiscoveryInv`, `EngineInv` |

Why more than the property is needed:

* `SessionsHoldTogether` says nothing of links that are not in a session, and a
  peer connection made for one that has ended would break it a step later:
  `LinkInv` says which links may have one at all, and which may be closed.
* `NoStrangers` looks at sessions; a stranger could get in with trust, with a
  grant, or with a challenge answered on the strength of either.  `ApprovalInv`
  says that each of the three has an approval behind it, and that approval is
  never forgotten - revoking turns it into something else.
* `DeliberateIsFinal` needs `HeardBye`: while the session that runs has been told
  `bye`, `endedByPeer` is set, although each close and each disconnect clears it.
* That an open connection belongs where its device is enrolled holds because
  whatever takes the enrolment away closes *the connection in `online`*, so it needs
  `OpenIsOnline`; that needs `OnlineIsThere`, or a late report of a close could take
  the new connection's entry away.
* `GuessBudget` speaks of all codes, the counter only of the one in force:
  `CurrentCounted` ties that one to the counter, and when it is replaced what it
  has met plus what is still in flight, at most `MaxPending` by `CapRespected`,
  becomes `ReplacedWithinBudget`.
* A sign-in has one working token because only a working one is exchanged, and it
  is spent in the same step.  That a revoked family stays revoked needs to know that
  the token exchanged was not revoked, *and so no other of its family was*, before
  the successor joins it: neither of the two invariants is inductive without the
  other.  The refinement follows from them: a family lives while one row of it
  works, no step makes a row work again, and a new family begins with an id that
  `begun` has not had.
* A file is whole because only what `Between` calls whole is renamed; that it never
  gets older, because what is being written was memory's when its turn came and lies
  between the file and memory since.  With no write behind it, it is memory's still,
  which is what makes `QuietMeansSaved` inductive.

* What an honest client holds must be good before `HonestClientStaysIn` can say that it
  is not signed out: `Honest` says it of what each call and the disk hold, that no two
  calls hold one token, and that this lasts as long as nothing is lost or revoked.
* `GuessesPerWindow` counts in every window, the row only since it began: `Chained` splits
  the guesses let through since the last right one into those of the row and those a
  whole window older, and no window sees both.
* The promises of `RelayClient` come from numbers: per session, the frames handed over,
  those kept for a handler and those under way are consecutive, and one introduction is
  under way at most, without which a repeated one would begin a link anew.
* `AnswersAreCurrent` speaks of an answer already given; `NowCounts` keeps what is true at
  this moment among what each request may still answer, for every request under way.
* A block holds through a restart only if it is in memory, on disk *and* in every answer
  that has not been taken yet: `BlockIsKnown`, which two overlapping checks do break, as
  the property allows.
* A saved password is in none of the places all the time: `PromisesHeld` follows it from
  the vault in memory into the text of the write that is queued, and from there to the
  file.  `MadeOnce` keeps a second vault from being made beside the first.
* `NoOrphans` and `SecretsFollow` need to know what the calls under way will still do:
  `CallsFollow`.
* That a forged frame ends the link is about a frame that may be in the stream, in
  pieces in the buffer, or queued: `Watched` says that until the link closes the frames
  follow one another, and somewhere among them is the forged one.  `Straight` says of an
  honest link that what is left of the stream continues what was opened, so that nothing
  is swallowed between the two handlers.  `LinkOrder` is what the refinement rests on:
  a sealed frame that was not meddled with carries a number that has been spoken, and what
  is queued is increasing above what was delivered.
* Each candidate is applied once because each is in one place: gathered, on its way, held
  back or applied, in the order it was gathered (`CandidatesInTurn`).
* A hello that was heard is in the table, was displaced by newer ones, or is too old to
  pass the clock: `HellosAreKnown`.  Pruning keeps it so because it drops nothing younger
  than two windows, and what passes is at most one window old by its own time.  That
  there is an oldest entry to keep is the least-number principle, which is proved from
  the well-foundedness of the strict subsets of finite sets (`LeastNatural`).
* `TriesPerWindow` compares any two tries; the table has one count and one end for each
  caller.  `Braked` says when the window of that count began, how many tries fell in it,
  and that all but the last `PerWindow` before it are a whole window older.
* A key is up when nobody presses it only because what is down stands for a keysym that
  somebody presses (`DownIsWanted`), which on X11 needs to know that a borrowed keycode
  still has the keysym it was borrowed for (`BorrowedOnce`, `BorrowedIsKnown`).
* A text does not go back because each side remembers what it was last given from before
  the write until something else is copied there: `HostTracks`, `ViewerTracks`.
* `EverySessionIsHeld` excuses connects that overlap at an await, so the proof has to know
  of every one of them in time: `OverlapsAreNoted` says so of whoever waits beside an
  active session or another call, `CallsProceed` ties a session to where its call stands.
* The frame that is awaited is on its way with nothing behind it that would empty the
  queue, or in the queue of its own screen, or acknowledged (`FrameIsSafe`): a screen
  that is shown or over in between would lose it, and with it every later frame.  Keys are
  released because what is down is what `held` and the messages under way make of it
  (`KeysAreTracked`).
* The update loop neither stops nor doubles because requests, answers and the timers of
  painted pictures are together at most one more than the repaints that were asked for,
  and one of them or an acknowledgement is always to come (`PaceIsKept`); what the viewer
  has not seen is in one of the places `NothingIsForgotten` lists.
* That no message is left waiting is about where two sides believe it ends.  `Whole` says
  that what was not consumed is, piece by piece, what is left of the messages.  `UnderWay`
  says where the reader is: outside of an update a message begins there (without it a read
  would take a header from the middle), inside of one its rectangles go on, and what is
  pending and left agrees with what the server still has to say.  `RestIsMissing` is what
  a read that found too little leaves behind: the message it waits for has not arrived
  whole.  `AnswersAreOwed` counts requests and updates under way, one exactly while their
  owner waits; a report of an update with layout alone would make it two.

The three refinements - `RefreshTokens` of `SignIns`, the queued file of `Durable`,
`SecureLink` of `OrderedLink` - are proved step by step: each action of the module is an
action of the abstract one, under the mapping, or changes nothing it can see.

Two attempts at a proof failed for a good reason and changed a model.  The arms of `Decide`
in `RdpLaunch` overlapped where the code's tests are in order (`rdp.ts:479-495`), which
left the choice open to `CASE`.  And `NoEcho` was false for three copies, one more than its
run has: a text the viewer had from the host counted as the last that came even after
another had come while nothing was shared.

*Only model-checked*: liveness (`HandshakesEnd`, `RolesSettle`, `NewsArrives`,
`EveryWaitEnds`, `VncSettles`, `StoresSettle`), since fairness and `ENABLED` are beyond the
installed prover.  Where a message ends in the stream was a fold over all before it, and
what a fold computes for every sequence takes induction, which is out of its reach as
well; `sent` therefore records each end when the message is sent.
No module declares a `RECURSIVE` operator.

## 6. What is not modelled

`PROJECT.json` gives the reason for each part.  In short:

* what cryptography computes (SPAKE2, signatures, AES, DES): ideal throughout - a
  viewer either has the secret or has not, a sealed frame either was sealed or not;
* what has no state to get wrong: packet encoding of mDNS, pixel formats, geometry of
  the pointer, calls into X11, Quartz and D-Bus beyond what they answer, lists and
  dialogs of the window, the update check, the login item, the command-line tools;
* within modelled parts: heartbeats and presence messages at the relay server (presence
  at the client is in `AccountClient`), administration pages, the clipboard over RFB
  (`rfb.ts:681-774`), the key ring process, vaults of an older format, the LAN listener's
  limit of sixteen connections, input messages queued before the media is up, dropped
  media frames;
* a client of the relay server is any client: it sends what it likes, when it likes.
  A relay that cheats on a link is `Meddle` in `SecureLink`.

Boundaries of single modules that a reader should know: `Discovery` leaves out an SRV
record that does not parse, and searches do not read goodbyes, as in the code;
`ActiveSession` knows that `clearHistory` and `recordEnd('connected')` have no callers;
in `Vault`, a `set()` or `delete()` that throws before it changes anything is not a step.

## 7. Disagreements found

Met while translating the code.  The first two have runs, `HostRevoke` and `HostStop`,
and stand in `PROJECT.json` as findings.  The others are each stated as a definition at the end
of the module named; putting it into the configuration as an INVARIANT (or PROPERTY,
where it is temporal) gives the counterexample.

| Definition | The repository says | The code does |
|---|---|---|
| `HostSessions.RevokedDevicesAreOut` | `docs/ARCHITECTURE.md:132`: revoking trust ends any session the device has open | trust is asked when the hello arrives; a handshake challenged by then is let in, unasked, after the revocation |
| `HostSessions.StoppedMeansNobody` | `main.ts:844`: stopping ends the sessions it is carrying | `acceptLink` keeps the authenticator it read (`host.ts:277`): a relayed handshake, or one that waits for the person, is admitted after `stop()`, and the switch no longer reaches it |
| `HostLifecycle.OfflineMeansUnreachable` | `tray-state.ts:6`: offline is when nobody can connect | the authenticator is set before `listen()` (`host.ts:185`) and stays when that fails: the relay still gets in |
| `ViewerRole.DisconnectStopsIt` | `README.md:255`: *Disconnect* stops the reconnecting | it clears the timer (`viewer.ts:363`); an attempt the timer already made goes on to a session |
| `ViewerRole.ComesBackOrEnds` | `README.md:117`: a dropped connection comes back by itself | a reconnect that fails before its handshake (`viewer.ts:345`) is not repeated, and the window goes on saying that it looks |
| `AccountClient.ReconnectsOnItsOwn` | `docs/ARCHITECTURE.md:304`, `main.ts:969`: a signed-in computer reconnects by itself after a start | when the first list fails, `restore()` neither connects the relay nor polls |
| `AuthWorker.NonceIsSingleUse` | `worker.ts:184`: a nonce cannot be tried twice with different claims | it is selected and deleted in two awaited statements: two requests at once use the same |
| `SharedScreen.EndFreezesNobody` | `host-rtc.js:78`: only once nobody is sending a track is it stopped | the end of one session (`peer.js:203`) can stop the track another has been given |
| `ActiveSession.OneSession` | `main.ts:1120`: never two sessions at once | two connects that overlap at an await both start |
| `RdpLaunch.OnceIsEnough` | `main.ts:199`: certificates trusted for this session only | a certificate saved earlier takes precedence (`main.ts:1275`), so one that replaced it and was trusted for the session is asked about each time |
| `Vault.VaultNeverLost` | `credentials.ts:214`: no crash or overlapping save leaves a vault that loses everything | a lock between a change and its turn in the queue makes the write serialise no vault at all |
| `StoredFiles.SettledIsSaved` | `settings.ts:160`: an update that resolved has been saved | two updates share one temporary file: one renames what the other is filling, whose own rename then fails |
| `InputAccess.FailedGivesUpTheBus` | `portal.ts:393`: a refused or failed request does not leave the bus open | `PortalBus.connect()` is outside the `try` (`portal.ts:334`) |
| `InputDevice.ReleasedIsUp` | what was pressed is released | the keysym is derived anew (`host.ts:531`) from the character that the release message carries |
| `VncSession.ConnectedHasClient` | `session.ts:12`: connected is the state of a session that shows a screen | a failure between `connect()` and the continuation of its promise (`session.ts:211`) is handled first; the continuation then says *connected*, with no client, and begins the count of attempts anew |
| `VncScreen.ReleaseIsTheSame` | `keymap.ts:50`: the release sends the same keysym as the press | a key that repeats with another Shift state is remembered as the second one only |
| `SharedClipboard.SentMeansSent` | `README.md:99`: *Send clipboard* copies it; `hopdesk.js:1052` says so | a text sent once, to whichever session, is not sent again, and one that was dropped counts as sent |
| `Discovery.AskedEverywhere` | `mdns.ts:355`: a query per interface, so that each network is reached | Node hands the datagrams to the system after the loop, when the interface set last applies to all |
| `Discovery.NothingThrown` | - | a second query finds the socket its failed search has closed (`discovery.ts:75`) |

Seen in the models, without a definition of their own:

* the grant of a session that was ended while the same viewer's next link stood
  between challenge and confirm still resumes (`host.ts:236` says that it must ask
  again);
* a host that leaves while the viewer sets up media is reconnected to
  (`README.md:118`: it is not), because `bye` is looked for only afterwards;
* a code can meet more than `rotateAfter` guesses (`limiter.ts:23`), by those in
  flight when it is replaced; `GuessBudget` is the bound there is, and it is proved;
  stopping and starting keeps the code and begins a new count of its failures;
* a session that ends while its peer connection is being created leaves the hidden
  capture window open (`main.ts:295`);
* a settings write that fails leaves the switch shown off and the listener open;
  quitting waits neither for `trusted.json` nor for the settings;
* a second request for a computer overwrites the first one's entry
  (`relay.ts:284`), which then times out though it was answered;
* a list fetched during a sign-out brings the computers back; an installation whose
  token the service does not know is told so for ever;
* `stop()` of a viewer process during the awaits of `start()` is forgotten
  (`engines.ts:167`), and `running` may follow `failed` when the spawn fails;
* deleting a connection while the vault is locked leaves its password behind;
* trust in a certificate for the session is not cleared when the address changes, though
  `connections.ts:276` says so of trust;
* two requests for the screen at once leave a track nobody stops;
* one viewer's release may lift a key another one holds, and nothing is released while
  macOS refuses input;
* the clipboard watch goes on when sharing is switched off (`host.ts:503`), one viewer's
  text is not passed on to another, a failed write makes the old text go back, and a
  read answered after a later one sends the older text last (`host.ts:504` waits for none);
* a relay client whose first socket cannot be made is never retried (`relay.ts:102`),
  unlike one whose connection is refused;
* a viewer whose negotiation fails leaves its control link open (`viewer.ts:280`), and
  ends only its peer connection;
* a server that takes longer than 5 s over a probe is asked for nothing but probes of one
  corner from then on (`session.ts:288`), and the picture stands still;
* the vault locked while a passphrase is tried has its key afterwards and no vault
  (`credentials.ts:127`): it calls itself unlocked, and `set()` throws a `TypeError`;
* two switches of the screen at once may take the capture from under an answer or each
  other, which ends in a `TypeError` (`host-rtc.js:30`);
* a session of legacy RDP security has no certificate, and nothing is asked about it
  (`rdp.ts:482`), although one may be remembered;
* nonces are evicted from a full cache inside their window, and a clock that goes
  forward and back opens it for replays.

## 8. Reading and running

`RelayServer.tla` and `AttemptLimiter.tla` are the easiest to begin with; each module's
head comment says what its actions stand for.  To read a composed run, begin with the
modules its `MC` module extends.  To check a model: `tlc -workers 2 -config Link.cfg
MCLink.tla`.  `Gates.cfg` and `Sharing.cfg` go with `MCSharing.tla`, `Active.cfg` and `Vnc.cfg`
with `MCDesktop.tla`, `HostSessions.cfg`, `HostRevoke.cfg` and `HostStop.cfg` with
`HostSessions.tla` itself.  To check proofs: `tlapm SharingProofs.tla`; `LinkProofs` takes
some six minutes, the others less.  With two workers each run takes between one and three
minutes.
