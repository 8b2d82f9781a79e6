# ssh-chat in TLA+

Specifications of [ssh-chat](https://github.com/shazow/ssh-chat), an SSH server
that is a chat room, with the TLC models that check them and the TLAPS proofs
about them. Source positions are given as `file:line` in this repository.

## 1. The system

### Components

| component | state | operations |
|---|---|---|
| Room (`chat/room.go`) | `Members`, `history`, `broadcast` channel (10 places), per member `IsOp` and `isMuted` | `HandleMsg`, `Serve`, `Send`, `Join`, `Leave`, `Rename`, `Member`, `IsOp`, `Close` |
| User (`chat/message/user.go`) | identity, `msg` channel (5 places), `done`, `closeOnce`, `Quiet`, `Ignored`, `Focused`, `replyTo`, away state, theme | `Send`, `Consume`, `Close`, `SetID`, setters |
| Set (`set/`) | a map from lower-cased names to items that may expire, one RWMutex | `Get`, `In`, `Add`, `Set`, `Remove`, `Replace`, `Each`, `ListPrefix`, `Clear` |
| History (`chat/message/history.go`) | a ring of the last 20 messages, RWMutex | `Add`, `Get`, `SetOutput` |
| Commands (`chat/command.go`, `host.go`) | none of their own | one handler per `/command` |
| Host (`host.go`) | the message of the day, a counter of guests | `Connect` |
| Auth (`auth.go`) | sets of bans, operators and allowed keys, settings | the checks of a handshake, `Op`, `Ban*`, `Allowlist*`, reloading |
| Terminal session (`sshd/net.go`, `sshd/terminal.go`) | per connection a read deadline, the channels and requests of the client, `ready`, `done`, `env`, `term`, three goroutines | `Serve`, `handleConn`, `NewSession`, `NewTerminal`, `listen`, the keepalive, `Close` |
| Input limiter (`sshd/ratelimit.go`) | how much was read in the current window, and when it ends | `Count`, after each read of a connection |
| Line editor (`sshd/terminal/terminal.go`) | the line and the cursor in it, where the cursor is on the client's screen, unread input, paste flags, the last lines, under one mutex | `ReadLine`, `handleKey`, `Write`, `SetPrompt`, `SetSize` |

How they interact. Each connection has a goroutine in `Host.Connect` and one in
`User.Consume`. `Connect` joins the room, reads lines and calls
`Room.HandleMsg`, which runs a command, passes a direct message on, or records
a message in the history and sends it to every member. Command handlers post
with `Room.Send`, a channel; `Room.Serve` starts a goroutine of `HandleMsg`
for each message it receives, and an error of a handler starts another. So
`HandleMsg` runs in many goroutines at once, over shared state: the registry
under its lock, each user's channel, each identity (which no lock protects) and
the settings of the users.

### What is hard

* A rename is two steps, the identity and the registry, and every other
  goroutine looks users up by the identity they have at that moment.
* A post through the channel is handled later, by another goroutine, in any
  order, when its author may have left, may be muted, or may have another name.
* `Members.Each` holds the read lock while it sends to each member, and a
  member that does not read makes it wait.
* A join registers, takes a snapshot of the history and feeds it to the user
  while messages are recorded and sent.
* A user is closed by itself, by an operator, by a write that fails or by the
  timeout of a sender, while its goroutine does something else.
* The checks of a handshake look at one set after the other, and the operators
  change the sets meanwhile. An item of a set that expires stays in the map until
  a reader comes across it, and the reader deletes it after it has let go of the
  lock.
* Handlers call into one locked structure while they hold the lock of another.
* Between the accept of a connection and its handler, a deadline on reads, a timer,
  the requests of the client and a failing keepalive race each other; whatever wins,
  all goroutines and the connection must end when the session does.
* A user is changed by its own goroutine and by operators; each change goes on to bring
  the prompt and the highlight up to date, in several steps and without a lock.
* The line editor draws with relative movements on a screen it never reads, with text
  that wraps at the edge, while other goroutines write messages between any two keys
  and the input comes in pieces.

`PROJECT.json` lists these hazards at the lines where they bite, with the
properties that cover them.

## 2. The modules

```
Messages   the kinds of message, names and input lines     message.go
  Users    channel, Send, Consume, Close, settings         user.go
    Room   registry, history, HandleMsg, Serve             room.go, set.go
      Commands   the command handlers                      command.go, host.go
        Host     Connect, the composition, its properties  host.go
          Silence    + observers: who was muted, ignored
          Delivery   + observers: what was recorded, sent
          HostProofs   proofs of types, locks, registry and privacy
            SilenceProofs    proofs about Silence, which it extends too
            DeliveryProofs   proofs about Delivery, which it extends too
History    the ring buffer                                 history.go
  RecentLog    what a history promises (abstract)
ExpiringSet  a set whose items expire                      set.go, item.go
  TimedSet     what such a set promises (abstract)
  SetAnswers     + observer: whether a key has been live
    ExpiringSetProofs    proofs of iteration, refinement and answers
Auth       bans, allowlist, operators, handshake           auth.go, sshd/auth.go,
                                                           host.go
  Admission    + observers: what was in force when
    AdmissionProofs    proofs of its four properties
Settings   preferences, name, prompt, OnChange             user.go, command.go,
                                                           host.go
  UpToDate     + observers: what was asked, what overlaps
InputLimiter  what a client may read how fast              sshd/ratelimit.go
  PartsProofs    proofs of the properties of History, UpToDate and InputLimiter,
                 which it extends and which share nothing
Locks      the order in which locks are taken              set.go, auth.go, host.go
TerminalSession  from accept to handler, and the end       sshd/net.go, terminal.go
  TerminalSessionProofs    proofs of its safety properties
Keys       the first key in some bytes                     sshd/terminal/terminal.go
Screen     the client's screen (external)
  LineEditor   the line being edited; EXTENDS both         sshd/terminal/terminal.go
    Display    + observers: what the user should see
      DisplayProofs    proofs about cursor, messages and the line
MCValues, MCHost, MCSilence, MCDelivery, MCParts, MCSet, MCAuth, MCTerminal,
MCEditor   instances for TLC (MCParts: History, UpToDate and InputLimiter)
```

Each module EXTENDS the one it is indented under (RecentLog and TimedSet are used
with INSTANCE). `Host` needs of `Auth` only who is an operator (`opKeys`); `Auth`
needs of `Host` only who is a member; each looks at the other's part in the detail
that its own questions need. `ExpiringSet` has one set in full; `Auth` uses it as
what `TimedSet` says it is, but for one departure (the renewal race in section 6);
`Room` has its own registry, whose items do not expire.

**State.** `id[u]` is `Identity.id`; `inbox`, `done`, `consuming` are
`User.msg`, `User.done` and whether `Consume` still runs; `members`, `muted`,
`isOp`, `history` and `broadcast` are the fields of `Room` and `Member`;
`ready` holds the messages whose `go HandleMsg` has not yet started; `job[t]`
is the program counter and the local variables of goroutine `t` inside
`HandleMsg`; `phase[u]` is the program counter of `Connect`; `opKeys` stands
for `Auth.ops`.

**Steps.** One action is one access to shared state (an operation of the
registry under its lock, a channel operation, a read or write of an identity or
a flag) with the local work around it. Some neighbouring accesses are merged
where no other goroutine can tell: the first read of the sender's id with the
receipt of the message or line; `Members.Get` with the `IsMuted` of the member
found; the lookup of `/nick` with its read of the old name; the reads of
`/ignore` with its `Add`; the `Ignored` and `Quiet` checks of the loop with the
send that follows if that does not wait. A send that has to wait keeps what was
decided before (`job.who`), so a mute or an ignore that comes in between finds
it under way. `Room.Leave` and `Room.Rename` read the identity before they wait for
the lock of the members: `leaving[u]` and `job.now` hold what was read, and `Leave`
and `ReplaceMember` are the steps under the lock. (The first read is merged with the
end of the input, which nobody can undo.) What `HandleMsg` tells apart by step:

| step | code |
|---|---|
| `lookup` | `Members.Get(fromID)`, mute check (`room.go:104-116`) |
| `direct`, `send` | a `MessageTo`, or a muted member's own message (`room.go:112, 126-132`) |
| `record`, `lock`, `each` | `history.Add`, then `Members.Each` under the read lock (`room.go:134-149`) |
| `run` | the handler of a command starts |
| `act` | an operator's command after its `IsOp` check |
| `rename`, `setid`, `commit`, `replace`, `revert` | `/nick`, `/rename` (`command.go:145-174`, `host.go:643-700`), with the two steps of `Room.Rename` |
| `muteOn`, `muteOff`, `opkey`, `replyTo`, `close` | what the handlers write after they found their target |
| `out` | the handler posts through `Room.Send` |

After the join, `RunEnv` runs the preferences of the environment, each as a command
that succeeds or fails, until there are none left; they count as lines (`MaxLines`).

**Registry.** A function from names to users, read and written under
`Key`, the lower case. `WriteFree` is the write lock of the set: nobody is
inside `Each`. `CanReplace` keeps the code's case distinction: an unchanged
key is inserted without a look at what is there.

**Messages.** A body is reduced to the user whose line caused it, the number of
the line and the part the message plays; a private message and its
confirmation, or the two announcements of `/rename`, differ in kind or part.

**ExpiringSet.** `lookup` is `Set.lookup`, `expired` the items whose time has
passed (items are values: the same key may hold one item after the other), and
`call[t]` the goroutine inside `In`, `Get` or `Each`. A writer is one step, under
its lock; `In` and `Get` are the look under the read lock (`Look`), the evaluation
of the item without it (`Value`) and the clean-up under the write lock
(`Cleanup`); `Each` is a step per entry and, after the lock is released, a step
per deferred clean-up (`Sweep`). `TimedSet` is the same set without the remains of
expired items: a reader, however far it has come (`readers <- call`), changes nothing,
not even when it cleans up; only writers and time take an entry away.

**Auth.** `entry[<<set, key>>]` tells whether a key is in a set: not, for a time
(`Expire` may end that at any moment), or for ever. `session[c]` is the goroutine
of connection `c`: the handshake it is in (`banned`, `bannedAddr`, `bannedClient`,
`bypass`, `interactive`, `allowlist`, `mode`, `ops`), then `Connect`, then the
handlers it runs as an operator, from the look at `room.IsOp` (`command`) on. Each look at a set, each write to one and each
turn of a loop is a step. `/allowlist reverify` goes through the steps of
`CheckPublicKey` for the member `target`. A loop over the members holds their read
lock (`WriteFree`), `ReloadAllowlist` holds the settings (`SettingsFree`). To remove
an operator or a key with a duration of one nanosecond, as the code does, is to
put it in for a time.

**Locks.** Each handler is the sequence of the locks that it takes and releases,
with one turn of each loop; a lock is the pair of its readers and the writer that
holds it or has announced itself, because `sync.RWMutex` lets no new reader pass a
waiting writer.

**Settings.** One user, from its join on. `errand[t]` is what the goroutine `t` does to
it, the user's own or one of an operator: a command that copies the configuration and
saves it, or a rename with its symbol (an operator may give itself one), and then `OnChange` with its two reads
(`ReadTheme`, `ReadName`) for the prompt and one for the highlight; a name with a symbol that is no regular
expression (`Broken`) leaves the old highlight. `room.Rename` is a
choice between success and `ErrIdTaken`; what it does to the registry is in `Host`.
`UpToDate` observes what the user `asked` for, and which changes have `crossed`; the
join is one until `Connect` has greeted the user, because the user can be renamed by
then.

**Delivery.** `log` is everything ever recorded, of which `history` is the end; `place`
is where in it the message is that a goroutine has added, `handled` are the places that
`Members.Each` has gone through, `since` is where the snapshot of a joining user starts,
`got` what was buffered for it and `spared` what `Each` skipped it for because of its
settings. (Messages are values, so only places tell two of the same apart.)

**InputLimiter.** One connection with a clock; `total` is the cost of all that was read
and `before[i]` the part of it read before time `i`. Its first failed read ends the connection: in `TerminalSession` that is a
link that is lost.

**TerminalSession.** `stage[c]` is the goroutine of connection `c` in `Serve`: the
handshake, the wait for a channel (`session`), the `select` of `NewTerminal`
(`starting`), between that and the return of `handleConn` (`granted`, where the
deadline is still set), the handler, or the way out (`refused`, `over`). `listening`
and `keeping` are the two goroutines of a terminal. `link` says why nothing can be
read any more: the client is gone, the deadline passed, or the server closed it.
`env` and `term` hold, for each value, the number of the request it came with. The
handler is `Host.Connect`, reduced to how it ends. Timers have no length: each may go
off as soon as it is set.

**LineEditor.** The lock is held except while waiting for input, so handling one key,
a `Write`, a `SetPrompt` or a `SetSize` is one step each. `view` has the screen of the
client (`cells`, `row`, `col`, `late`) and what the server believes of it (`x`, `y`,
`max` for `cursorX`, `cursorY`, `maxLine`): every drawing operator of the code changes
both, the one by what the escape codes do, the other by the code's arithmetic.
`rest` is `remainder`; a read appends any piece of what a client may type, so keys come
cut in two or several at once. A byte is named by what `bytesToKey` tells apart.
`Display` adds `said`, the rows written above the line, and `shown`, whether a repaint
has put the prompt and the line on the screen since the prompt changed.

**Identity.** A read of `id` while another goroutine writes it is a data race
in Go; the model lets the reader see the old or the new name, not a torn one.

### What is left out

* `Room.Close`: the program never calls it (only tests do); `broadcast` is
  never closed.
* `/focus`, `/away`, `/back` and the rendering that reads what they set; the time zone
  and the colour of a user, which nothing else depends on.
* In `Host`: `OnChange`, which has its own module; `Settings` has no users that leave.
* In `Host`: everything of a terminal but its lines, its writes that may fail and its
  end. An empty line is ignored by the code and not typed in the model.
* In `TerminalSession`: the payloads of `pty-req` and `window-change`; the global
  requests, which are discarded.
* In `LineEditor`: `ReadPassword` and the echo flag, which the program does not use;
  a screen that becomes narrower, for which the code makes assumptions about the
  client; prompts with escape codes, wide runes; control characters in a paste, which
  the code adds to the line like any other rune (`terminal.go:485`): `handleKey` has no
  step for them. (Keys that are not known are in.) What the callback completes to is any
  word that starts with what is there.
* The API mode (`TERM=bot`): no echo, no colours, no message of the day, a line end after
  the input instead of `SetEnterClear`, and after the join no prompt, no completion and no
  highlight (`host.go:113-119, 128, 176-180`).
* In `Auth`: `In` of a set is one step; the text of a `/ban` query, of which only
  the entries it names matter; `SetPassphrase`, `LoadOps` and the first load of the
  allowlist, which run before the server starts; `/banned`, which lists. What the
  name of a user means to `/ban` and `/op` (that a rename may come in between) is in
  `Commands`.
* `Guest%d`, a counter: each user has a `Guest` name of its own choice, which may
  be taken.

## 3. What is checked

| run | question | instance |
|---|---|---|
| MCNick | Do the registry, the names and the jobs stay consistent while users rename, leave and join? | with a message of the day; ann, bob (operator) in the room, cat joins as "Ann"; one `/nick` each (to a taken name, by case only) or bob's `/rename` of itself to nothing; ann may hang up |
| MCSession | Does a closed user always leave, and can a client that does not read stop the room? | cat connects under bob's name with everything else `Connect` has (a guest name that may be taken, a preference in the environment that may be wrong, operator key, failing writes) while bob kicks it or takes its rights away; channels of one place, nobody has to read |
| MCSilence | Are the muted silent, the ignored hidden and the private private? | three users; ann speaks in one of three ways, bob toggles the mute twice, cat types one of eleven lines |
| MCDelivery | Does a joining user miss messages; is public text in order? | bob joins, and may ignore ann, while ann, who is quiet, types two lines: says things or makes bob an operator |
| MCParts | Three parts that share nothing, each in behaviours of its own (`part` is chosen at the start): Is the ring a log of the last entries? Is a preference lost, does the prompt follow? Whom does the limiter cut off? | 4 slots, 3 entries, readers asking for 0 to 5; a user with two themes, quiet and timestamps, two names, two symbols, one of which is no regular expression, and an operator; windows of three ticks in which 3 may be read, reads of 1 and 3, ten ticks |
| MCSet | Are iterations complete, clean-ups invisible, and answers true? | two keys, a permanent and two expiring items of one, an expiring item of the other, two readers |
| MCAuth | Who gets in, who does not, and who stays after a reverification? | an operator and a user with keys, two tries each, any two commands of an operator |
| MCLocks | Do all handlers return? | any three of eleven handlers at the same time |
| MCTerminal | Does every connection get a handler or end, and all of it? | one connection, two channels, three requests of any type, a client that may stop or go at any point |
| MCEditor | Does the server know where the cursor is, and does the screen show the line and the messages? | five kinds of client, screens of two and three columns, lines of up to five runes, two prompts |

Two runs show the code departing from its own comments; they are expected to
end in a violation, and `PROJECT.json` quotes the comment under "findings":

| run | what happens |
|---|---|
| MCGhost | `/rename` by an operator while the target leaves: an entry for the gone user stays in `Members`, nothing removes it. The new name may be another one, which `Leave` looks for in vain, or differ in case only: then `Leave` removes the entry and `Replace` puts it back without looking (`set.go:156`). |
| MCStatus | `/allowlist status` holds the allowlist and wants the members, `/allowlist import` holds the members and wants the allowlist, a join waits for the members: nobody goes on. |

MCNick checks the registry where the first case cannot happen (bob renames only
itself, and to a name the registry refuses), MCLocks runs everything but `status`,
which says exactly how far the guarantees reach. In MCSilence
nobody takes the name of another and nobody is renamed by an operator, which are the
hypotheses of `PrivacyTheorem`, and nobody asks for the empty name, which the theorems
about silence need as well; section 6 says what happens otherwise.

### Properties

* `RegistryConsistent`: a user in the room holds exactly one entry, under its
  own name (under its old one in the middle of a rename); a user outside holds
  none. Broken by any join, leave or rename that slips between two steps of
  another.
* `JobsConsistent`: what every goroutine has at hand in each step; in particular
  an iteration over the members never meets an entry that has been removed, so
  all writers respect the lock.
* `PrivateStaysPrivate`: a private message is buffered for its author or its
  recipient only, a system message for its recipient only.
* `MutedStaysSilent`, `IgnoredStaysHidden`: about messages `HandleMsg` took up
  after the mute or the ignore, for as long as it lasts, whatever waits in
  between. Two observers (`hushed`, `shunned`) remember which these are.
* `NoGapOnJoin`: of what was recorded from its snapshot on, a joining user is sent
  everything the members were sent, but for what its own settings held back. It may
  get a message twice.
* `PublicInOrder`: public text of one author arrives in the order typed. It would
  not if `Connect` used `Room.Send`, as a FIXME in the read loop suggests
  (`host.go:229`).
* `RoomDrains`: with bounded input, the queues of the room run empty and every
  goroutine finishes, even if clients never read.
* `ClosedLeaves`: a closed user gets out of the room.
* `Implements`: the ring is a `RecentLog`.
* `NothingLost`: a user has the preferences it asked for last. Commands write the whole
  configuration back, so this rests on operators writing one field only.
* `PromptFollows`: once every change of a user has ended, the last of them without having
  met another, the prompt shows its name and theme and its name is highlighted. Where
  two changes overlap this is false: section 6.
* `PoliteStays`: only who read more than `Amount` within some `Frequency` is cut off.
* `FloodEnds`: after the grace, nobody reads more than twice the `Amount` within a
  `Frequency` and goes on; twice, because the windows of the limiter are fixed.
* `EachComplete`: an iteration that ends without an error has seen every live entry.
* `Transparent`: with expired entries taken as absent, `ExpiringSet` is a `TimedSet`;
  in particular no clean-up, of `In`, `Get` or the sweep after `Each`, deletes an entry
  that was renewed since it was looked at.
* `YesWasTrue`: `In` says yes only to a key that was live during the call. (That a no
  was true cannot be claimed: section 6.)
* `NoBanMissed`: nobody passes a handshake through which a ban of its key, address or
  client was in force for ever, unless it was an operator at some moment of it.
* `OpsGetIn`: who is a permanent operator all through a handshake by key is not refused.
* `AdmittedWasAllowed`: who passes was allowed at some moment of the handshake.
* `Reverified`: after `/allowlist reverify`, every member has been closed, or was
  allowed or an operator at some moment since it began.
* `EverybodyReturns`: no combination of handlers waits in a circle.
* `HeardFirst`: a terminal is handed over after a shell was asked for, with every
  variable and the terminal type requested before, the latest last.
* `DeadlineSpares`: a session that has been handed over is not ended by the read
  deadline of its handshake.
* `Settled`: every accepted connection gets its handler or is given up, whatever the
  client does or leaves undone.
* `Released`: a connection that was refused or has failed is closed, and its goroutines
  end.
* `CursorKnown`: `cursorX` and `cursorY` are the real position of the cursor, over all
  keys, wraps, messages, prompts and sizes.
* `MessagesStay`: nothing overwrites a message or a line that stands above the one
  being edited.
* `InputShown`: after a repaint, and through whatever is typed from there, the screen
  shows the prompt and the line, with nothing behind it if nothing was there.
* `PasteTold`: `ErrPasteIndicator` comes only with lines all of which was pasted.

`NoBanMissed` and `OpsGetIn` speak of entries without a time limit, for which the
late evaluation of `In` makes no difference. The observers `once` and `always` of
`Admission` remember, for each check under way, what was in force at some moment
and all the time since it began.

Each has a mutant of the code, an operator of the same module marked "A
plausible bug", that breaks it.

### Bounds

Three users are needed where a third party matters (a bystander who must not
hear, a name of somebody else); two elsewhere. One or two lines per client
(`MaxLines`) are enough for each of the races named: every one is between two
or three operations. `MsgBuffer` is 5 as in the code where waiting is not the
point and 1 or 2 where it is (`MaxLines` also bounds the preferences in the environment,
of which the instances have at most one: it is run before the first line, and with two
the state space passes what a run can visit); `RoomBuffer` is 10 or 1; `HistoryLen` is 1 or 2, as
only the eviction of the oldest entry matters (the ring has its own module).
`Tasks` is the number of `HandleMsg` goroutines that run at the same time (one,
next to those of the users); `ready` is not bounded and any of its messages may be
next, so reordering is not limited by it. Names are seven: a pair that differs in
case, the empty one, and two guest names. `Quieted` users have typed `/quiet`
before, which keeps announcements out of their channels and the state space small;
the joining user and the runs about delivery are not quieted.

In MCAuth, `MaxTries` is 2, so that a client can be banned for a wrong passphrase
and come back, and `MaxCommands` is 2: each race is one of a check with one or two
commands. In MCLocks three goroutines are what the circles found need (two readers
and the writer that holds them up), and a loop has one turn: a second one takes the
same locks in the same order.

In MCParts one operator and the user itself are enough for two changes to overlap;
two names let a refused rename be followed by another one's, and of two symbols one can
be refused as a highlight. The limiter runs through
more than two windows after its grace (`MaxTime` is 9 with windows of 3), and both
sizes of reads are met at the edge of a window.

In MCTerminal one connection is enough, as connections share nothing but the loop
that accepts them; three requests allow two of a kind and a shell between or behind
them. The screen of MCEditor has seven rows, of which a prompt and a line take up to four
and a message one (`MessageRows`; section 6 says what more rows do); `Scroll` drops
rows above the last one said. With widths of two and three and prompts of one and two
runes, lines end in the middle of a row, at its edge, and on the next. `MaxLine` is
2, so that the limit is met, and passed by completion and pastes; from `upTo` runes on
a client only moves and deletes.

The initial state is a quiet room whose users (`Present`) have joined, with their
join announcements in the history; others connect from nothing.

### Fairness

`FairSpec` gives weak fairness to `Serve`, to the start of a task and to every
step of `HandleMsg`: goroutines are scheduled. It gives strong fairness to the
command steps and the steps of `Connect`, because joins, leaves and renames need
the write lock, which is free again and again, and `sync.RWMutex` holds back new
readers while a writer waits. Nothing is assumed of clients: no fairness on
reading a line, on connecting, on `Consume` (the client may not drain its
terminal), nor on hanging up. That a send to a full channel ends is the timeout,
a step of the sender.

`TerminalSession!FairSpec` gives weak fairness to each goroutine of the server and to
each timer (a deadline that is set and not cleared passes at some time); nothing is
assumed of the client, not even that it answers a keepalive.

`Locks!Spec` gives weak fairness to every goroutine: each runs a finite handler, and
a writer that has announced itself keeps its claim until the readers are gone.
`ExpiringSet`, `Auth`, `LineEditor`, `Settings` and `InputLimiter` are checked for
safety only.

## 4. What is proved

All theorems hold for every value of the constants that satisfies the named
assumptions (`NamesAssumption`, `MsgBufferAssumption`, `RoomAssumption`,
`HostAssumption`, `HistoryAssumption`, `SetAssumption`, `AuthAssumption`,
`QueryAssumption`, `SessionAssumption`, `SettingsAssumption`, `LimiterAssumption`,
`ScreenAssumption`, `EditorAssumption`): any number of users, names, lines, goroutines,
keys, items, connections and commands, any size of channels and of the screen. Of the
limiter it is assumed that the grace (3 s in the code) is no longer than a window (one minute).

| theorem | statement | argument |
|---|---|---|
| `HostProofs!TypeCorrect` | `Spec => []TypeOK` | `Inv == TypeOK /\ JobsConsistent` is inductive. The types of many steps depend on what the goroutine has at hand (a handler appends the head of `job.out`, which has to exist), so neither half is inductive alone. One lemma per action. |
| `HostProofs!LockDiscipline` | `Spec => []JobsConsistent` | Same invariant. Every write to `members` is guarded by `WriteFree`, so no job is inside `each` when a key disappears. |
| `HostProofs!RegistryTheorem` | `NobodyRenamed => (Spec => []RegistryConsistent)` | `RegInv` adds that a job only runs in phases where a line is being handled, that a rename under way is the user's own, that its `old` is the name it had, and that a name read before the lock is taken (`job.now`, `leaving`) is still the user's when it is held. Then only a user's own goroutine writes its identity and moves its entry. `NobodyRenamed` (no line is a `/rename`) is needed: MCGhost shows it false otherwise. |
| `HostProofs!PrivacyTheorem` | `NobodyRenamed /\ NobodyTakesNames => (Spec => []PrivateStaysPrivate)` | `PrivInv` adds that whoever a goroutine is about to send a message to may see it (`MsgOK`), that only messages for all are recorded (`HistoryOpen`, `FeedsOpen`), and that every id and every name at hand is one its user goes by (`IDsOwn`, `NameOK`). `NobodyTakesNames` (the names two users come under or ask for are different) is needed for the mute: `HandleMsg` returns the message of a muted member to whoever is registered under the author's name (`room.go:112`). |
| `SilenceProofs!MutedTheorem`, `IgnoredTheorem` | `NobodyRenamed /\ NobodyTakesNames /\ NobodyUnnamed =>` `(SilenceSpec => []MutedStaysSilent)`, `[]IgnoredStaysHidden` | What has been held back once must not come a second time, so `Once` says where every message is: what a user said is in exactly one place on its way (a handler, the channel, `ready`), or has been taken up, by one goroutine only, and never returns; a line that has not yet said anything has a number no message carries (`PostedOnce`, `LineOK`). `HushedOK` and `ShunnedOK` then say of a message observed by `Silence` that it is nowhere it should not be and that its goroutine, if still at work, is not about to send it there. `Handled` sums up the steps of `HandleMsg`, `Starts` those that begin one, `Aside` all others. `NobodyUnnamed` (no `/nick` to a name that sanitises to nothing) is needed because `HandleMsg` looks nobody up under the empty name (`room.go:104`). |
| `DeliveryProofs!PublicStaysInOrder` | `TraceSpec => PublicInOrder` | `OrderInv` says that public text is only in the hands of its author's own goroutine, which handles the line typed last (`JobsSaid`), that nothing posted through the channel or waiting for a goroutine is public (`QueuesSaid`), and that what anybody has got, is fed or could take from the history was typed no later (`GotSaid`, `FeedsSaid`, `HistorySaid`). What arrives outside of a join is then the newest line of its author. No hypothesis. |
| `DeliveryProofs!NobodyMissesAMessage` | `NobodyRenamed => (TraceSpec => []NoGapOnJoin)` | On top of `RegInv`, which makes sure that `Each` meets everybody in the room, `GapInv` follows each place of the log: while its goroutine is among the members, everybody owed the message has it, is being sent it or is still to be visited (`Visiting`); when it is done, everybody has it (`Past`). `history` is the end of `log` (`LogOK`), so what a joining user is fed is all of the log from `since` on. `NobodyRenamed` is needed for what MCGhost shows: an operator's `/rename` of a user who leaves can break the registry. |
| `PartsProofs!RingImplementsLog` | `Spec => Implements` | The mapping `kept <- Newest(size)` with the invariant that the slots reachable from `head` are in use; lemmas `HeldAdd` and `HeldGet` say what `Add` and `Get` do to it. |
| `ExpiringSetProofs!LoopsAreComplete` | `Spec => []EachComplete` | `Inv` adds that what a loop has visited it has handed on or found expired, and that the keys are either visited or still to come; writers change the map only when nobody iterates. |
| `ExpiringSetProofs!SetImplementsTimedSet` | `Spec => Transparent` | Every step is one of `TimedSet` or a stutter under `Content`, the live part of the map, with `readers <- call`: every step of a reader, the clean-ups and the sweep included, must leave `Content` alone, and does, because a clean-up deletes only what is expired when it deletes it. |
| `ExpiringSetProofs!YesIsTrue` | `AnswersSpec => YesWasTrue` | `Held`: an item that a reader has found is expired, or was live when it was found. Only `Look` finds one (`FoundByLook`), and a yes is an item that is still not expired when `Value` looks (`YesByValue`). |
| `AdmissionProofs!NoBanIsMissed`, `OnlyAllowedAdmitted`, `OperatorsGetIn`, `NobodySlipsThrough` | `AdmissionSpec =>` `NoBanMissed`, `AdmittedWasAllowed`, `OpsGetIn`, `Reverified` | `Base` says what a goroutine has at hand and that members stay while somebody iterates over them; `Frame` sums up what any step may do, so that only the ten steps of a check need a second look. `Tracked` is what the observers know by then: the key found on the allowlist was there (`Heard`), the bans already passed were not in force all the time (`Passed`), the members already visited may stay or are closed (`Swept`). |
| `TerminalSessionProofs!TypesAreKept`, `AllIsHeardFirst`, `HandedOverIsSpared` | `Spec =>` `[]TypeOK`, `[]HeardFirst`, `DeadlineSpares` | `Inv` adds to the types what each stage has behind it (`Staged`: `ready` is closed only after a shell request, a deadline is set exactly from the accept to the return of `handleConn`) and what `env` and `term` have recorded (`Recorded`). One lemma for the steps that leave the requests alone, one each for those of `listen` and the client. |
| `PartsProofs!PreferencesAreKept`, `PromptIsFollowed` | `FollowSpec =>` `[]NothingLost`, `[]PromptFollows` | `Inv` says of a change that has met no other that it is the only one (`Apart`) and that what it has read so far is still true (`SeenTruly`). A step of anybody else that writes opens a change and crosses it, one that does not write leaves it as it is (`WritesAreChanges`, `AloneUndisturbed`); a change that ends alone has set prompt and highlight from what is true. |
| `PartsProofs!NoFloodGoesOn`, `OnlyFloodsEnd` | `LimiterSpec =>` `[]FloodEnds`, `[]PoliteStays` | The windows of the limiter are fixed, those of the properties slide, so `LimiterInv` relates two of the limiter: `numRead` is what was read since the present one began, and whatever was read within a `Frequency` before its beginning had to pass the limit of the one before (`InLater`). A sliding window meets at most these two. `Idle` (nothing was read since a window ended) makes a new window start from nothing, `InFirst` is the grace. |
| `DisplayProofs!EditorTypes`, `CursorIsKnown`, `MessagesSurvive` | `DisplaySpec =>` `[]TypeOK`, `[]CursorKnown`, `[]MessagesStay` | `Drawn(u, top, base)` is the set of views whose cursor is where the server takes it to be, in a line that starts in row `base`, and whose rows above `top` are those of `u`. Every operator that draws stays in it, whatever it draws: one lemma for each, from `ShowMoves` (what text does to the real cursor) and `TextDraws` (that `advanceCursor` computes the same) up to `KeyDraws`. What a step says moves `base` down (`MoreSaid`), never `top`. |
| `DisplayProofs!InputIsShown` | `DisplaySpec => []InputShown` | `Wrote(v, w, s)` says that `w` is `v` with `s` from the cursor on and nothing else changed; `WroteTwice` joins two texts, so `writeLine` writes its whole text however many pieces it takes (`WriteLineWrites`). `InputInv` adds to `InputShown` where the cursor stands in the line (`Right`) and that nothing is below what was used of the screen (`Only`): neither is implied by what is shown, and without them a key would redraw from the wrong place. `Redrawn` is the one argument for all changes of the line: what is in front of the change stays, the rest is written again, and the blanks behind it cover what became shorter. Messages and new sizes paint all of it anew (`Painted`) over rows that were cleared, or were blank (`NothingThere`). |

The loops of `writeLine` and of a message are recursive functions. That they are
defined, and that every turn of theirs stays in `Drawn`, needs an induction, which
`SetInduction` gives without an operator as parameter: a set that has 0 and with every
number the next has all of them, since otherwise adding one would map a finite set one
to one to itself without 0. The theorems about `Display` use none of the bounds in its
guards (`Fits`, `upTo`, when the screen scrolls), which are there for TLC, but for one:
`InputIsShown` needs that `Scroll` happens only while the line is within the screen, as
what is below the screen is not kept and could not come into sight again.

Only model-checked: `PasteTold`, which is about the bytes of the clients of MCEditor
(they type no rune that they paste), the order of locks, and liveness, which the prover
does not handle.

## 5. Plan

In order of importance; the modules of section 2 are done.

1. `BanQuery` in detail: the fields of a query, one by one.
2. Away and focus, and what rendering does with them.
3. Lemmas about `bytesToKey` (that it looks no further than the key it finds, that no
   typed byte decodes to a pasted rune), and on them a proof of `PasteTold`.

## 6. Known departures that no run shows

Met while modelling, all present in the models unless said otherwise; no run is
kept for them.

* `set/set.go:72`: `In` evaluates the item it found after the read lock is released.
  If the item is overwritten by a fresh one and expires then, `In` says no to a key
  that was in the set all along.
* `auth.go:140`: `CheckPublicKey` looks at the allowlist first and at the mode
  afterwards. A key that is added before the allowlist is switched on, both between
  the two looks, is refused although it was allowed at every moment.
* `sshd/auth.go:68`: a wrong passphrase overwrites a permanent ban of the address, put
  in force after the ban check, with one of two seconds.
* `host.go:799`: `/allowlist reload flush` clears the list before it reads the file;
  keys in the file are refused meanwhile, and for good if it cannot be read.
* `host.go:183`: `/op USER remove` between the look at the key and the flag of a user
  who joins leaves the user an operator.
* `chat/message/user.go:303`: `Less` locks two users in the order it is given them; two
  completions that got them in opposite orders wait for each other. `Locks` has it as
  `completeSwapped`, which MCLocks leaves out.
* `auth.go:300-313`: the comment has a duration apply to the next field of a query; the
  code takes the last field as the duration of all. (Not in a model.)
* `auth.go:333`: an address that cannot be parsed is never rejected, as the text of a
  nil IP is not empty. (Not in a model.)
* `chat/room.go:106`: "this should not happen" does, to a message posted through the
  channel whose author leaves before it is handled; it is dropped.
* `chat/room.go:104`: while `/rename` tries a name that sanitises to nothing, the target
  has the empty id, for which `HandleMsg` skips the lookup and the mute with it.
* `chat/command.go:385`: `/ignore` stores a name. After a rename the user is heard again, and
  whoever takes the name is ignored.
* `host.go:397`: `/reply` looks up whoever has the name of its target now and sends to the
  target itself, which may have left: the message is lost, though its author is told that
  it was sent.
* `chat/room.go:112`: what a muted author says goes back to the author, found by name.
  While `/nick` tries the name of a muted member (`command.go:166-167` changes the
  identity before it asks the registry), a private message of its author that is handled
  then is sent to that member, although "only a specific user will see it"
  (`message.go:172`).
* `terminal/terminal.go:709`: `Write` clears the rows of the line being edited from the cursor up.
  With the cursor moved to an upper row, lower rows of the line stay, and a message of
  several rows is mixed with them until the repaint. MCEditor writes messages of one row.
* `terminal/terminal.go:570`: with `enterClear`, the cursor stays where it is while `cursorX` stays
  as well; keys typed before the next `Write` are drawn behind the old position.
* `terminal/terminal.go:849`: `SetPrompt` does not redraw. After a shorter prompt the next repaint
  leaves the rest of the longer one where the line does not cover it.
* `terminal/terminal.go:829`: a byte that is no UTF-8 counts as a key that is not complete, so
  keys that came with it wait for the next read.
* `terminal/terminal.go:485`: in a paste an escape sequence that is not known becomes a rune of the
  line (`keyUnknown`), and a control character is added and sent to the screen as it is,
  which then moves the cursor without the server's knowledge. (The control characters
  are left out of `handleKey`.)
* `terminal/terminal.go:657`: `writeLine` cuts its text by the number of runes and moves on by its
  visible length. If a prompt with escape codes is cut inside of one, the rest of it counts
  as visible and `cursorX` is too far to the right. (Not in a model: its runes are one
  cell wide.)
* `host.go:195-202`: `ErrPasteIndicator`, which means that a line was pasted, is an
  error like any other to `Connect` and would end the session; the program never asks
  for it, as bracketed pastes are not switched on.
* `terminal/terminal.go:631`: the limit on the length of a line is a test for equality, which a
  line that a completion or a paste made longer passes.
* `host.go:299-322`: completing a command that is not known replaces it by a space.
* `net.go:36`: the comment speaks of a client that does not write "for too long"; the
  deadline is absolute, 20 seconds after the accept, so a slow but active handshake is
  cut off, and the one-minute timer of `NewTerminal` never decides unless the deadline
  strikes late. Between `ready` and the clearing of the deadline it can still pass: a
  session is then handed over on which every read fails (`granted` in the model).
* `host.go:105`: two changes of a user that overlap, its own `/theme` and an operator's
  `/rename`, can end with the older name or theme in the prompt, or the older name
  highlighted: the goroutine that read first may write last. Nothing corrects it before
  the next change.
* `host.go:179`: `Connect` highlights `user.Name()`, `OnChange` highlights `user.ID()`. With
  a symbol given between `Join` and this line, the symbol is part of what is highlighted.
* `command.go:440`: `/focus` clears the focus before it fills it, name by name, and
  `user.go:213` looks at its size and then at its names. In between, messages of others
  are shown although the user is focused before and after ("Only show messages from
  focused users", `command.go:418`), or those of a focused user are skipped. (Not in a
  model.)
* `sshd/ratelimit.go:47`: the limit is commented as "~16kb" and is `2 << 14`, twice that;
  line 55 has "1 if n<readCap" for what is `n <= readCap`.
