# Empire 5 in TLA+

Specifications, model-checking runs and proofs for the Rust port of Empire
(`crates/`): a server that many players connect to, a game that lives in a
SQLite database, and a timer that updates the whole world now and then.

The modules are translated from the code; comments and the pages of `info/` are
used only to say what a property was meant to be. Paths below are relative to
`crates/empire-server/src` unless they begin with another crate. Every
definition that stands for code has an entry in `PROJECT.json` under `map`, with
the lines it stands for.

## 1. The system

One Tokio process. `main.rs` spawns a task per connection (`session.rs`), the
update loop (`update.rs`) and the market loop (`marketup.rs`). They share

* `Arc<RwLock<GameState>>` (`state.rs`): commands and the market loop take it
  shared, for the length of a command or a check; the update takes it exclusive.
  Tokio's lock is fair: first come, first served;
* `SessionRegistry` (`state.rs`), a mutex around a map from country to session,
  locked for one call at a time;
* atomics and small mutexes inside `GameState`: `updates_enabled`,
  `force_update` (a `Notify`), `shutdown_handle`;
* the database (`empire-db`): one table per kind of thing, one statement per
  call, **no transactions** in the game's own code. A `put` replaces a whole
  row with the copy its caller has made of it.

So two commands interleave at every `.await`, and only the update is alone.

### Inventory

| part | state | operations | what is hard | correct when |
|---|---|---|---|---|
| login and playing loop (`session.rs`, `state.rs`) | phase of a connection, its country, the registry, the login record in the nation's row | `coun`, `pass`, `play`, `kill`, `quit`, a command line, disconnect | look-up and entry are two calls; `kill` removes an entry by country while the session plays on; a connection may be lost at every await | the registry names exactly the sessions that play; a killed session stops; records are in order |
| shared state and updates (`main.rs`, `update.rs`, `state.rs`, `marketup.rs`, `enable`, `disable`, `force`) | the lock with its queue, the enabled flag, the stored notification, the rows | the timer or `force` wakes the loop, check of the flag, wait for the lock, load, report, persist; commands read and write rows | flag read before the wait; copies of all rows held for a whole update; error or crash between two puts | updates and commands are serialized, nothing is lost, an interrupted update is explainable |
| market (`sell.rs`, `buy.rs`, `marketup.rs`, `empire-db/trades.rs`) | treasuries, stocks, lots | list, buy, daily clean-up | four puts per purchase from copies; a number for a new lot is computed from what is stored | no money or goods appear; one lot per number; refunds only when due |
| mail (`telegram_cmd.rs`, `announce_cmd.rs`, `read_cmd.rs`, `empire-db/telegrams.rs`) | messages, counters in the nation's row, time of last reading | send, announce, read, delete | the message and the counter are changed by different statements; whole-row puts bring old counters back | counters right, nothing removed unread |
| loans (`loan.rs`, `marketup.rs`, `empire-db/loans.rs`) | treasuries, loans | offer, accept, repay, default when due | two treasuries and a loan changed by three puts, interest, whole dollars | no treasury overdrawn, nothing overpaid, money handed over once, states in order |
| scheduled shutdown (`shutdown_cmd.rs`) | the handle of the pending timer, the timers | schedule, call off, run out | the mutex is taken twice; a timer may run out meanwhile | only the timer asked for last ends the server |
| deliveries and distribution (`update.rs`, `threshold.rs`, `deliver.rs`, `distribute.rs`) | stocks, mobility, thresholds, directions, centres | three commands; deliver, export and import cell by cell | fractions, room, ownership, mobility shared by all items, groups in hash order | goods conserved and in range, thresholds respected and met |
| rest of the update engine (`update.rs`) | sectors, nations, units, a budget per nation | tax, food, production, levels, building, mobility | long arithmetic, order of the steps, a treasury simulated in the budget and written once | all that is booked reaches the treasury, nobody builds on in debt, nothing is used that was not there |
| units and combat (`subs/`, `navigate`, `load_cmd`, `tend_cmd`, `board_cmd`, `fire_cmd`, `torpedo_cmd`, `fly`, `bomb`, `recon_cmd`, `launch`, `march`, `attack`, `assault_cmd`, `scuttle_cmd`, `scrap_cmd`) | ships, planes, land units, sectors | move, load, fire, fly, board, take, tear down | handlers of hundreds of lines over several rows, read at the start, changed in turn, put at the end | nothing is made of nothing or paid twice, cargo and planes fit, planes go where their ship goes |
| sector commands (`build`, `move_cmd`, `explore`, `designate`, `enlist_cmd`, `demobilize_cmd`) | sectors, units, treasuries | read rows, change them, put them back | many sectors, one treasury, one work force | goods and money paid once, and only if there |
| country commands (`change`, `add`, `declare`, `capital`, `toggle`) | nation rows, relations | put back the row read at dispatch | stale counters and money | no lost change |
| report commands, `xdump`, protocol, journal | none | read and format | nothing | nothing to check |
| world generator (`empire-world`) | a map, islands, distances, elevations | place and drift capitals, grow continents, find spheres, place and grow islands, raise land, store | randomness; zones that overlap; islands cut back to the least of their group; a search whose ties must not depend on its order | equal continents apart from one another, islands near their own, land of equal worth |
| schedule parser (`empire-config/rdsched.rs`) | the times so far, an anchor | read a file of directives, insert, delete | a bounded list that displaces, loops that end by the value an insertion returns | the earliest times the file asks for, in order |
| database access, tables, configuration | rows | SQL, constants | nothing beyond what their users do with them | used as atomic reads and writes |

`PROJECT.json` lists the same parts as `components` with their state of
modelling, and under `hazards` every place where the code is hard to test.

## 2. The modules

A module of a component comes with `MC<module>.tla`, which holds what a
configuration needs for TLC and nothing else, and with `<module>Proofs.tla`; the
proofs about Shutdown and Schedule are in `GameServerProofs`, those about Mail in
`SessionsProofs`, those about Distribution in `EconomyProofs` (the two share
`Dimensions`: the sectors, `ITEM_MAX` and the bounds). `SetLemmas` has what several of them need about sums, least
elements and finite sets.
Each has a section of *faulty variants*: definitions that nothing in the
specification uses, each a plausible mistake in the code. Replacing the
definition by its variant must break the property it is listed with in
`PROJECT.json` under `mutants`.

History variables (marked so where they are declared) only record what happened,
for properties to speak of. `overlapped` in three modules says whether a command
has ever begun while another one ran: what is guaranteed to commands that do not
overlap is stated as `~overlapped => ...` and checked in the same run as what is
guaranteed always.

### Sessions

`phase[x]` is where the task of connection `x` is. A step ends at every access to
the registry and at every await at which something may happen: `Play` (looks the
country up), `Enter` (`try_enter`), `Greet` or `GreetFails` (the C_INIT reply),
`RecordLogin`, `Command` (a line arrives and the entry is looked up), `Dispatch`
(the lock is granted), `Drop`, `RecordLogout`, `Leave`; `KillLook` and
`KillEvict` are the two calls of `kill`. Whether a password is accepted is any of
the possible outcomes. What a command does is left to the other modules.

* `RegistryAccounts` is two things. `RegistryExact`: the map and the tasks agree until
  a first kill or loss; that an entry names a session at all (`EntryHasSession`) is
  proved and has no run. `SessionsBoundedByKills`: `kill` removes the entry at once and the session
  only notices at its next line, so a country may have two sessions (the comment
  of `SessionRegistry`, one active session, is too strong); but there is at most
  one more for each kill.
* `OneLateCommand`: after the entry is gone, at most the command that had already
  passed the check.
* `LoginRecordCurrent`: the logout record of one session cannot land on the next.
  `record_login` and `record_logout` may fail, and the session goes on as the code
  does (`let _ =`), so the property compares the row with what the session's own
  record left in it (`entered`), not with "in". One thing does take a recorded login
  back: `accept` and `repay` put the other nation's whole row, its login times
  included, as they loaded it (`RowRead`, `RowPut`; `rewound` notes it).
* `KilledSessionEnds`: liveness.

### GameServer and GameRounds

`GameRounds` is what `main.rs` and `state.rs` promise. Commands may overlap each
other and put back rows some time after they read them; but none begins, ends, reads
or puts a row from the beginning of an update to its end, and the rows of the update
change at that end, in one step: all of them or, when it fails or the process ends, a
first part in the order of the puts. `GameServer` is how it is done: a
queue for the lock, the loop that sleeps, wakes, checks the flag, waits, loads
row by row, sends reports, puts row by row, with a database error or the end of
the process between any two steps, and commands that read a row and put it back.
A row is reduced to the number of the last update it has been through and the
number of commands it carries; that is all the properties tell apart.
`SerializesUpdates` is the refinement: `GameServer` implements `GameRounds` with
`round <- tick`, `updating <- writing`, `active <- readers`, `held <- view`, and
`rows <- Settled`: while an update puts, the rows it has put already still count as
what it loaded. A command that ran beside an update, a row that changed between the
load and its put, and a put that was seen early are all violations.

What an update that is cut short leaves behind is a prefix of the order of the
puts (`TornUpdateIsPrefix`). `OneUpdateAfterDisable` says by how much
`disable` may be late; `ForceNotLost` that an accepted `force` takes effect.

### Market, Mail, Loans

One step per database call. Rows are read into copies (`lot`, `buyer`, `seller`,
`goods`; `loan`, `debit`, `credit`; `copy`), and puts are computed from the
copies, as the code does. Prices and loans are in half dollars where the code
has a fraction it cuts, so that the cut shows. Failing calls are steps of their
own, bounded by `MaxFaults`. The market loop (`check_market`, `check_trade`) runs
beside the commands.

* Always, whatever overlaps or fails: `WithinBounds`, which is `NoOverdraft` and
  `StockInRange` in Market, `NoOverdraft` and `NeverOverpaid` in Loans. A check on a copy suffices for these,
  since what is put back is that copy less what was checked.
* As long as commands do not overlap: `Accounted` (`MoneyAccounted` and
  `GoodsConserved`), `BoughtLotFinal`, `MoneyConserved`. With overlap they are false: a
  whole-row put brings back what another command has changed.
* Loans counts how often a borrower was credited (`handed`) and how often the last of
  the three puts of an accept failed (`lapses`; `loan.rs:220`). When it does, the loan is
  still on offer after its money was handed over, and can be accepted again. `HandedOver`
  says that this is the only way to get the money of a loan twice, in every state and
  whatever overlaps, but for numbers given to two loans (`reused`). `Lifecycle` is the
  order of the states: whatever overlaps a loan once accepted is never on offer again, a
  default and a repayment that cross may undo each other, and with one command at a
  time paid and defaulted are for good.
* Mail has no such condition. `crossed` is the set of nations at which two of a
  sender, the nation's "read" and a whole-row put were between their statements at
  once (`Crossing`), or a statement on whose counter failed (`Miscounted`), since
  the nation's messages were last deleted, which sets it right. `CountsTelegrams`
  speaks of all other nations in every state: any number of senders may overlap, and
  anything may go on at other nations. `cameLate` is the set of messages inserted between
  the query and the deletion of their addressee's "read", which are lost;
  `NothingRemovedUnread` says that nothing else is.

### Shutdown

`Take`, `Spawn`, `Store` are the three parts of scheduling, `CallOff` the other
branch, `Expire` and `Exit` the task of a timer. There may be several deities
(`add` creates them), so commands may overlap.

### Distribution

`Deliver`, `Export` and `Import` are one turn of the innermost loops, for one
sector and one item; `pending` holds the cells a pass has yet to visit, which is
determined when it begins, because thresholds, directions and owners do not
change during an update. `NextGroup` takes any group: the code iterates over a
`HashMap`. `Convey` is the common part of the three loops, with `Amount` and
`Charge` as quotients of naturals for the code's floating-point `floor` and `as
i8`. The cost of a path is the least over all walks inside the owner's country,
which is what `dijkstra_dist` is for; its own steps are planned.

* `GoodsConserved`: per country and item, always.
* `StockInRange`: between 0 and `ITEM_MAX`, unless a negative threshold was
  stored: `deliver` accepts one and `threshold` does not, and the surplus over a
  negative threshold is more than the sector has.
* `ThresholdsRespected`, `PassComplete`: nobody is taken
  below the threshold but the centre, and when a pass is over a surplus or a
  lack is only left where room, goods, mobility or a path is missing.
* `MobilityNotOverdrawn`: proved only; no run checks it.

### Economy

What `update_main` does between loading and storing, without goods and mobility:
`phase` is the loop (`Loops`, in the order of the calls) and `row` the sector or
unit it visits next. `Prepare` taxes, feeds and settles a sector; `PayReserve`;
`Produce` builds, enlists and produces in one, `Rest` if its nation is in debt
or it is switched off; `Carry` stands for `do_deliver` and `do_distribute`,
which have a module of their own, with any carriage between two sectors of a country;
`Build` is `prod_ships`, `prod_planes` and `prod_land`, which differ in where a
unit may be (`Berth`), who works (`Crew`) and how fast it grows (`Growth`);
`Drill` is `ship_produce_ocean`; `ProdNat` writes the treasuries and `AgeLevels`
lets reserves grow old. `Designate` is the command, between updates.
`round_avg`, which rounds by chance, is a set of outcomes; floating-point numbers
are fractions; sums of money keep cents (`Dollar`), since a treasury is cut once,
at the end.

* `TreasuryAccounted`: what `prod_nat` has stored is what the update booked and the
  pay of recruits, as the comment at `update.rs:337` asks.
* `OnceOnCredit`: everybody who spends asks whether there is a debt, not whether
  the money suffices; so a nation goes into debt once in an update, and no more.
* `NothingOverdrawn`: the `max(0)` after each subtraction of workers and ore never
  hides anything, because the limits computed before are right however chance rounds.
* `TypeOK` includes that no stock goes below zero or beyond `ITEM_MAX`, which three
  kinds of units and a sector that share materials could do.
* `SettledSectors`: a sector that has been prepared and is owned has people in it,
  civilians if it is still another nation's at heart, and until it has produced no
  more of them than it may hold.

### World

`fairland.rs` step by step: `DriftCapital` moves one capital, `PlaceCapital` and
`GrowContinent` grow the continents sector by sector, `Search` takes one sector off
the queue of the breadth-first search, `PlaceIsland` and `GrowIsland` grow the
islands of a group, `EndGroup` cuts them to the least among them and carries what is
missing, `Raise` is one iteration of `elevate_prep`; `Write` stores the rows. A roll
is any of its outcomes; a weighted choice is any place whose weight is positive.
Where the code sorts or enumerates, `InOrder` lists the set. The map is assumed to
have two sectors for each continent, less than which `init_capitals` cannot place
them on.

* `IslandsPlaced`: the distances of the command line are kept whatever zones overlap,
  and no island has a sector where a continent it does not belong to is nearer than
  all others.
* `FairShares`: continents are of the size asked for, the islands of a group of one
  size, no promised sector is lost but those carried; and in the rows that are stored
  the sea is sea and land is land, every continent has the same elevations and
  resources, and its mountains are as many as asked for, up to all sectors but the two
  of the capital.
* `SpheresExact`: the search computes the distance by definition, and a tie is a tie
  in whatever order the queue was filled.
* `DriftSpreads`: the two nearest capitals never come nearer.

### Forces, Realm, Navy, Air, Army, War

`Forces` has the rows of ships, planes, land units, sectors and nations, the map,
relations, and what damage does. The other four are the commands, one step each:
what two such commands do to one another's copies is what Market and Loans are
about. `War` composes them, and adds `declare`.

* `Realm`: `Move`, `MoveTo` (the classic form, with a path searched for), `Explore`,
  `Enlist`, `Demobilize`, `Designate`, `BuildShip`, `BuildPlane`, `BuildLand`,
  `BuildBridgeSpan`, `BuildBridgeTower`.
* `Navy`: `Load`, `LoadPlanes`, `UnloadPlanes`, `Tend`, `Board`, scuttle and scrap of
  the three kinds of unit, `Navigate` by a route or to a sector, with the forts on the
  way (`Interdict`), `fire` from ships, land units and
  forts at ships and sectors with the fire returned, `Torpedo`.
* `Air`: `Fly`, `BombSect`, `BombShip`, `Recon` with sweeping, `Launch` of missiles
  and satellites; `Fight` is the set of ways interceptors and flight may lose planes.
  `recon` filters its spies and its escorts independently, so that a plane named in
  both is in the flight twice: the copies are told apart by number (`Escort`, `Of`), fly,
  fight and land each for itself, and the plane is as the copy that lands last.
* `Army`: `March`, `Attack` with `Takeover`, `Assault` from the sea.

A set of rows stands for what a specification of ships, planes or sectors selects. Within
a command the rows are handled as in the code: those read at the start are read
from the variables (`ship`, `sect`), those the loop changes are threaded through
(`w`), in a fold over the units by number or the sectors by row, as the queries
return them (`Ascending`, `InRows`). Dice are a percentage of their range (`Luck`, both ends in the run).

* `NothingOverloaded`: hulls (`HoldsFit`) and hangars (`HangarFits`, which asks for a
  berth for each plane and not for the counts the code keeps).
* `NoneAdrift`: a plane aboard is where its ship is, or on land.
* `NothingFromNothing`: people, military and goods never grow, counting what tearing
  units down gives back. `repeated` records the cases the code does count twice
  (below), so that everything else must add up.
* `NoFreeShot`: whoever hits a ship has a shell, or a plane's mobility, less.
* `RowsInRange`: types, and nothing below zero: no stock, treasury, reserve or work
  force, though a command spends for many sectors and a takeover leaves a sector
  without work force. The mobility of units is a signed byte and may be negative; for
  planes that have flown a comment says otherwise (below).

### Schedule

`read_schedule`: `ReadTime`, `ReadSkip`, `BeginEvery`, `SkipLine` for a line that
makes no sense, one `EveryStep` for each turn of the loop of `every`, `EndEvery`,
`Return`. `Inserted` and `Deleted` are the functions on the list. A line is the
directive it stands for; days have three minutes, so that weekdays matter within a short
horizon, and one time of the clock is ambiguous (`Unclear`), as when summer ends.

* `WellFormed`: ascending, no repetitions, in the future, no longer than asked for:
  proved (`ScheduleIsWellFormed`), and no property of the run.
* `EarliestWritten`: after each line, against `Written`, which says by sets what the
  lines ask for: nothing else is ever scheduled, and it is exactly the earliest of
  it, unless the file is one it loses something of (`Lossless`).
* `ReadToTheEnd`: liveness; false for `every 0 hours`.

## 3. The runs

| run | what is in it | distinct states | expected |
|---|---|---|---|
| `sessions` | 3 connections, 1 country, 2 kills, 1 lost C_INIT, any record that fails | 657,741 | pass |
| `server` | 2 sessions, market loop, 2 rows, 2 updates, 1 write per row, 1 crash | 331,920 | pass |
| `market` | 2 players, 2 lots, 2 sales, 1 day, 2 failing calls | 2,288,456 | pass |
| `mail` | a nation and the deity, 2 messages, 2 seconds | 5,581,846 | pass |
| `loans` | 2 players, 2 loans, 2 days, 2 repayments, 1 failing call | 3,636,255 | pass |
| `shutdown` | 2 deities, 4 timers | 4,184 | pass |
| `distribution` | 3 sectors in a row, 2 items, 2 commands, 2 updates | 808,166 | pass |
| `economy` | 5 sectors, 4 units, 2 nations, 1 update, 1 designation, 1 unit of goods carried | 2,726,932 | pass |
| `world` | 12 sectors, 5 command lines, 2 tries, 1 iteration of raising | 206,048 | pass |
| `war` | 6 sectors, 2 nations, 6 scenes, any 2 commands | 24,718 | pass |
| `schedule` | all files of up to 3 lines out of 15, 2 presents, up to 4 times | 441,193 | pass |
| `schedule_every` | files of a time and an `every` | stops at the violation | violation |

Why these are enough. *Sessions*: the registry is per country and its hazards
are between two sessions of it and a third that kills, or is killed in its turn
by the second kill; with more countries the proofs deal. *Server*: two rows are
the least that can be torn, two sessions the least that can queue on either side
of an update; two updates so that one can follow an interrupted one. *Market,
Loans*: two players are buyer and seller, lender and borrower, in both roles;
two lots are a number taken twice; the amounts and prices are chosen so that a
purchase may be too dear, a stock may be full, and half dollars are cut. *Mail*:
the deity is the special addressee, and one more nation to write and to be
written to. *Shutdown*: four timers are one pending, one being replaced
by each deity, and one to come. *Distribution*: three in a row give a centre that is a member of another group,
a path through somebody else's sector, and a sector between; item 2 weighs twice
as much so that mobility may suffice for one and not for the other; thresholds
below zero, within and beyond `ITEM_MAX`. The run starts from one stock in which
a sector is short of an item, one is full and the centre has some of both;
commands and two updates lead to the others. *Economy*: an update is a function
of the rows and of chance, and knows nothing of the one before, so one is
enough; the four beginnings have a nation that starves or is fed, runs out of
money while it works, is rich, or in debt, and a sector switched off; in the
harbor a ship and a land unit share workers and materials, and one more ship is
at sea; each way a round_avg may fall is a branch.
*World*: the command lines are one with islands that crowd each other, one with two
groups, one without islands, one with more land than the map holds, so that tries
fail, and one whose arguments are refused; a torus of 12 sectors is the least in
which a sector has six different neighbours, and makes every zone overlap. *War*:
each scene has what one kind of command needs and little more: a harbor with an
airfield, ships at war off a fort with artillery, a carrier and an interceptor, a
landing ship off a defended and an empty coast, a launching site, and a crossing;
two commands are enough to load and sail, sink and fly home, take and be taken, spend
twice. *Schedule*: three lines are an anchor, a period and an exception; up to four
times are wanted, which an `every` fills, and a later line displaces.

Bounds are constants whose names begin with `Max`, and appear in guards only;
the proofs hold for all their values.

Symmetry is used by `market` and `loans`, which have no liveness. Deadlock is
checked except where the system may stop: the process exits (`shutdown`), a map is
stored (`world`), a schedule is returned (`schedule`), or a bound on updates or
commands is reached (stated in each configuration with `CHECK_DEADLOCK FALSE`).

### What the code does otherwise

One disagreement has a run that ends in its violation:

* `schedule_every` — `rdsched.rs:135`: "Stop when the schedule is full and the new time
  is beyond the end" (`rdsched.rs:133`), but the value for a time in the past,
  `usize::MAX`, ends the loop, too; an `every` that counts from a time more than a
  step ago schedules nothing.

Three more are held fast by properties of passing runs, which state what the code
does where a comment or a message says otherwise:

* `CountsTelegrams` — `update.rs:365`: the reports of an update increment `tele_cnt`
  (`telegrams.rs:40`: "Increments their `tele_cnt`"), and then the nations' rows loaded
  before are put back with the counters they had (`update.rs:367`).
* `FairShares` — `fairland.rs:802`: "each continent will have {} mountains" is
  printed with `pm * sc / 100` (`main.rs:140`), but the first two sectors of a
  continent are a plateau (`fairland.rs:780`), so that there are at most `sc - 2`:
  `fairland 2 3 0 1 50 70` announces two and makes one, as one of the run's command
  lines shows.
* `RowsInRange` — `plnsub.rs:86`: the mobility of a plane that has flown "Clamps to 0 (cannot
  go negative)" (`plnsub.rs:83`), but `saturating_sub` on `i8` stops at -128, so that a
  plane with less mobility than the flight costs comes home with a debt.

Seen while modelling, within the reach of the modules, but without a run of
their own (properties that hold say so where they are conditional).
*Server, market, mail, loans, update:*
a country whose C_INIT reply cannot be written keeps its entry (`session.rs:308`, the
handler returns through `?` before `leave`, which `state.rs:101` says is called on
disconnect); two sales given the same lot number (`sell.rs:99`, though
`trades.rs:128` says the next available one), the second of which replaces the first
lot; a lot bought and delivered that is refunded a day after its listing
(`marketup.rs:71`); two sessions of one country after a kill; an update that begins after
`disable`; the part of an update that a crash leaves; two buyers who pay for one
lot; goods that are not given back when `next_uid` fails (`sell.rs:101`); the
deity's `read`, which deletes all announcements since they are addressed to
country 0; an announcement made in the second of the last `read w`, which is
announced and cannot be viewed; a telegram that arrives between the query and the
deletion of `read`; repayments below a dollar, which count and transfer nothing;
a default that overwrites a repayment made meanwhile; two overlapping shutdown
commands, which leave a timer nobody can call off; a centre that is drained below
its own threshold by imports; recruits, who are paid under no heading (`enlist`), so
that the estimate of the command `budget` and the treasury differ; nations in debt,
which deliver and distribute as before although `info/budget` says they stop
(`do_deliver` and `do_distribute` never look at a budget); a product whose stock is
full, which still uses up labour and ore; land units away from a headquarters, which
pay all the labour for a third of the growth; the part of `build_eff` that tears a
sector down, which is never reached since `designate` sets both types at once.
*Commands on units and sectors:* two ships loaded by one command from one harbor, which
both take the same goods; a ship specification that cannot be read matches every ship;
`tend` asks for the receiver's owner only, where `info/tend` asks for friends; the
cargo of a scrapped or scuttled ship stays in the wreck's row, and a dead land unit can
be scrapped again; the planes of a ship that sinks stay attached to it; a fort that
fires at its own sector does it no damage; a plane that lands on a runway keeps the
carrier it had, one that flies to where its carrier is counts twice; a range of over 127
points of fuel wraps to a gain (`pln_use_fuel`); a plane sent to look around may land
nowhere and has then cost nothing; bombers shot down are never put; `attack` takes any
number of attackers from anywhere and never applies their losses, although
`info/attack` says it costs lives on both sides; survivors of an assault that wins are
both ashore and aboard, and no war is asked for; the military demobilized are both civilians and
reserve, and `enlist` does not draw on the reserve; several spans bridged by one
command are charged once; `designate` accepts the types of bridges.
*World:* `closest` is "closest continent (-1 = contested)" (`fairland.rs` of
`empire-world`, line 178), but the second search, from the borders of the spheres,
gives a contested sector to whichever continent reaches it, which may be a third
one; an island may so grow where two others are nearer than its own.  `print_map` has an
arm for a "sea sector elevated by prep spillover" (line 865), but raising land reaches
the coast and no further, lowering sea likewise, and `FairShares` shows that no
sector is stored as land that did not grow: the arm is never taken.
*Schedules:* `every 0 hours` never ends; times displaced from a full schedule do not
come back when a later `skip` makes room; an `every` without a time before it counts
from the moment of reading, so that `show updates` and the loop disagree.

## 4. Fairness

`KilledSessionEnds` assumes that Tokio polls every task that is ready and that
the client of the session sends another line: a session that is never sent
anything stays in its read, as in the code. `LockIsGranted`
assumes that the loop's sleep ends, that handlers return (they
make finitely many database calls, and no call waits for another task), and that
whoever is first in the lock's queue is given it; nobody is assumed to send a
command. That last point is Tokio's documented fairness, and needs no assumption
beyond weak fairness here because the queue is in the state. One thing is left
out: the notice of login is written to the socket under the shared lock, and a
client that does not read would stall everybody. `ReadToTheEnd`
assumes only that the reader goes on. The other modules claim no liveness: their
loops are finite, and their commands end by themselves; World's tries end because
they are counted.

## 5. The proofs

All are checked by TLAPS, from the named assumptions on the constants
(`SessionsAssumption` and so on: finiteness where it is needed, naturals, and
distinct model values), for every value of the constants. In each module an
invariant that is inductive is put together from named parts, and every part has
its own lemma per group of actions.

* **SetLemmas.** The sum of a function over a finite set changes by what one or two
  of its values change by; without a theorem of induction to instantiate, each fact
  about sums is shown by a counterexample that is least in cardinality (`LeastSubset`).
  Greatest and least elements, and how many members lie below one.
* **SessionsProofs.** `Typed` adds to the types that a task past the dialogue has
  a country. `Exact` says of undisturbed countries that entry and session are the
  same thing in each phase, and gives `RegistryIsExact` and
  `LoginRecordIsCurrent`. `EntryNamesSession` gives `EntryAlwaysHasSession`;
  `LateOnce` relates the count of late commands to the phase
  (`AtMostOneLateCommand`); `RoomForSessions` strengthens the bound by one when
  the country has no entry, since a new session may enter
  (`SessionsAreBoundedByKills`, with lemmas on cardinality).
  *Mail*: `MailInv` adds to the types that numbers are in use once (`Numbered`) and,
  nation by nation at which nothing has crossed (`TallyOf`), that the counter and the
  senders yet to count make up the telegrams that wait, that a counter about to be
  reset has none, and that every copy of the row to be put back has the counter of
  now; and that what "read" is about to remove has been shown or came late
  (`ReadShown`, `NoneMissed`). The proof has one step per statement of a command;
  `TallyAside` is the common case of a statement that does not count for the nation.
* **GameServerProofs.** `Typed` (the types and `LockHeldByWorkers`) is inductive.
  `RowInv` (a command's copy is of the current update; rows carry at most the
  current update; the loaded image is current) gives `ImageIsCurrent`,
  `CommandsSeeOneUpdate`, `NoUpdateIsLost`. `TornUpdatesArePrefixes`
  rests on it; `DisableInv` and `ForceInv`
  strengthen their theorems by where the loop is. `UpdatesAreSerialized` proves
  the refinement, step by step; it needs `ImageCurrent` and that the rows before the
  next put are the loaded ones with the update's number (`Persisted`), so that a
  finished or broken off update is one step of `GameRounds` (`AllPut`, `CutShort`).
  *Shutdown*: `Alive`: a timer a command is about to store is alive, and
  nobody can abort it, since abortion goes through the handle. `Serial`: as long
  as commands do not overlap there is one command at work and one timer.
  *Schedule*: `WellFormed` is inductive as it stands, once `Position` is known
  to split the list: what is before it is earlier, what follows is not
  (`PositionSplits`); insertion, the cut to `max` and deletion are lemmas on sequences
  of numbers, and the actions only choose among them. `EarliestIsWritten`: the list is
  drawn from what the lines so far ask for (`Drawn`), and whatever it lacks of that comes
  after all it has room for (`Fills`); within an `every` the same holds of the multiples
  reached so far (`During`), since after one multiple comes the next. Only at the end are
  members counted, to say that such a list is the set `Earliest`. That `Written`, a
  recursive function, has the values its definition says is a least counterexample again.
* **MarketProofs, LoansProofs.** The invariant says of each phase what the copies
  made so far allow: a copied treasury covers the price, a copied stock has the
  goods or the room, a copied loan is no further than its row. A put needs
  nothing about the row it replaces. `NeverOverpaid` needs that interest only
  grows, and that the copies of the market loop are sound too. `Order` is a second
  invariant, for commands that do not overlap: one command or the market loop is at
  work (`OneAtWork`), the row it read is still in the state it was read in, and the
  number of a new row is free (`NextUidIsNew`, from the existence of a greatest
  number). It gives `BoughtLotsStay`, whichever calls fail. `LoansAreHandedOverOnce` and
  most of `LoansLiveInOrder` hold with overlap: `Deals` says that the row an accept
  works on is the row it read (`AcceptKeeps`; there is one borrower, and he does one thing
  at a time: `OneAccepts`), and that nobody who repays or defaults holds a copy of an
  offer (`RepayKeeps`, `OverdueKeeps`); `RowMoves` lists what a step may then do to a row.
  The sums rest on both: `Current` says that the copies of the one command at work
  are the rows, but for what it has put already, and `MoneyTally` and `GoodsTally` (in
  Market), `MoneyTally` (in Loans) that the sum differs from what there was at first by
  what a command between two puts has taken and not yet given; in Loans also that the
  two parties of a loan are different nations (`Parties`), and that no number in use is
  greater than the count of the offers that have ended (`Numbers`).
* **EconomyProofs.** `Typed` says that every number is whole, which takes most of the
  pages: a cost is a number only if its denominator is not zero, and that follows
  from guards (`LessPositive`: a batch is positive only if workers, ore and materials
  are). `Balanced` says of every state that a balance has changed by what is booked
  and by the pay of recruits (`Kept`: booking keeps the difference); with `Written`
  it gives `TreasuriesAreAccounted`. `Once` adds to `OnceOnCredit` that whoever has
  gone into debt by building is still in debt and past the taxes. `RangeInv` keeps
  stocks within their range and prepared sectors settled: a batch stays under each limit
  computed before (workers, ore, materials, room), and rounding it by chance stays below
  the next whole limit, so the cut at zero is never needed (`LimitsAreEnough`). What it
  takes from the tables of the game is `TablesAssumption`: a sector type holds no more
  people than `ITEM_MAX`, a product neither makes nor takes people nor takes an item
  twice, and the share an oil field loses is a whole one; the tables in the code are so,
  and TLC evaluates it on the run's.
  *Distribution*: `CarriedIsPaid` is the arithmetic: a quotient cut down
  is no more than what is wanted or available. `Moves` says what any carriage
  changes, whoever pays; `Ranges` (stocks in range and thresholds not negative,
  together) is inductive. `ThresholdsAreRespected` and `MobilityIsNotOverdrawn`
  are read off `Moves`. `Directed` (cells to deliver have a direction) is needed
  because the cells were chosen when the pass began. `GoodsAreConserved` takes from
  `Moves` that both ends of a carriage belong to one nation (`OneOwner`) and sums over its
  sectors; `PassesAreComplete` follows what a pass has visited so far (`VisitsSettled`):
  whatever kept a cell from being served fully still does after the rest of the pass.
* **WorldProofs.** Four parts are inductive together: `WellTyped`, `Land` (bits of
  adjacent land, owners and lists of sectors agree), `Progress` (how many sectors each
  continent and island has, what each finished group was cut to, what is carried) and
  `Queue` (what waits in the search is sorted by distance, differs by one at most and is
  there once; the ring buffer never wraps onto itself). They give `WorldTypeCorrect` and
  the shares of size. The geometry of the torus is a part of its own: `MapDist` is
  symmetric, a step changes it by one at most, and from everywhere a step gets nearer.
  *Search*: `Reach` says that what has been found has its distance, and what has not is
  no nearer than what waits; `Claims` that a sector belongs to a continent exactly if all
  the neighbours it was reached from do. *Places*: `ZonesKept` (the zones cover
  everything within the distance, because rings do) gives `AllApart`; `SpheresKept`
  carries the result of the search through the second one to `NearOwn`: a sector taken
  for an island is not where another continent alone is nearest. *Drift*: a capital moves
  only to where its nearest neighbour is no nearer. *Heights*: what is stored is what was
  computed and stays within a byte; the sea is never raised above zero; the
  ranks of the slopes of a continent run through the numbers from one to its size, so that
  all continents have the same heights, ranked differently (`SharesAreFair`).

* **WarProofs.** `WarInv` is the three invariants together, inductive as they stand but
  not apart: a hold that fits needs rows in range, and a berth a plane that is where its
  ship is. A handler is a fold over a sequence of units or sectors, so its steps are shown to stay
  in a set of worlds, and the fold with them (`FoldExists`, by least counterexample).
  There is one such set for each thing that may change: `Quiet`, if neither ships move nor
  planes change their berths, and no ship loses efficiency unless it sinks; `Fought`, if
  ships are hit; `Still`, if planes move; `Afloat`, for ships on their way. That
  a step into the set keeps the invariant is shown once, for all handlers that use it.
  `Housed` asks for an assignment of planes to berths: from the counts of
  `ship_can_carry` one is built (`Placed`), and a ship that gives up planes keeps a part
  of its own (`Lighter`). Spending for many sectors of rows read before is safe since
  each row is visited once (`AscendingEach`); the treasury of `demobilize` since the loop
  compares it with the total so far. What is assumed of the tables is `TablesAssumption`
  (costs and capacities are naturals, fuel fits a signed byte), of the start
  `StartsAssumption`: the rows satisfy the invariant to begin with; TLC evaluates both
  on the run's.
  `NoShotIsFree` compares the two ends of a command, so no step of it can be looked at
  alone: `Fair` says of a world, against the rows at the start of the command, that a ship
  which is hit and afloat has cost somebody else a shell or a plane its mobility. The
  loops of those who fire stay in sets that relate the two losses (`Exchange` for ships
  that fire and are answered, `Afloat` for forts along a voyage): no shell comes back, and
  whoever has lost efficiency has cost one to the other side; the put at the end, from a
  copy read before, writes the row that was charged.

`RegistryIsAccountedFor`, `MarketStaysWithinBounds` and `LoansStayWithinBounds` put
together the theorems on the parts of a property.

Only model-checked: all liveness (`KilledSessionEnds`, `LockIsGranted`,
`ReadToTheEnd`: no prover for it here), and War's `NothingFromNothing`: it sums over
every row of every table, and each of the folds would have to keep that sum.

## 6. What is left out

* Sessions: the text of the login notice, options, and the user name; a password
  is right or wrong by choice.
* GameServer: what an update computes; a socket that blocks under the lock.
* Market: one sector and one commodity per country; the deity who buys its own
  lots; the mobility some sectors pay.
* Mail: a failing update; the text.
* Loans: the telegrams the commands send (they are Mail's).
* Distribution: stocks changed by production between the steps; rows that a
  command read before another changed them; `i16` overflow for thresholds near
  -32768; the steps of Dijkstra's algorithm.
* Economy: how fast levels grow; which goods are carried, and the mobility (both in
  Distribution); loading and storing, and a failure between them (GameServer);
  the reports to players; commands other than `designate`.
* World: the map it prints; positions that are no sectors, but for the least elevation.
* Forces and the commands on them: the overlap of commands; news and telegrams; names,
  fleets, wings and missions; coastwatch sightings, which only send telegrams; nuclear
  weapons; plague; land units and planes carried by land units, which no command of the
  port puts there. The deity may give every command (`IsDeity`), but is no player in the
  run.
* Schedule: spellings; the overflow of a period of billions of hours; the two half
  minutes in which a caller's moment lies are one (as for all three callers).
* `capital`, `add` (and its `newcap`), `change`, `toggle`, and the commands that only
  read and format.
* Between modules: each has the nation's row to itself, or the part of it that
  it needs. The composition over whole rows is planned.

## 7. Plan

In this order:

1. *Nation rows.* One module that composes the commands that put back a whole
   nation row (`change`, `capital`, `toggle`, `nation_cmd`, `record_login`,
   market, loans, mail): an abstract row of independent columns, and which
   columns survive which overlaps.
2. *Overlapping commands on units:* two of War's commands with their reads and puts
   apart: two builders given one number (`next_ship_uid`), a ship that is fired at
   while it sails.
3. *Dijkstra.* `dijkstra_dist` as a state machine with its heap, duplicates and
   early insertions, shown to compute the `PathCosts` of Distribution.
4. *Update engine.* Economy composed with Distribution instead of
   Economy's `Carry`; the levels; the command `budget`, which simulates an update for its
   estimate, against what the update then does.
5. *Extensions:* GameServer with a socket that blocks; Shutdown composed with
   GameServer's crash.

Proofs to add: in War, `NothingFromNothing`; that Dijkstra's loop keeps every
distance the cost of some path.

The runs stay at about a dozen: a new module brings one run for all that it
guarantees, with history variables for the conditions, and an older violation
makes room when a more telling one is found.
