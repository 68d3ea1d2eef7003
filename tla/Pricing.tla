------------------------------- MODULE Pricing ------------------------------
(***************************************************************************)
(* core pricing/ and cli pricing_refresh.rs: the price tables.  A table    *)
(* maps the names of models to prices; the hub fetches one a day, writes   *)
(* it beside the database, publishes it, and has what is stored priced     *)
(* anew.  Sessions record what their costs are computed from; those of     *)
(* older versions do not, and are read again when a price they depend on   *)
(* moves (discovery/incremental.rs).                                       *)
(*                                                                         *)
(* A name is a sequence of tokens and separators.  Prices are numbers per  *)
(* token; rounding is left out.  A generation is its table: the digest of  *)
(* the names and of their prices.                                          *)
(***************************************************************************)
EXTENDS Naturals, Sequences, SequencesExt, FiniteSetsExt, Functions, TLC

CONSTANTS
    Numbers, Dates,     \* the tokens that are a version's digits, and snapshot dates
    Originals,          \* the providers that make the models they sell
    Makers,           \* the providers a bare name is tried under, in order
    AliasOf,            \* other names of models
    Multipliers,        \* service tier -> name -> what it multiplies the price by
    Snapshot,           \* the bundled table
    Ttl,                \* how long a fetched table is fresh
    NoPrice,
    Requests,           \* what a session is made of: [tokens, aggregate]
    Models,             \* the names it may be of
    PriceBounds         \* bounds to choose from: each [start, clock, back, failures, crashes,
                        \* touches, offers, file, model, next], start and clock being the first
                        \* and the last time, offers what the site serves, file what is on
                        \* disk, model that of the sessions and next another one

VARIABLES
    clock,
    priceFile,      \* models-dev-pricing.json: <<>> or <<[time, prices]>>
    hub,            \* the program: [on, published, pending, step, previous]
    scanner,        \* a scanner: [step, generation, state, rejected, initialized, batch]
    saved,          \* its committed state: [generation, dependencies, known]
    session,        \* the model named in the older session's file
    cost,           \* stored costs: of the older session, and the table that one which has
                    \* its inputs was last priced with
    spent, limit
priceVars == <<clock, priceFile, hub, scanner, saved, session, cost, spent, limit>>

Spend(what) == spent[what] < limit[what] /\ spent' = [spent EXCEPT ![what] = @ + 1]

----------------------------------------------------------------------------
(* Pricing::resolve_price: the name a model is priced under.               *)

Before(name, separator) ==
    LET at == SelectInSeq(name, LAMBDA t : t = separator)
    IN  IF at = 0 THEN name ELSE SubSeq(name, 1, at - 1)
AfterLast(name, separator) ==
    LET at == SelectLastInSeq(name, LAMBDA t : t = separator)
    IN  SubSeq(name, at + 1, Len(name))
WithoutDate(name) ==
    IF Len(name) > 2 /\ name[Len(name)] \in Dates /\ name[Len(name) - 1] = "-"
    THEN SubSeq(name, 1, Len(name) - 2) ELSE name
Alias(name) == IF name \in DOMAIN AliasOf THEN AliasOf[name] ELSE name

(* A table's price of exactly this name, if it costs anything.             *)
Listed(prices, name) == name \in DOMAIN prices /\ prices[name].rate > 0
NameCandidates(name) ==
    LET versionless == WithoutDate(Before(name, "@"))
        stripped == AfterLast(versionless, "/")
    IN  <<versionless, Alias(versionless), stripped, Alias(stripped)>>
        \o [i \in DOMAIN Makers |-> <<Makers[i], "/">> \o stripped]
(* A number cut from behind a number is a newer version, a date is not.    *)
DropsVersion(kept, dropped) ==
    /\ dropped # <<>> /\ dropped[1] \in Numbers
    /\ kept # <<>> /\ Last(kept) \in Numbers \cup Dates
(* What is left of a name when it is cut at a dash, from behind.           *)
Cuts(name) ==
    LET cut(i) == /\ name[i] = "-"
                  /\ ~DropsVersion(SubSeq(name, 1, i - 1), SubSeq(name, i + 1, Len(name)))
        places == SelectSeq([i \in DOMAIN name |-> i], cut)
    IN  Reverse([k \in DOMAIN places |-> SubSeq(name, 1, places[k] - 1)])
WithCuts(name, candidates) ==
    <<name>> \o FlattenSeq([i \in DOMAIN candidates |-> <<candidates[i], Alias(candidates[i])>>])
    \o FlattenSeq([i \in DOMAIN candidates |-> Cuts(candidates[i])])
KeysToTry(name) == WithCuts(name, NameCandidates(name))
NoKey == <<>>
(* tier::split: the tier a request was served on is part of its name.      *)
Tiered(name) == Len(name) > 2 /\ name[Len(name) - 1] = "@" /\ Last(name) \in DOMAIN Multipliers
Base(name) == IF Tiered(name) THEN SubSeq(name, 1, Len(name) - 2) ELSE name
KeysOf == [name \in {Base(n) : n \in Models} |-> KeysToTry(name)]
FirstListed(prices, keys) ==
    LET listed == {i \in DOMAIN keys : Listed(prices, keys[i])}
    IN  IF listed = {} THEN NoKey ELSE keys[Min(listed)]
KeyOf(prices, name) == FirstListed(prices, KeysOf[name])
PriceAt(prices, key) == IF key = NoKey THEN NoPrice ELSE prices[key]
Resolve(prices, name) == PriceAt(prices, KeyOf(prices, name))

Multiplier == [name \in Models |->
    IF ~Tiered(name) THEN 1
    ELSE LET bare == AfterLast(Base(name), "/")
             variants == {i \in DOMAIN bare : i = Len(bare) \/ bare[i + 1] = "-"}
             known == {i \in variants : SubSeq(bare, 1, i) \in DOMAIN Multipliers[Last(name)]}
         IN  IF known = {} THEN 1 ELSE Multipliers[Last(name)][SubSeq(bare, 1, Max(known))]]

(* Price::for_request: above a threshold the whole request is dearer; not  *)
(* so for the tokens of several requests together.                         *)
Rate(price, tokens, aggregate) ==
    IF ~aggregate /\ price.long # <<>> /\ tokens > price.long[1].above
    THEN price.long[1].rate ELSE price.rate
CostAt(price, input) ==
    IF price = NoPrice THEN 0
    ELSE Rate(price, input.tokens, input.aggregate) * input.tokens * Multiplier[input.model]
Estimate(prices, input) == CostAt(Resolve(prices, Base(input.model)), input)
Inputs == [model \in Models |->
    [i \in DOMAIN Requests |-> [model |-> model, tokens |-> Requests[i].tokens,
                                aggregate |-> Requests[i].aggregate]]]
Costs(prices, inputs) == [i \in DOMAIN inputs |-> Estimate(prices, inputs[i])]

(* CostInput as it is stored.                                              *)
StoredInput(input) == [model |-> input.model, tokens |-> input.tokens, aggregate |-> input.aggregate]
Stored == [model \in Models |-> [i \in DOMAIN Requests |-> StoredInput(Inputs[model][i])]]
Repriced(prices) == Costs(prices, Stored[limit.model])

(* capture_dependencies: every name that was looked up, with its price or  *)
(* the lack of one.                                                        *)
Captured(prices, inputs) ==
    [n \in {Base(inputs[i].model) : i \in DOMAIN inputs} |-> Resolve(prices, n)]
MatchesDependencies(prices, dependencies) ==
    \A n \in DOMAIN dependencies : Resolve(prices, n) = dependencies[n]

----------------------------------------------------------------------------
(* registry.rs: a table of what the site offers, over the bundled one.     *)

(* Of the offers of a bare name, one of a maker of models goes first.      *)
Wins(offers, i) ==
    \A j \in DOMAIN offers :
        j # i /\ offers[j].model = offers[i].model =>
            LET own(k) == offers[k].provider \in Originals
            IN  (own(i) /\ ~own(j)) \/ (own(i) = own(j) /\ i < j)
Qualified(offer) == <<offer.provider, "/">> \o offer.model
ParseModelsDev(offers) ==
    LET names == {offers[i].model : i \in DOMAIN offers}
        qualified == {Qualified(offers[i]) : i \in DOMAIN offers}
    IN  [n \in qualified |-> (CHOOSE o \in ToSet(offers) : Qualified(o) = n).price]
        @@ [n \in names |-> offers[CHOOSE i \in DOMAIN offers : offers[i].model = n
                                                                /\ Wins(offers, i)].price]
Staged == [offers \in {bound.offers : bound \in PriceBounds} |-> ParseModelsDev(offers) @@ Snapshot]

(* Price::json and from_cache.                                             *)
Cached(price) == [rate |-> price.rate, long |-> price.long]
WriteTable(prices) == <<[time |-> clock, prices |-> [n \in DOMAIN prices |-> Cached(prices[n])]]>>

(* read_cache: <<>> when there is none, when it is from the future, when   *)
(* it is too old to be fresh, or when it holds no price.                   *)
Readable(fresh) ==
    /\ priceFile # <<>> /\ priceFile[1].time <= clock
    /\ ~(fresh /\ clock - priceFile[1].time >= Ttl)
    /\ DOMAIN priceFile[1].prices # {}
Fresh == Readable(TRUE)
Load == IF Readable(FALSE) THEN priceFile[1].prices @@ Snapshot ELSE Snapshot

----------------------------------------------------------------------------
(* refresh_once and PricingController, of the program that is running.     *)

At(step) == hub.on /\ hub.step = step
Go(step) == hub' = [hub EXCEPT !.step = step]
HubOnly == UNCHANGED <<clock, scanner, saved, session, limit>>

Boot ==
    /\ ~hub.on
    /\ hub' = [on |-> TRUE, published |-> Load, pending |-> <<>>, step |-> "start", previous |-> Load]
    /\ UNCHANGED <<clock, priceFile, scanner, saved, session, cost, spent, limit>>
(* What has its inputs is priced at the table published now.               *)
RepriceStored ==
    /\ At("start") /\ hub' = [hub EXCEPT !.step = "check", !.previous = hub.published]
    /\ cost' = [cost EXCEPT !.pricedWith = hub.published]
    /\ HubOnly /\ UNCHANGED <<priceFile, spent>>
NeedsRefresh == hub.pending = <<>> /\ ~Fresh
Check ==
    /\ At("check") /\ Go(IF NeedsRefresh THEN "fetch" ELSE "publish")
    /\ HubOnly /\ UNCHANGED <<priceFile, cost, spent>>
Fetch ==
    /\ At("fetch")
    /\ hub' = [hub EXCEPT !.step = "publish",
                          !.pending = IF limit.offers = <<>> THEN <<>> ELSE <<Staged[limit.offers]>>]
    /\ HubOnly /\ UNCHANGED <<priceFile, cost, spent>>
FetchFails ==
    /\ At("fetch") /\ Spend("failures") /\ Go("sleep")
    /\ HubOnly /\ UNCHANGED <<priceFile, cost>>
NothingPending ==
    /\ At("publish") /\ hub.pending = <<>> /\ Go("sleep")
    /\ HubOnly /\ UNCHANGED <<priceFile, cost, spent>>
(* A commit holds the read lock.  Mutant: it does not.                     *)
MayPublishAnytime(step) == TRUE
MayPublish(step) == step # "committing"
WriteCache ==
    /\ At("publish") /\ hub.pending # <<>> /\ MayPublish(scanner.step)
    /\ \E table \in {WriteTable(hub.pending[1])} : priceFile' = table
    /\ Go("written")
    /\ HubOnly /\ UNCHANGED <<cost, spent>>
WriteFails ==
    /\ At("publish") /\ hub.pending # <<>> /\ MayPublish(scanner.step)
    /\ Spend("failures") /\ Go("sleep")
    /\ HubOnly /\ UNCHANGED <<priceFile, cost>>
Swap ==
    /\ At("written")
    /\ hub' = [hub EXCEPT !.published = hub.pending[1], !.pending = <<>>,
                          !.step = IF hub.pending[1] # hub.previous THEN "apply" ELSE "sleep"]
    /\ HubOnly /\ UNCHANGED <<priceFile, cost, spent>>
Apply ==
    /\ At("apply") /\ Go("sleep")
    /\ cost' = [cost EXCEPT !.pricedWith = hub.published]
    /\ HubOnly /\ UNCHANGED <<priceFile, spent>>
WakeUp ==
    /\ At("sleep") /\ Go("start")
    /\ HubOnly /\ UNCHANGED <<priceFile, cost, spent>>

Tick ==
    /\ clock < limit.clock /\ clock' = clock + 1
    /\ UNCHANGED <<priceFile, hub, scanner, saved, session, cost, spent, limit>>
SetBack ==
    /\ clock > 0 /\ Spend("back") /\ clock' = clock - 1
    /\ UNCHANGED <<priceFile, hub, scanner, saved, session, cost, limit>>

----------------------------------------------------------------------------
(* AgentScanner: refresh_with_checkpoint and restore, for a session whose  *)
(* inputs are not stored.                                                  *)

NoState == [generation |-> <<>>, dependencies |-> <<>>, known |-> <<>>]
NewScanner ==
    [step |-> "idle", generation |-> <<>>, state |-> NoState, rejected |-> FALSE,
     initialized |-> FALSE, batch |-> <<>>]
Moved(prices, state) ==
    state.generation # prices /\ ~MatchesDependencies(prices, state.dependencies)
(* What was saved, but the session unread when its price has moved.        *)
RestoredState(prices) ==
    [saved EXCEPT !.generation = prices, !.known = IF Moved(prices, saved) THEN <<>> ELSE @]
Scan ==
    /\ hub.on /\ scanner.step = "idle"
    /\ \E prices \in {hub.published} :
       \E state \in {IF scanner.rejected \/ ~scanner.initialized \/ Moved(prices, scanner.state)
                     THEN RestoredState(prices) ELSE [scanner.state EXCEPT !.generation = prices]} :
          scanner' = [step |-> "scanned", generation |-> prices, rejected |-> FALSE,
                      initialized |-> TRUE,
                      state |-> IF state.known = session THEN state
                                ELSE [state EXCEPT !.known = session,
                                         !.dependencies = Captured(prices, Inputs[session]) @@ @],
                      batch |-> IF state.known = session THEN <<>>
                                ELSE Costs(prices, Inputs[session])]
    /\ UNCHANGED <<clock, priceFile, hub, saved, session, cost, spent, limit>>
(* with_current: a batch of an older generation is rejected.               *)
BeginCommit ==
    /\ hub.on /\ scanner.step = "scanned" /\ hub.step # "written"
    /\ scanner' = IF scanner.generation = hub.published
                  THEN [scanner EXCEPT !.step = "committing"]
                  ELSE [scanner EXCEPT !.step = "idle", !.rejected = TRUE, !.batch = <<>>]
    /\ UNCHANGED <<clock, priceFile, hub, saved, session, cost, spent, limit>>
Commit ==
    /\ hub.on /\ scanner.step = "committing"
    /\ saved' = scanner.state
    /\ cost' = [cost EXCEPT !.old = IF scanner.batch = <<>> THEN @ ELSE scanner.batch]
    /\ scanner' = [scanner EXCEPT !.step = "idle", !.batch = <<>>]
    /\ UNCHANGED <<clock, priceFile, hub, session, spent, limit>>
(* The agent writes the file: another model.                               *)
Touch ==
    /\ Spend("touches") /\ session' = limit.next
    /\ UNCHANGED <<clock, priceFile, hub, scanner, saved, cost, limit>>
Crash ==
    /\ hub.on /\ Spend("crashes")
    /\ hub' = [hub EXCEPT !.on = FALSE, !.step = "off"]
    /\ scanner' = NewScanner
    /\ UNCHANGED <<clock, priceFile, saved, session, cost, limit>>

PriceInit ==
    /\ limit \in PriceBounds
    /\ clock = limit.start /\ priceFile = limit.file
    /\ hub = [on |-> FALSE, published |-> <<>>, pending |-> <<>>, step |-> "off", previous |-> <<>>]
    /\ scanner = NewScanner /\ saved = NoState
    /\ session = limit.model
    /\ cost = [old |-> <<>>, pricedWith |-> <<>>]
    /\ spent = [failures |-> 0, crashes |-> 0, touches |-> 0, back |-> 0]
Refreshing ==
    \/ RepriceStored \/ Check \/ Fetch \/ NothingPending \/ WriteCache \/ Swap \/ Apply \/ WakeUp
Scanning == BeginCommit \/ Commit
PriceNext ==
    \/ Boot \/ RepriceStored \/ Check \/ Fetch \/ FetchFails \/ NothingPending \/ WriteCache
    \/ WriteFails \/ Swap \/ Apply \/ WakeUp \/ Tick \/ SetBack \/ Scan \/ BeginCommit \/ Commit
    \/ Touch \/ Crash
(* Tasks go on and time passes.  The lock lets a waiting writer in before  *)
(* the next reader.                                                        *)
PriceFairness ==
    /\ SF_priceVars(Refreshing) /\ WF_priceVars(Scanning) /\ WF_priceVars(Tick)
PriceSpec == PriceInit /\ [][PriceNext]_priceVars /\ PriceFairness

----------------------------------------------------------------------------

(* The version a name names: the numbers that follow each other first.     *)
VersionOf(name) ==
    LET bare == WithoutDate(AfterLast(Before(name, "@"), "/"))
        first == SelectInSeq(bare, LAMBDA t : t \in Numbers)
        run == {j \in first .. Len(bare) : ToSet(SubSeq(bare, first, j)) \subseteq Numbers \cup {"-"}}
    IN  IF first = 0 THEN <<>>
        ELSE SelectSeq(SubSeq(bare, first, Max(run)), LAMBDA t : t # "-")

(* The names tried for a model that name its version, or none.             *)
SameVersion == [name \in DOMAIN KeysOf |->
    {key \in ToSet(KeysOf[name]) :
        VersionOf(key) \in {<<>>, VersionOf(Alias(AfterLast(name, "/")))}}]

(* However a name is dated, qualified, aliased and cut, it is never priced *)
(* as another version of its model (pricing.rs:74).                        *)
FallbackKeepsVersion ==
    hub.on => \A n \in DOMAIN KeysOf : KeyOf(hub.published, n) \in SameVersion[n] \cup {NoKey}

(* The program that starts after a table was published has that table,     *)
(* whatever kind of prices it holds (manager.rs:109).                      *)
RestartKeepsPrices ==
    [][hub.step = "written" /\ hub.published' # hub.published =>
          clock < priceFile[1].time \/ Load = hub'.published]_priceVars

(* What a scan computed is committed only while the table it computed with *)
(* is the published one, to the end of the commit (controller.rs:122).     *)
CommitsAreCurrent == [][saved' # saved => scanner.generation = hub'.published]_priceVars

(* A session that does not say what it was computed from costs what the    *)
(* table of its last scan says it costs: a price that came, went or moved  *)
(* had it read again (incremental.rs:205, 840).                            *)
OldCostsFollow ==
    scanner.step = "idle" /\ scanner.generation # <<>> /\ ~scanner.rejected /\ saved.known = session
        => cost.old = Costs(scanner.generation, Inputs[session])

(* One that does is priced anew to what a scan would compute (inputs.rs:76). *)
RepricedAsScanned ==
    hub.on /\ hub.step \notin {"start", "apply"} /\ hub.published = hub.previous
        => Repriced(cost.pricedWith) = Costs(hub.published, Inputs[limit.model])

(* While a program runs that can reach the site, and no clock is set back, *)
(* in the end it prices by what the site offers (pricing_refresh.rs:34).     *)
PricesArrive ==
    <>[](hub.on /\ spent.back = 0 =>
             limit.offers = <<>> \/ hub.published = Staged[limit.offers])
=============================================================================
