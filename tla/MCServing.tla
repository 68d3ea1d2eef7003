------------------------------ MODULE MCServing ------------------------------
(***************************************************************************)
(* What the Hub does for browsers, on small instances: the stream of       *)
(* events (EventStream) and, beside it, the prices it keeps up to date     *)
(* (Pricing) and the log it writes (Logging).  A behaviour is of one of    *)
(* them, `part'; the variables of the others stay as they are.             *)
(***************************************************************************)
EXTENDS Pricing

CONSTANTS
    Parts,      \* the parts to look at
    c1, c2

VARIABLES
    part,
    heads, status, unsent, published, stopping, stream, client, streamUsed, streamLimit,
    logQueue, dropped, sequence, closed, finished, error, writer, directory, living, journal,
    emitted, logUsed, logLimit

streamOnly == <<heads, status, unsent, published, stopping, stream, client,
                streamUsed, streamLimit>>
logOnly == <<logQueue, dropped, sequence, closed, finished, error, writer, directory, living,
             journal, emitted, logUsed, logLimit>>
servingVars == <<part, streamOnly, logOnly, priceVars>>

(* Changes in and out of a client's scope; a change and a status; more     *)
(* statuses than the buffer holds; two clients for one permit.             *)
StreamScope(clients, changes, statuses, connects) ==
    [clients |-> clients, scope |-> {"a"}, changes |-> changes, statuses |-> statuses,
     connects |-> connects]
StreamScopes == {StreamScope({c1}, 2, 0, 1), StreamScope({c1}, 1, 1, 1),
                 StreamScope({c1}, 0, 3, 1), StreamScope({c1, c2}, 0, 1, 2)}
Events == INSTANCE EventStream WITH Clients <- {c1, c2}, Sessions <- {"a", "b"},
    MaxStreams <- 1, MaxCritical <- 3, Capacity <- 1, StreamBounds <- StreamScopes,
    used <- streamUsed, limit <- streamLimit

(* A site with a gateway and the maker; a file of an earlier run; a site   *)
(* that cannot be reached.                                                 *)
Flat(rate) == [rate |-> rate, long |-> <<>>]
Long(rate, above, beyond) == [rate |-> rate, long |-> <<[above |-> above, rate |-> beyond]>>]
O4 == <<"opus", "-", "4">>
O49 == <<"opus", "-", "4", "-", "9">>
Offer(provider, model, price) == [provider |-> provider, model |-> model, price |-> price]
Site == <<Offer("gate", O49, Flat(1)), Offer("maker", O4, Long(4, 5, 8)), Offer("gate", O4, Flat(9)),
          Offer("maker", <<"k", "-", "2">>, Flat(0))>>
Site2 == <<Offer("maker", O49, Long(2, 5, 3))>>
Names == {O4, O49, <<"4", "-", "opus">>, O4 \o <<"-", "d1">>, O4 \o <<"-", "d1", "-", "mini">>,
          O49 \o <<"-", "mini">>, <<"gate", "/">> \o O4 \o <<"@", "fast">>, <<"k", "-", "2">>,
          <<"k", "-", "3">>, <<"opus", "-", "mini">>}
Asked(tokens, aggregate) == [tokens |-> tokens, aggregate |-> aggregate]
PriceScope(start, end, back, failures, crashes, touches, offers, file, model, next) ==
    [start |-> start, clock |-> end, back |-> back, failures |-> failures, crashes |-> crashes,
     touches |-> touches, offers |-> offers, file |-> file, model |-> model, next |-> next]
File(time, rate) == <<[time |-> time, prices |-> O4 :> Flat(rate)]>>
PriceScopes == {PriceScope(0, 2, 0, 1, 1, 1, Site, <<>>, O49, O4),
                PriceScope(1, 3, 1, 0, 1, 0, Site, File(0, 6), O4, O4),
                PriceScope(0, 3, 0, 1, 0, 0, Site2, File(1, 7), O49 \o <<"-", "mini">>, O4),
                PriceScope(0, 1, 0, 0, 1, 1, <<>>, <<>>, O4, O49)}
MCMakers == <<"maker">>
MCAliases == [x \in {<<"4", "-", "opus">>} |-> O4]
MCMultipliers == [x \in {"fast"} |-> [y \in {O4} |-> 2]]
MCSnapshot == (O4 :> Flat(3)) @@ (<<"maker", "/", "k", "-", "2">> :> Flat(5))
MCRequests == <<Asked(2, FALSE), Asked(7, FALSE), Asked(7, TRUE)>>

(* More records than the queue holds; a writer that fails while it is told *)
(* to flush; another program that writes and prunes the same files.        *)
LogScope(emits, flushes, faults, others, records) ==
    [emits |-> emits, flushes |-> flushes, faults |-> faults, others |-> others,
     records |-> records]
LogScopes == {
    LogScope(4, 0, 0, 0, {<<0, 1>>, <<1, 1>>, <<2, 2>>, <<3, 3>>}),
    LogScope(3, 1, 2, 0, {<<1, 2>>}),
    LogScope(2, 0, 1, 3, {<<1, 2>>}), LogScope(3, 0, 0, 3, {<<1, 2>>})}
Log == INSTANCE Logging WITH MaxQueue <- 4, MaxFile <- 3, MaxFiles <- 2, LogBounds <- LogScopes,
    queue <- logQueue, used <- logUsed, limit <- logLimit

Only(name, bound, scopes) ==
    bound \in scopes /\ (part # name => bound = CHOOSE b \in scopes : TRUE)
ServingInit ==
    /\ part \in Parts
    /\ Only("events", streamLimit, StreamScopes) /\ Events!StreamInit
    /\ Only("log", logLimit, LogScopes) /\ Log!LogInit
    /\ Only("prices", limit, PriceScopes) /\ PriceInit
ServingNext ==
    /\ UNCHANGED part
    /\ \/ part = "events" /\ Events!StreamNext /\ UNCHANGED <<logOnly, priceVars>>
       \/ part = "log" /\ Log!LogNext /\ UNCHANGED <<streamOnly, priceVars>>
       \/ part = "prices" /\ PriceNext /\ UNCHANGED <<streamOnly, logOnly>>

(* The fairness of each part, as its module justifies it: of steps of that *)
(* part, which leave the variables of the others as they are.              *)
Serve(c) == part = "events" /\ Events!Tasks(c)
Refresh == part = "prices" /\ Refreshing
Scans == part = "prices" /\ Scanning
Ticks == part = "prices" /\ Tick
Writer == part = "log" /\ Log!WriterSteps
ServingFairness ==
    /\ \A c \in {c1, c2} : WF_streamOnly(Serve(c))
    /\ SF_priceVars(Refresh) /\ WF_priceVars(Scans) /\ WF_priceVars(Ticks)
    /\ WF_logOnly(Writer)
ServingSpec == ServingInit /\ [][ServingNext]_servingVars /\ ServingFairness

(* A stream's buffer is sound and bounded, loses no milestone, leaves a    *)
(* client that has caught up current, and gives its permit back.           *)
StreamSafe ==
    part = "events" =>
        /\ Events!BufferSound /\ Events!BufferBounded /\ Events!PermitsKept
        /\ Events!CaughtUpIsCurrent /\ Events!MilestonesKept
StreamCorrect == []StreamSafe /\ Events!StreamsEnd

(* Prices are found, stored, published and read back as they came.         *)
PricesSafe == part = "prices" => FallbackKeepsVersion /\ OldCostsFollow /\ RepricedAsScanned
HubPricesArrive == part = "prices" => PricesArrive
PricesCorrect == []PricesSafe /\ RestartKeepsPrices /\ CommitsAreCurrent /\ HubPricesArrive

(* Every record is written in order or counted as dropped, the least severe *)
(* first; lines are whole, the directory is bounded, the newest file of    *)
(* each other program is kept, and a flush answers for what it says.       *)
LogSafe ==
    part = "log" => Log!Accounted /\ Log!InOrder /\ Log!LinesWhole /\ Log!DirectoryBounded
LogCorrect ==
    []LogSafe /\ Log!EvictsLowest /\ Log!FlushHonest /\ Log!OthersKept /\ Log!LogEnds
=============================================================================
