------------------------------- MODULE Ingest -------------------------------
(***************************************************************************)
(* The import jobs of the maintenance queue: statistics of four leagues    *)
(* (statsetl), injuries and weather.  A job is inserted once per unique    *)
(* arguments, worked by any process, fetches what a site says at that      *)
(* moment, and writes it in one transaction.                               *)
(*                                                                         *)
(* A behaviour has one feed.  A day is a number in a calendar of twelve    *)
(* months of thirty days, an instant a number of quarters of an hour.  A   *)
(* raw identifier of a site is a number whose tens are what is left of it  *)
(* after normalisation: 10 and 11 are two spellings, below 10 it is blank. *)
(***************************************************************************)
EXTENDS Integers, Sequences, FiniteSets

CONSTANTS Workers,
          FirstDay, LastDay,
          MaxTries,     \* [feed -> attempts of a job, 25 in River] (a bound)
          MaxAsked,     \* bound: jobs inserted in a behaviour
          Requests,     \* [feed -> set of [season, kind, date]], 0 and "" for unset
          Answers,      \* [feed -> sequence of what the site may say]
          Fixtures      \* games: [id, sport, home, at]

VARIABLES feed,
          today,
          site,         \* [day -> an index of Answers[feed]]
          queue,        \* job arguments -> [state, requested, tries]
          asked,        \* jobs inserted so far, for MaxAsked
          work,         \* [Workers -> the run of a job, and its transaction]
          table         \* key -> [val, day], the committed rows

ingestVars == <<feed, today, site, queue, asked, work, table>>

Leagues == {"mlb", "nba", "nhl", "nfl"}
Feeds == Leagues \cup {"injuries", "weather"}

Days == FirstDay..LastDay
Month(day) == (day % 360) \div 30 + 1
Year(day) == 2 + day \div 360
Quarters == 96

Slug(raw) == raw \div 10

NoArgs == [season |-> 0, kind |-> "", date |-> 0]
NoRows == [key \in {} |-> 0]
Resting == [at |-> "idle", job |-> NoArgs, args |-> NoArgs, parts |-> <<>>,
            games |-> <<>>, rows |-> <<>>, wrote |-> NoRows]

IsSeq(items) == items \in Seq({items[i] : i \in DOMAIN items})

Put(rows, key, row) == [k \in DOMAIN rows \cup {key} |-> IF k = key THEN row ELSE rows[k]]

\* Parts of an answer are sequences; a game has an id of its own; requests name
\* days of the calendar.
ASSUME IngestAssumption ==
  /\ FirstDay \in Nat \ {0} /\ LastDay \in Nat /\ FirstDay <= LastDay
  /\ \A f \in Feeds : MaxTries[f] \in Nat \ {0} /\ 1 \in DOMAIN Answers[f]
  /\ \A f \in Feeds : \A req \in Requests[f] :
       req.season \in Nat /\ req.date \in Days \cup {0}
  /\ \A n \in DOMAIN Answers["mlb"] : IsSeq(Answers["mlb"][n].teams) /\ IsSeq(Answers["mlb"][n].pitchers)
  /\ \A n \in DOMAIN Answers["nba"] : IsSeq(Answers["nba"][n].rows)
  /\ \A n \in DOMAIN Answers["nhl"] : IsSeq(Answers["nhl"][n])
  /\ \A n \in DOMAIN Answers["nfl"] : IsSeq(Answers["nfl"][n].stats)
  /\ \A n \in DOMAIN Answers["injuries"] : IsSeq(Answers["injuries"][n])
  /\ \A n \in DOMAIN Answers["weather"] : Answers["weather"][n].hours \in {{}, 0..23}
  /\ IsFiniteSet(Fixtures)
  /\ \A g, h \in Fixtures : g.at \in Nat /\ (g.id = h.id => g = h)

IngestInit == /\ feed \in Feeds
              /\ today = FirstDay
              /\ site = [d \in Days |-> 1]
              /\ queue = NoRows /\ asked = 0
              /\ work = [w \in Workers |-> Resting]
              /\ table = NoRows

-----------------------------------------------------------------------------
(* The arguments of a job: the request with its defaults filled in.        *)
Else(value, unset, default) == IF value = unset THEN default ELSE value

StatDate(req) == Else(req.date, 0, today)

NormalizeMLBRequest(req) ==
  [season |-> Else(req.season, 0, Year(StatDate(req))), kind |-> Else(req.kind, "", "regular"), date |-> StatDate(req)]

InferNBASeason(day) == IF Month(day) >= 7 THEN Year(day) + 1 ELSE Year(day)

NormalizeNBARequest(req) ==
  [season |-> Else(req.season, 0, InferNBASeason(StatDate(req))),
   kind |-> Else(req.kind, "", "regular"), date |-> StatDate(req)]

InferNHLSeason(day) == IF Month(day) >= 7 THEN Year(day) + 1 ELSE Year(day)

NormalizeNHLRequest(req) ==
  [season |-> Else(req.season, 0, InferNHLSeason(StatDate(req))),
   kind |-> Else(req.kind, "", "regular"), date |-> StatDate(req)]

\* Faulty variant: a season is named as in the other winter leagues.
InferLikeNHL(day) == IF Month(day) >= 7 THEN Year(day) + 1 ELSE Year(day) - 1

InferNFLSeason(day) == IF Month(day) >= 7 THEN Year(day) ELSE Year(day) - 1

NormalizeNFLRequest(req) ==
  [season |-> Else(req.season, 0, InferNFLSeason(StatDate(req))),
   kind |-> Else(req.kind, "", "regular"), date |-> StatDate(req)]

NormalizeInjuryRequest(req) ==
  [season |-> 0, kind |-> Else(req.kind, "", "nfl"), date |-> StatDate(req)]

WeatherSports == {"mlb", "nfl"}

(* None when the sport is not supported. *)
NormalizeWeatherRequest(req) ==
  {args \in {[season |-> 0, kind |-> req.kind, date |-> StatDate(req)]} : args.kind \in WeatherSports \cup {""}}

Arguments(req) ==
  CASE feed = "mlb" -> {NormalizeMLBRequest(req)}
    [] feed = "nba" -> {NormalizeNBARequest(req)}
    [] feed = "nhl" -> {NormalizeNHLRequest(req)}
    [] feed = "nfl" -> {NormalizeNFLRequest(req)}
    [] feed = "injuries" -> {NormalizeInjuryRequest(req)}
    [] feed = "weather" -> NormalizeWeatherRequest(req)

-----------------------------------------------------------------------------
(* The upserts: what a row is known by, and what it says. *)
ByArgs(name, args, figure) ==
  [key |-> <<name, args, Slug(figure.id)>>, row |-> [val |-> figure.val, day |-> figure.day]]

UpsertMLBTeamStats(args, team) == ByArgs("mlb_team_stats", args, team)
UpsertMLBPitcherStats(args, pitcher) == ByArgs("mlb_pitcher_stats", args, pitcher)
UpsertNBATeamStats(args, team) == ByArgs("nba_team_stats", args, team)
UpsertNHLTeamStats(args, team) == ByArgs("nhl_team_stats", args, team)
UpsertNFLTeamStats(args, team) == ByArgs("nfl_team_stats", args, team)
UpsertPlayerInjuryReport(args, record) == ByArgs("player_injury_reports", args, record)

UpsertGameWeatherSnapshot(game, hour, figures) ==
  [key |-> <<"game_weather_snapshots", NoArgs, game.id>>, row |-> [val |-> <<hour, figures>>, day |-> today]]

Each(figures, Upsert(_)) == [i \in DOMAIN figures |-> Upsert(figures[i])]

-----------------------------------------------------------------------------
(* The providers.  A result is a set of sequences of figures: none when    *)
(* the answer is an error, several when their order is left to a Go map.   *)
Said(part) == Answers[feed][part.n]

Orders(S) == {order \in [1..Cardinality(S) -> S] : \A i, j \in DOMAIN order : i # j => order[i] # order[j]}

(* The items at some of their places, in their order: one sequence. *)
Kept(items, places) ==
  {[i \in DOMAIN order |-> items[order[i]]] :
     order \in {o \in Orders(places) : \A i, j \in DOMAIN o : i < j => o[i] < o[j]}}

LastOf(items, places) ==
  IF places = {} THEN 0 ELSE items[CHOOSE i \in places : \A j \in places : j <= i].val

(* The groups of the answer are merged by team in a map. *)
FetchTeamStats(part) ==
  LET splits == Said(part).teams
      Of(id, group) == LastOf(splits, {i \in DOMAIN splits : splits[i].id = id /\ splits[i].group = group})
  IN  {[i \in DOMAIN ids |-> [id |-> 10 * ids[i], day |-> part.day,
                              val |-> <<Of(ids[i], "hitting"), Of(ids[i], "pitching")>>]] :
         ids \in Orders({splits[i].id : i \in DOMAIN splits} \ {0})}

FetchPitcherStats(part) ==
  LET pitchers == Said(part).pitchers
      Starts(i) == pitchers[i].id # 0 /\ pitchers[i].starts > 0
  IN  {[i \in DOMAIN starters |-> [id |-> 10 * starters[i].id, day |-> part.day, val |-> <<starters[i].val>>]] :
         starters \in Kept(pitchers, {i \in DOMAIN pitchers : Starts(i)})}

(* Every row is kept; a column or a count that is missing is an error. *)
MapNBATeamStats(part) ==
  LET answer == Said(part)
      figures == [i \in DOMAIN answer.rows |->
                    [id |-> answer.rows[i].id, day |-> part.day, val |-> <<answer.rows[i].val>>]]
  IN  {f \in {figures} : answer.columns /\ \A i \in DOMAIN answer.rows : answer.rows[i].counted}

(* The standings of a date, those of another season or of no season game   *)
(* left out: out of season nothing is left, which is no error.             *)
FetchNHL(args, part) ==
  LET answer == Said(part)
      Counts(i) == answer[i].type = 2 /\ answer[i].season = args.season
      Figures(standings) ==
        [i \in DOMAIN standings |-> [id |-> standings[i].id, day |-> part.day, val |-> <<standings[i].val>>]]
  IN  {f \in {Figures(standings) : standings \in Kept(answer, {i \in DOMAIN answer : Counts(i)})} :
         args.kind = "regular"}

ParseTeamStatsCSV(part) ==
  LET rows == Said(part).stats IN Kept(rows, {i \in DOMAIN rows : rows[i].type = "REG"})

ParseStandingsHTML(part) == Said(part).standings

(* A row of the CSV file needs a row of the standings page, which may be   *)
(* of another moment.                                                      *)
FetchNFL(args, csv, html) ==
  LET standings == ParseStandingsHTML(html)
      Known(id) == {i \in DOMAIN standings : Slug(standings[i].id) = Slug(id)}
      Standing(id) == LastOf(standings, Known(id))
      Whole(stats) == stats # <<>> /\ \A i \in DOMAIN stats : stats[i].counted /\ Known(stats[i].id) # {}
  IN  {[i \in DOMAIN stats |-> [id |-> stats[i].id, day |-> csv.day,
                                val |-> <<stats[i].val, Standing(stats[i].id)>>]] :
         stats \in {csvRows \in ParseTeamStatsCSV(csv) : args.kind = "regular" /\ Whole(csvRows)}}

FetchRotowire(args, part) ==
  LET rows == Said(part)
      records == [i \in DOMAIN rows |-> [id |-> rows[i].id, day |-> part.day, val |-> <<rows[i].val>>]]
  IN  {r \in {records} : args.kind = "nfl" /\ \A i \in DOMAIN rows : rows[i].whole}

-----------------------------------------------------------------------------
(* ETL.Run and Scraper.Run up to the first upsert: one blank identifier or *)
(* name fails the snapshot.                                                *)
NormalizeSnapshot(figures) == \A i \in DOMAIN figures : Slug(figures[i].id) # 0

RunMLB(args, teamPart, pitcherPart) ==
  {Each(snapshot[1], LAMBDA t : UpsertMLBTeamStats(args, t))
     \o Each(snapshot[2], LAMBDA p : UpsertMLBPitcherStats(args, p)) :
   snapshot \in {s \in FetchTeamStats(teamPart) \X FetchPitcherStats(pitcherPart) :
                   NormalizeSnapshot(s[1]) /\ NormalizeSnapshot(s[2])}}

RunNBA(args, part) ==
  {Each(teams, LAMBDA t : UpsertNBATeamStats(args, t)) :
     teams \in {t \in MapNBATeamStats(part) : NormalizeSnapshot(t)}}

RunNHL(args, part) ==
  {Each(teams, LAMBDA t : UpsertNHLTeamStats(args, t)) :
     teams \in {t \in FetchNHL(args, part) : NormalizeSnapshot(t)}}

RunNFL(args, csv, html) ==
  {Each(teams, LAMBDA t : UpsertNFLTeamStats(args, t)) :
     teams \in {t \in FetchNFL(args, csv, html) : NormalizeSnapshot(t)}}

RunInjuries(args, part) ==
  {Each(records, LAMBDA r : UpsertPlayerInjuryReport(args, r)) :
     records \in {r \in FetchRotowire(args, part) : NormalizeSnapshot(r)}}

Parts == IF feed \in {"mlb", "nfl"} THEN 2 ELSE 1

Snapshots(args, parts) ==
  CASE feed = "mlb" -> RunMLB(args, parts[1], parts[2])
    [] feed = "nba" -> RunNBA(args, parts[1])
    [] feed = "nhl" -> RunNHL(args, parts[1])
    [] feed = "nfl" -> RunNFL(args, parts[1], parts[2])
    [] feed = "injuries" -> RunInjuries(args, parts[1])

\* Faulty variant: the standings of the day of the run are asked for.
AskToday(args) == today

(* Only the NHL's site is asked for the date of the job; the others say    *)
(* what they know now.                                                     *)
FetchDay(args) == IF feed = "nhl" THEN args.date ELSE today

-----------------------------------------------------------------------------
(* Weather: one game after the other. *)

\* A request is made at noon.
WindowStart(args, requested) ==
  LET noon == requested * Quarters + Quarters \div 2
  IN  IF noon < args.date * Quarters THEN args.date * Quarters ELSE noon

SportsForRequest(args) == IF args.kind = "" THEN WeatherSports ELSE {args.kind}

\* Faulty variant: the games come in any order.
ListInAnyOrder(args, requested) ==
  Orders({g \in Fixtures : /\ g.sport \in SportsForRequest(args)
                           /\ g.at >= WindowStart(args, requested)
                           /\ g.at < (args.date + 7) * Quarters})

(* Ordered by the time alone: games of one time come in any order. *)
ListUpcomingWeatherGames(args, requested) ==
  {list \in Orders({g \in Fixtures : /\ g.sport \in SportsForRequest(args)
                                     /\ g.at >= WindowStart(args, requested)
                                     /\ g.at < (args.date + 7) * Quarters}) :
     \A i, j \in DOMAIN list : i < j => list[i].at <= list[j].at}

(* Known outdoor, under a roof that is fixed or can be closed, or unknown. *)
LookupVenue(game) == game.home
IsOutdoor(game) == LookupVenue(game) = "outdoor"
IsKnown(game) == LookupVenue(game) # "unknown"

\* Faulty variant: the hour in which the game starts.
HourOfStart(hours, at) == CHOOSE h \in hours : h <= at \div 4 /\ \A other \in hours : other <= at \div 4 => other <= h

(* The hours of the answer are those of the UTC date of the start; of two  *)
(* that are as near, the later.                                            *)
ClosestHour(hours, at) ==
  LET Gap(h) == IF 4 * h > at THEN 4 * h - at ELSE at - 4 * h
  IN  CHOOSE h \in hours : \A other \in hours \ {h} : Gap(h) < Gap(other) \/ (Gap(h) = Gap(other) /\ other < h)

(* A value that is missing or null decodes to zero. *)
ValueAt(values) == IF values = <<>> THEN 0 ELSE values[1]

FetchForecast(game) ==
  LET answer == Answers[feed][site[today]]
      hours == {(game.at \div Quarters) * 24 + h : h \in answer.hours}
  IN  IF hours = {} THEN {}
      ELSE {UpsertGameWeatherSnapshot(game, ClosestHour(hours, game.at), <<ValueAt(answer.val)>>)}

RoundToNearestHour(at) == (at + 2) \div 4

IndoorSnapshot(game) == UpsertGameWeatherSnapshot(game, RoundToNearestHour(game.at), <<>>)

-----------------------------------------------------------------------------
(* The site, which changes once (a bound), and time. *)
SiteMoves(n) ==
  /\ n # site[today]
  /\ \A d \in Days : site[d] = 1
  /\ site' = [site EXCEPT ![today] = n]
  /\ UNCHANGED <<feed, today, queue, asked, work, table>>

DayPasses ==
  /\ today < LastDay
  /\ today' = today + 1
  /\ site' = [site EXCEPT ![today + 1] = site[today]]
  /\ UNCHANGED <<feed, queue, asked, work, table>>

(* River.  A job is inserted unless one of the same arguments is there     *)
(* that was not discarded; finished jobs are removed after some time.      *)
IsNewJob(args) == args \in DOMAIN queue => queue[args].state = "discarded"

InsertJob(args) ==
  /\ asked < MaxAsked /\ asked' = asked + 1
  /\ queue' = Put(queue, args, [state |-> "available", requested |-> today, tries |-> 0])

\* Faulty variant: the request is inserted as it was made.
EnqueueAsMade(req) ==
  /\ IsNewJob(req)
  /\ InsertJob(req)
  /\ UNCHANGED <<feed, today, site, work, table>>

Enqueue(req) ==
  /\ \E args \in Arguments(req) : IsNewJob(args) /\ InsertJob(args)
  /\ UNCHANGED <<feed, today, site, work, table>>

CleanJob(args) ==
  /\ queue[args].state \in {"completed", "discarded"}
  /\ queue' = [a \in DOMAIN queue \ {args} |-> queue[a]]
  /\ UNCHANGED <<feed, today, site, asked, work, table>>

-----------------------------------------------------------------------------
(* Work: the transaction begins, and the request is normalised again. *)
\* Faulty variant: the job is not marked.
StartUnmarked(w, job) ==
  /\ work[w].at = "idle"
  /\ queue[job].state \in {"available", "retryable"}
  /\ \E args \in Arguments(job) :
       work' = [work EXCEPT ![w] = [Resting EXCEPT !.at = IF feed = "weather" THEN "games" ELSE "fetch",
                                                   !.job = job, !.args = args]]
  /\ UNCHANGED <<feed, today, site, queue, asked, table>>

Start(w, job) ==
  /\ work[w].at = "idle"
  /\ queue[job].state \in {"available", "retryable"}
  /\ queue' = [queue EXCEPT ![job] = [state |-> "running", requested |-> @.requested, tries |-> @.tries + 1]]
  /\ \E args \in Arguments(job) :
       \E games \in IF feed = "weather" THEN ListUpcomingWeatherGames(args, queue[job].requested) ELSE {<<>>} :
         work' = [work EXCEPT ![w] = [Resting EXCEPT !.at = IF feed = "weather" THEN "games" ELSE "fetch",
                                                     !.job = job, !.args = args, !.games = games]]
  /\ UNCHANGED <<feed, today, site, asked, table>>

(* The transaction is rolled back and the error returned: any call failed, *)
(* or the process stopped, and River rescues the job.                      *)
Fail(w) ==
  /\ work[w].at # "idle"
  /\ work' = [work EXCEPT ![w] = Resting]
  /\ queue' = [queue EXCEPT ![work[w].job].state = IF queue[work[w].job].tries < MaxTries[feed] THEN "retryable"
                                                  ELSE "discarded"]
  /\ UNCHANGED <<feed, today, site, asked, table>>

FetchPart(w) ==
  /\ work[w].at = "fetch"
  /\ LET day == FetchDay(work[w].args)
         parts == Append(work[w].parts, [day |-> day, n |-> site[day]])
         whole == Len(parts) = Parts
     IN  \/ /\ ~whole
            /\ work' = [work EXCEPT ![w].parts = parts]
            /\ UNCHANGED <<feed, today, site, queue, asked, table>>
         \/ /\ whole
            /\ \E rows \in Snapshots(work[w].args, parts) :
                 work' = [work EXCEPT ![w] = [@ EXCEPT !.at = "write", !.parts = <<>>, !.rows = rows]]
            /\ UNCHANGED <<feed, today, site, queue, asked, table>>
         \/ whole /\ Snapshots(work[w].args, parts) = {} /\ Fail(w)

WeatherRows(game) == IF IsOutdoor(game) THEN FetchForecast(game) ELSE {IndoorSnapshot(game)}

WriteGame(w) ==
  /\ \E row \in WeatherRows(Head(work[w].games)) :
       work' = [work EXCEPT ![w] = [@ EXCEPT !.at = "write", !.games = Tail(work[w].games),
                                                 !.rows = <<row>>]]
  /\ UNCHANGED <<feed, today, site, queue, asked, table>>

\* Faulty variant: a game without a venue is never left.
KeepUnknown(w) ==
  /\ work[w].at = "games" /\ work[w].games # <<>>
  /\ IsKnown(Head(work[w].games))
  /\ WriteGame(w) \/ (WeatherRows(Head(work[w].games)) = {} /\ Fail(w))

(* A game without a known venue is skipped. *)
NextGame(w) ==
  /\ work[w].at = "games" /\ work[w].games # <<>>
  /\ \/ /\ ~IsKnown(Head(work[w].games))
        /\ work' = [work EXCEPT ![w].games = Tail(@)]
        /\ UNCHANGED <<feed, today, site, queue, asked, table>>
     \/ IsKnown(Head(work[w].games)) /\ WriteGame(w)
     \/ IsKnown(Head(work[w].games)) /\ WeatherRows(Head(work[w].games)) = {} /\ Fail(w)

(* An upsert waits for the transaction that has written its row. *)
Waits(w, other) == /\ w # other
                   /\ work[w].at = "write" /\ work[w].rows # <<>>
                   /\ Head(work[w].rows).key \in DOMAIN work[other].wrote

RowsLeft(w) == [work[w] EXCEPT !.rows = Tail(work[w].rows), !.at = IF feed = "weather" THEN "games" ELSE "write"]

\* Faulty variant: the upsert is not made in the transaction.
UpsertAtOnce(w) ==
  /\ work[w].at = "write" /\ work[w].rows # <<>>
  /\ table' = Put(table, Head(work[w].rows).key, Head(work[w].rows).row)
  /\ work' = [work EXCEPT ![w] = RowsLeft(w)]
  /\ UNCHANGED <<feed, today, site, queue, asked>>

Upsert(w) ==
  /\ work[w].at = "write" /\ work[w].rows # <<>>
  /\ \A other \in Workers : ~Waits(w, other)
  /\ work' = [work EXCEPT ![w] = [RowsLeft(w) EXCEPT
                !.wrote = Put(work[w].wrote, Head(work[w].rows).key, Head(work[w].rows).row)]]
  /\ UNCHANGED <<feed, today, site, queue, asked, table>>

(* PostgreSQL aborts one of two transactions that wait for each other. *)
Deadlocked(w) ==
  /\ \E other \in Workers : Waits(w, other) /\ Waits(other, w)
  /\ Fail(w)

Commit(w) ==
  /\ work[w].at \in {"write", "games"} /\ work[w].rows = <<>> /\ work[w].games = <<>>
  /\ table' = [key \in DOMAIN table \cup DOMAIN work[w].wrote |->
                 IF key \in DOMAIN work[w].wrote THEN work[w].wrote[key] ELSE table[key]]
  /\ work' = [work EXCEPT ![w] = Resting]
  /\ queue' = [queue EXCEPT ![work[w].job].state = "completed"]
  /\ UNCHANGED <<feed, today, site, asked>>

\* What a run does next, if no call fails.
Advance(w) == FetchPart(w) \/ NextGame(w) \/ Upsert(w) \/ Commit(w)

(* At the bound the system rests. *)
NobodyAsks == asked = MaxAsked /\ UNCHANGED ingestVars

IngestNext ==
  \/ \E n \in DOMAIN Answers[feed] : SiteMoves(n)
  \/ DayPasses \/ NobodyAsks
  \/ \E req \in Requests[feed] : Enqueue(req)
  \/ \E args \in DOMAIN queue : CleanJob(args)
  \/ \E w \in Workers : \E job \in DOMAIN queue : Start(w, job)
  \/ \E w \in Workers : Advance(w) \/ Fail(w)

IngestSpec == IngestInit /\ [][IngestNext]_ingestVars

-----------------------------------------------------------------------------
States == {"available", "running", "retryable", "completed", "discarded"}

(* A job is running exactly when one run works on it. *)
IngestTypeOK ==
  /\ feed \in Feeds /\ today \in Days
  /\ \A job \in DOMAIN queue :
       /\ queue[job].state \in States /\ queue[job].tries \in 0..MaxTries[feed] /\ queue[job].requested \in Days
       /\ queue[job].state = "running" <=> \E w \in Workers : work[w].at # "idle" /\ work[w].job = job
  /\ \A w \in Workers : work[w].at # "idle" => work[w].job \in DOMAIN queue
  /\ \A w, other \in Workers : work[w].at # "idle" /\ work[w].job = work[other].job /\ w # other => work[other].at = "idle"

(* Two runs of statistics or injuries never want the same row, because     *)
(* requests are normalised before a job is told from another: nobody waits *)
(* in a transaction.                                                       *)
RunsKeepApart == feed # "weather" => \A w, other \in Workers : ~Waits(w, other)

(* Two weather runs, which do share games, wait for each other only over   *)
(* games that start at the same time.                                      *)
StartOf(key) == (CHOOSE g \in Fixtures : g.id = key[3]).at
DeadlocksNeedTies ==
  \A w, other \in Workers : Waits(w, other) /\ Waits(other, w) =>
    StartOf(Head(work[w].rows).key) = StartOf(Head(work[other].rows).key)

(* No row says what was known before its date; and, but for the NHL, it    *)
(* may say what was known only after it, when the job ran late.            *)
FiguresAreDated ==
  feed # "weather" => \A key \in DOMAIN table :
    IF feed = "nhl" THEN table[key].day = key[2].date ELSE table[key].day >= key[2].date

(* The season that the ETL infers is one and the same from the first to    *)
(* the last day of the window in which domain polls the league.            *)
Windows == [mlb |-> <<301, 1115>>, nba |-> <<1001, 630>>, nhl |-> <<1001, 630>>, nfl |-> <<801, 220>>]
InWindow(window, day) ==
  LET date == Month(day) * 100 + (day % 30) + 1
  IN  IF window[1] <= window[2] THEN window[1] <= date /\ date <= window[2]
      ELSE window[1] <= date \/ date <= window[2]
Inferred(league, day) ==
  CASE league = "mlb" -> Year(day)
    [] league = "nba" -> InferNBASeason(day)
    [] league = "nhl" -> InferNHLSeason(day)
    [] league = "nfl" -> InferNFLSeason(day)
SplitsNoWindow ==
  [league \in Leagues |-> \A day \in 0..718 :
     InWindow(Windows[league], day) /\ InWindow(Windows[league], day + 1) =>
       Inferred(league, day) = Inferred(league, day + 1)]
SeasonsSplitNoWindow == feed \in Leagues => SplitsNoWindow[feed]

(* A stored forecast is of an hour at most half an hour from the start,    *)
(* but for an outdoor game in the last half hour of a UTC date, whose next *)
(* hour is in no answer.                                                   *)
ForecastNearStart ==
  feed = "weather" => \A key \in DOMAIN table :
    LET game == CHOOSE g \in Fixtures : g.id = key[3]
        hour == table[key].val[1]
        late == game.at % Quarters >= Quarters - 2 /\ IsOutdoor(game)
    IN  IF late THEN 4 * hour <= game.at /\ game.at - 4 * hour < 4
        ELSE 4 * hour - game.at \in -1..2

(* Runs never all stand still: one of those at work can go on, or is one   *)
(* of two that PostgreSQL parts; a held lock or a game that is left out    *)
(* keeps no job for ever.                                                  *)
AtWork == {w \in Workers : work[w].at # "idle"}
RunsGoOn ==
  AtWork # {} => \E w \in AtWork : ENABLED Advance(w) \/ ENABLED Deadlocked(w)

(* Runs that overlap make way for each other: those of statistics never    *)
(* meet, those of weather deadlock over ties alone, and one can always go  *)
(* on.                                                                     *)
RunsMakeWay == RunsKeepApart /\ DeadlocksNeedTies /\ RunsGoOn

(* Figures and forecasts are of the time they are filed under: of no       *)
(* earlier day, of one season while a league plays, of the hour of the     *)
(* start.                                                                  *)
RightlyDated == FiguresAreDated /\ SeasonsSplitNoWindow /\ ForecastNearStart

(* Readers see an import whole or not at all.                              *)
GatheredBy(w) ==
  [key \in DOMAIN work[w].wrote \cup {work[w].rows[i].key : i \in DOMAIN work[w].rows} |->
     LET left == {i \in DOMAIN work[w].rows : work[w].rows[i].key = key}
     IN  IF left = {} THEN work[w].wrote[key]
         ELSE work[w].rows[CHOOSE i \in left : \A j \in left : j <= i].row]
Contract == INSTANCE ImportContract WITH gathered <- [w \in Workers |-> GatheredBy(w)]
ImportsWhole == Contract!Spec

=============================================================================
