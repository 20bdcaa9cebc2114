------------------------------- MODULE Import -------------------------------
(***************************************************************************)
(* cmd/import/moneypuck: one process, started by hand, that reads a CSV    *)
(* file and writes it to the database a statement at a time, each of them  *)
(* its own transaction.  Statistics are upserted; odds are inserted, and   *)
(* read again by the replay (ListBacktestReplayRows).                      *)
(*                                                                         *)
(* A behaviour has one kind of file, of which versions are published.  The *)
(* process may be killed, a statement may fail (odds_history may have no   *)
(* partition for the month), and the import is run again.                  *)
(*                                                                         *)
(* A line is what its fields parse to, Unreadable where they do not; of    *)
(* the figures of a line one stands for all.  Days and hours are numbers.  *)
(***************************************************************************)
EXTENDS Integers, Sequences, FiniteSets

CONSTANTS CsvFiles,      \* [kind -> sequence of [columns, priced, lines]]
          Abbreviation,  \* [name of a team -> its abbreviation, "" if unknown]
          Filters,       \* seasons to import, 0 for all of them
          MaxImports     \* bound: imports begun

StatKinds == {"teams", "goalies", "lines"}
OddsKinds == {"odds", "asplayed"}
Unreadable == -1

\* Of every file there is a first version; a file is a sequence of lines, and
\* days and hours are numbers.
ASSUME FilesAssumption ==
  /\ \A kind \in StatKinds \cup OddsKinds :
       /\ 1 \in DOMAIN CsvFiles[kind]
       /\ \A version \in DOMAIN CsvFiles[kind] :
            LET file == CsvFiles[kind][version]
            IN  file.columns \in BOOLEAN /\ file.lines \in Seq({file.lines[i] : i \in DOMAIN file.lines})
  /\ \A kind \in OddsKinds : \A version \in DOMAIN CsvFiles[kind] :
       \A i \in DOMAIN CsvFiles[kind][version].lines :
         LET line == CsvFiles[kind][version].lines[i] IN line.day \in Int /\ line.start \in Int

VARIABLES fileKind,
          published,     \* the version of the file that is there
          figures,       \* moneypuck_*_games: key -> figure
          fixtures,      \* games: [day, home, away] -> when it starts
          archive,       \* odds_history, in the order of the ids
          import,        \* the last process
          imports

importVars == <<fileKind, published, figures, fixtures, archive, import, imports>>

NoImport == [at |-> "none", version |-> 1, filter |-> 0, line |-> 1, count |-> 0, quotes |-> <<>>]

ImportInit == /\ fileKind \in StatKinds \cup OddsKinds
              /\ published = 1
              /\ figures = <<>> /\ fixtures = <<>> /\ archive = <<>>
              /\ import = NoImport
              /\ imports = 0

FileOf(version) == CsvFiles[fileKind][version]

-----------------------------------------------------------------------------
(* The readers: a line is skipped, bad, or a row. *)
IsReadable(line) ==
  Abbreviation[line.team] # "" /\ Abbreviation[line.opponent] # "" /\ line.day # Unreadable

NextStats(filter, line, inPosition) ==
  LET wanted == /\ inPosition
                /\ line.situation \in {"5on5", "all"}
                /\ line.season # Unreadable /\ filter \in {0, line.season}
  IN  IF wanted /\ ~IsReadable(line) THEN "bad"
      ELSE IF wanted /\ line.side \in {"HOME", "AWAY"} THEN "row" ELSE "skip"

NextTeam(filter, line) == NextStats(filter, line, line.position = "Team Level")
NextGoalie(filter, line) == NextStats(filter, line, line.position = "G")
NextLine(filter, line) == NextStats(filter, line, line.position # "Team Level")

HasGame(line) ==
  /\ line.day # Unreadable /\ line.scored
  /\ Abbreviation[line.home] # "" /\ Abbreviation[line.away] # ""

NextOdds(line) == IF HasGame(line) /\ line.whole THEN "row" ELSE "bad"

NextAsPlayed(priced, line) ==
  IF line.scheduled THEN "skip"
  ELSE IF HasGame(line) /\ (priced => line.whole) THEN "row" ELSE "bad"

Read(kind, filter, file, line) ==
  CASE kind = "teams" -> NextTeam(filter, line)
    [] kind = "goalies" -> NextGoalie(filter, line)
    [] kind = "lines" -> NextLine(filter, line)
    [] kind = "odds" -> NextOdds(line)
    [] kind = "asplayed" -> NextAsPlayed(file.priced, line)

(* The dry run: the same reading, up to the first bad line. *)
RowsBefore(kind, filter, file, end) ==
  {i \in 1..end - 1 : Read(kind, filter, file, file.lines[i]) = "row"}

DryRun(filter, file) ==
  LET Bad(i) == Read(fileKind, filter, file, file.lines[i]) = "bad"
      end == CHOOSE i \in 1..Len(file.lines) + 1 :
               /\ i <= Len(file.lines) => Bad(i)
               /\ \A j \in 1..i - 1 : ~Bad(j)
  IN  [ok |-> file.columns /\ end > Len(file.lines),
       count |-> IF file.columns THEN Cardinality(RowsBefore(fileKind, filter, file, end)) ELSE 0]

\* Faulty variant: the dry run is not told the season.
DryRunOfAll(filter, file) == DryRun(0, file)

Foretold(filter, file) == DryRun(filter, file)

-----------------------------------------------------------------------------
(* The writes. *)
TeamKey(line) == <<line.game, Abbreviation[line.team], line.situation>>
GoalieKey(line) == <<line.game, line.who, line.situation>>
LineKey(line) == <<line.game, line.who, line.situation>>

KeyOf(kind, line) == CASE kind = "teams" -> TeamKey(line)
                       [] kind = "goalies" -> GoalieKey(line)
                       [] kind = "lines" -> LineKey(line)

(* On conflict do update. *)
Upserted(rows, key, row) == [k \in DOMAIN rows \cup {key} |-> IF k = key THEN row ELSE rows[k]]

\* Faulty variant: on conflict do nothing.
KeepFigure(key, figure) ==
  figures' = IF key \in DOMAIN figures THEN figures ELSE Upserted(figures, key, figure)

UpsertFigure(key, figure) == figures' = Upserted(figures, key, figure)

GameOf(line) == <<line.day, Abbreviation[line.home], Abbreviation[line.away]>>

(* 19:00 UTC, unless an as-played file says when: then in eastern time     *)
(* (the winter's).                                                         *)
Commence(kind, line) ==
  line.day * 24 + IF kind = "odds" \/ line.start = Unreadable THEN 19 ELSE line.start + 5

OrZero(point) == IF point = Unreadable THEN 0 ELSE point

BuildOddsSnapshots(kind, line) ==
  LET Quote(market, side, point) ==
        [game |-> GameOf(line), market |-> market, side |-> side, point |-> point,
         price |-> line.prices[side], at |-> Commence(kind, line) - 1]
      spread == OrZero(line.spread)
      away == IF kind = "odds" THEN OrZero(line.awaySpread) ELSE -spread
      total == OrZero(line.total)
  IN  <<Quote("h2h", "home", 0), Quote("h2h", "away", 0),
        Quote("spreads", "home", spread), Quote("spreads", "away", away),
        Quote("totals", "over", total), Quote("totals", "under", total)>>

\* Faulty variant: the slice outlives the row.
SnapshotsSoFar(line) ==
  LET file == FileOf(import.version)
      Earlier[i \in 0..import.line] ==
        IF i = 0 THEN <<>>
        ELSE IF Read(fileKind, import.filter, file, file.lines[i]) # "row" THEN Earlier[i - 1]
        ELSE Earlier[i - 1] \o BuildOddsSnapshots(fileKind, file.lines[i])
  IN  Earlier[import.line]

SnapshotsOf(line) == BuildOddsSnapshots(fileKind, line)

-----------------------------------------------------------------------------
IsRunning == import.at \in {"reading", "quoting"}

Publish(version) ==
  /\ version # published
  /\ published' = version
  /\ UNCHANGED <<fileKind, figures, fixtures, archive, import, imports>>

BeginImport(filter) ==
  /\ ~IsRunning /\ imports < MaxImports
  /\ imports' = imports + 1
  /\ import' = [NoImport EXCEPT !.version = published, !.filter = filter,
                  !.at = IF FileOf(published).columns THEN "reading" ELSE "bad"]
  /\ UNCHANGED <<fileKind, published, figures, fixtures, archive>>

Line == FileOf(import.version).lines[import.line]
Verdict == Read(fileKind, import.filter, FileOf(import.version), Line)
AtLine(verdict) ==
  import.at = "reading" /\ import.line <= Len(FileOf(import.version).lines) /\ Verdict = verdict

\* Faulty variant: the quotes are not cleared.
RowDoneUncleared == [import EXCEPT !.at = "reading", !.line = @ + 1, !.count = @ + 1]

RowDone == [import EXCEPT !.at = "reading", !.line = @ + 1, !.count = @ + 1, !.quotes = <<>>]

SkipLine ==
  /\ AtLine("skip")
  /\ import' = [import EXCEPT !.line = @ + 1]
  /\ UNCHANGED <<fileKind, published, figures, fixtures, archive, imports>>

BadLine ==
  /\ AtLine("bad")
  /\ import' = [import EXCEPT !.at = "bad"]
  /\ UNCHANGED <<fileKind, published, figures, fixtures, archive, imports>>

ImportStats ==
  /\ fileKind \in StatKinds /\ AtLine("row")
  /\ UpsertFigure(KeyOf(fileKind, Line), Line.val)
  /\ import' = RowDone
  /\ UNCHANGED <<fileKind, published, fixtures, archive, imports>>

(* The game first; its odds follow, if the file has any. *)
ImportGame ==
  /\ fileKind \in OddsKinds /\ AtLine("row")
  /\ fixtures' = Upserted(fixtures, GameOf(Line), Commence(fileKind, Line))
  /\ import' = IF fileKind = "odds" \/ FileOf(import.version).priced
                 THEN [import EXCEPT !.at = "quoting", !.quotes = SnapshotsOf(Line)]
                 ELSE RowDone
  /\ UNCHANGED <<fileKind, published, figures, archive, imports>>

\* Faulty variant: a price that is there already is not inserted again.
InsertOnce ==
  /\ import.at = "quoting"
  /\ LET quote == Head(import.quotes)
         IsSame(old) == /\ old.game = quote.game /\ old.market = quote.market
                        /\ old.side = quote.side /\ old.price = quote.price
     IN  archive' = IF \E i \in DOMAIN archive : IsSame(archive[i]) THEN archive ELSE Append(archive, quote)
  /\ import' = IF Len(import.quotes) = 1 THEN RowDone ELSE [import EXCEPT !.quotes = Tail(@)]
  /\ UNCHANGED <<fileKind, published, figures, fixtures, imports>>

InsertOddsSnapshot ==
  /\ import.at = "quoting"
  /\ archive' = Append(archive, Head(import.quotes))
  /\ import' = IF Len(import.quotes) = 1 THEN RowDone ELSE [import EXCEPT !.quotes = Tail(@)]
  /\ UNCHANGED <<fileKind, published, figures, fixtures, imports>>

EndOfFile ==
  /\ import.at = "reading" /\ import.line > Len(FileOf(import.version).lines)
  /\ import' = [import EXCEPT !.at = "done"]
  /\ UNCHANGED <<fileKind, published, figures, fixtures, archive, imports>>

StatementFails ==
  /\ AtLine("row") \/ import.at = "quoting"
  /\ import' = [import EXCEPT !.at = "failed", !.quotes = <<>>]
  /\ UNCHANGED <<fileKind, published, figures, fixtures, archive, imports>>

KillImport ==
  /\ IsRunning
  /\ import' = [import EXCEPT !.at = "killed", !.quotes = <<>>]
  /\ UNCHANGED <<fileKind, published, figures, fixtures, archive, imports>>

ImportNext ==
  \/ \E version \in DOMAIN CsvFiles[fileKind] : Publish(version)
  \/ \E filter \in Filters : BeginImport(filter)
  \/ SkipLine \/ BadLine \/ ImportStats \/ ImportGame \/ InsertOddsSnapshot
  \/ EndOfFile \/ StatementFails \/ KillImport

ImportSpec == ImportInit /\ [][ImportNext]_importVars

-----------------------------------------------------------------------------
(* What is written is whole: odds of games that are there, as far as the   *)
(* process has got.                                                        *)
ImportTypeOK ==
  /\ import.count < import.line
  /\ import.at = "quoting" <=> import.quotes # <<>>
  /\ \A i \in DOMAIN archive : archive[i].game \in DOMAIN fixtures
  /\ fileKind \in StatKinds => archive = <<>> /\ fixtures = <<>>

(* Whatever was killed, failed or imported before, an import that is done  *)
(* leaves of every key in its file the figure of the last line that has it *)
(* (two spellings of a team are one key).                                  *)
RowsOfFile(filter, file) == RowsBefore(fileKind, filter, file, Len(file.lines) + 1)

ImportedIsTheFile ==
  fileKind \in StatKinds /\ import.at = "done" =>
    LET file == FileOf(import.version)
        rows == RowsOfFile(import.filter, file)
    IN  \A i \in rows :
          (\A j \in rows : j > i => KeyOf(fileKind, file.lines[j]) # KeyOf(fileKind, file.lines[i]))
            => figures[KeyOf(fileKind, file.lines[i])] = file.lines[i].val

(* The closing price of the replay: the row that was captured last, and of *)
(* those the one inserted last.                                            *)
ClosingOf(game, market, side) ==
  LET Has(i) == archive[i].game = game /\ archive[i].market = market /\ archive[i].side = side
  IN  {i \in DOMAIN archive :
         /\ Has(i)
         /\ \A j \in DOMAIN archive :
              Has(j) => archive[j].at < archive[i].at \/ (archive[j].at = archive[i].at /\ j <= i)}

(* Imports append what is there already.  All the same the replay closes   *)
(* on the prices of the file imported last, once that is done: unless the  *)
(* file moved the start of the game to an earlier hour, and with it the    *)
(* hour its prices are said to be of.                                      *)
ClosingIsTheFiles ==
  fileKind \in OddsKinds /\ import.at = "done" /\ (fileKind = "odds" \/ FileOf(import.version).priced) =>
    LET file == FileOf(import.version)
        rows == RowsOfFile(import.filter, file)
    IN  \A i \in rows :
          LET line == file.lines[i]
          IN  (\A j \in rows : j > i => GameOf(file.lines[j]) # GameOf(line)) =>
                \A n \in 1..6 :
                  LET quote == BuildOddsSnapshots(fileKind, line)[n]
                      closing == ClosingOf(quote.game, quote.market, quote.side)
                  IN  \/ \E c \in closing : archive[c].price = quote.price /\ archive[c].point = quote.point
                      \/ \E c \in closing : archive[c].at > quote.at

(* A quote is not in the archive more often than imports have begun: one   *)
(* import inserts a line of its file once, whichever of them got how far.  *)
RepeatsAreImports ==
  \A i \in DOMAIN archive : Cardinality({j \in DOMAIN archive : archive[j] = archive[i]}) <= imports

(* A dry run tells what an import will do, the database willing: whether   *)
(* it comes to the end of the file, and after how many rows it stops.      *)
DryRunForetells ==
  LET told == Foretold(import.filter, FileOf(import.version))
  IN  /\ import.at = "done" => told.ok
      /\ import.at = "bad" => ~told.ok
      /\ import.at \in {"done", "bad"} => import.count = told.count
      /\ import.count <= told.count

(* The file imported last prevails, in figures and in closing prices, over *)
(* whatever earlier imports left; they leave no more than a copy each, and *)
(* a dry run foretells them.                                               *)
FilesPrevail == ImportedIsTheFile /\ ClosingIsTheFiles /\ RepeatsAreImports /\ DryRunForetells

=============================================================================
