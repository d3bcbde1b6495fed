----------------------------- MODULE MatrixBoard -----------------------------
(***************************************************************************)
(* The board of a matrix search (src/src/http-router.ts): each provider    *)
(* fills its own draft, one cell for each pair of dates, as its searches    *)
(* answer; the runner shows of each cell the better of the providers', and *)
(* what a recent search of the same request had there until it knows more. *)
(*                                                                         *)
(* A cell is what the comparison reads of it: its confidence, its price    *)
(* and its provider, and whether it comes from the earlier search. Which   *)
(* dates are asked, in which order and how often, is DateSweep's.          *)
(***************************************************************************)
EXTENDS Integers, FiniteSets

CONSTANTS
  BoardCell,     \* keys of the cells both providers drafted
  CellPrice,     \* prices a cell may have
  NoPrice        \* none; above every price

BoardProviders == <<"agil-local", "costamar">>
BoardProvider == {"agil-local", "costamar"}

ASSUME BoardAssumption ==
  /\ IsFiniteSet(BoardCell) /\ CellPrice \subseteq Nat
  /\ NoPrice \in Nat /\ \A price \in CellPrice : price < NoPrice

VARIABLES
  drafts,      \* ProviderMatrixState: the cells of each provider's response
  summary,    \* confidenceSummary of each provider's response
  finished,   \* providers that completed or failed
  failed,     \* those that failed
  earlier,     \* cells of a recent search of the same request
  board,      \* the job's cells
  boardJob    \* the job's status

boardVars == <<drafts, summary, finished, failed, earlier, board, boardJob>>

Confidence == {"live", "loading", "unavailable"}
Cell(confidence, price, from, old) ==
  [confidence |-> confidence, price |-> price, from |-> from, old |-> old]
Loading(p) == Cell("loading", NoPrice, p, FALSE)
Unavailable(p) == Cell("unavailable", NoPrice, p, FALSE)
Live(p, price) == Cell("live", price, p, FALSE)

(* What a recent search may have left in a cell; a price is enough.        *)
Cached == {Cell("live", price, "agil-local", TRUE) : price \in CellPrice}
          \union {Cell("loading", NoPrice, "agil-local", TRUE)}

(* buildMatrixConfidenceSummary *)
Counted(cells) == [c \in Confidence |-> Cardinality({k \in BoardCell : cells[k].confidence = c})]

StateRank(cell) ==
  CASE cell.confidence = "live" -> 1
    [] cell.confidence = "loading" -> 3
    [] cell.confidence = "unavailable" -> 4

(* Mutant: the state goes before the price, and between equals the last    *)
(* provider goes first.                                                    *)
PicksLast(a, b) ==
  \/ StateRank(b) < StateRank(a)
  \/ StateRank(b) = StateRank(a) /\ b.price >= a.price

(* compareAggregatedMatrixCells: the cell of the second provider is picked *)
(* only if it is better.                                                   *)
Picks(a, b) ==
  \/ b.price < a.price
  \/ b.price = a.price /\ StateRank(b) < StateRank(a)

Selected(k) ==
  LET first == drafts[BoardProviders[1]][k]
      second == drafts[BoardProviders[2]][k]
  IN IF Picks(first, second) THEN second ELSE first

(* materializeAggregatedMatrixResponse, under overlayCachedMatrixCells.    *)
ShownCell(k) ==
  IF Selected(k).confidence = "loading" /\ earlier[k].confidence # "loading"
  THEN earlier[k] ELSE Selected(k)
Board == [k \in BoardCell |-> ShownCell(k)]

BoardInit ==
  /\ drafts = [p \in BoardProvider |-> [k \in BoardCell |-> Loading(p)]]
  /\ summary = [p \in BoardProvider |-> Counted(drafts[p])]
  /\ finished = {} /\ failed = {}
  /\ earlier \in [BoardCell -> Cached]
  /\ board = Board
  /\ boardJob = "running"

BoardRunning == boardJob = "running"

(* updateMatrixDraftCell: the cell, and the summary by difference.         *)
UpdateDraft(p, k, cell) ==
  /\ drafts' = [drafts EXCEPT ![p][k] = cell]
  /\ summary' = IF drafts[p][k].confidence = cell.confidence THEN summary
                ELSE [summary EXCEPT ![p][drafts[p][k].confidence] = @ - 1, ![p][cell.confidence] = @ + 1]

CellResolved(p, k) ==
  /\ BoardRunning
  /\ p \notin finished
  /\ drafts[p][k].confidence = "loading"
  /\ \E cell \in {Live(p, price) : price \in CellPrice} \union {Unavailable(p)} : UpdateDraft(p, k, cell)
  /\ UNCHANGED <<finished, failed, earlier, board, boardJob>>

(* The provider's answer has every cell resolved.                          *)
MatrixAnswered(p) ==
  /\ BoardRunning
  /\ p \notin finished
  /\ \A k \in BoardCell : drafts[p][k].confidence # "loading"
  /\ finished' = finished \union {p}
  /\ summary' = [summary EXCEPT ![p] = Counted(drafts[p])]
  /\ UNCHANGED <<drafts, failed, earlier, board, boardJob>>

(* Mutant: a provider that fails loses the cells it had. *)
FailedWhole(p) == [k \in BoardCell |-> Unavailable(p)]

(* materializeFailedMatrixResponse *)
Failed(p) == [k \in BoardCell |-> IF drafts[p][k].confidence = "loading" THEN Unavailable(p) ELSE drafts[p][k]]

MatrixFails(p) ==
  /\ BoardRunning
  /\ p \notin finished
  /\ drafts' = [drafts EXCEPT ![p] = Failed(p)]
  /\ summary' = [summary EXCEPT ![p] = Counted(drafts'[p])]
  /\ finished' = finished \union {p}
  /\ failed' = failed \union {p}
  /\ UNCHANGED <<earlier, board, boardJob>>

(* syncMatrixJob, on the trailing schedule of the progress or at the end.  *)
SyncMatrixJob ==
  /\ BoardRunning
  /\ board' = Board
  /\ UNCHANGED <<drafts, summary, finished, failed, earlier, boardJob>>

MatrixCompletes ==
  /\ BoardRunning
  /\ finished = BoardProvider
  /\ board' = Board
  /\ boardJob' = "completed"
  /\ UNCHANGED <<drafts, summary, finished, failed, earlier>>

MatrixCancelled ==
  /\ BoardRunning
  /\ boardJob' = "cancelled"
  /\ UNCHANGED <<drafts, summary, finished, failed, earlier, board>>

BoardNext ==
  \/ \E p \in BoardProvider :
       MatrixAnswered(p) \/ MatrixFails(p) \/ \E k \in BoardCell : CellResolved(p, k)
  \/ SyncMatrixJob \/ MatrixCompletes \/ MatrixCancelled

BoardSpec == BoardInit /\ [][BoardNext]_boardVars

BoardTypeOK ==
  /\ \A p \in BoardProvider : \A k \in BoardCell :
       drafts[p][k] \in [confidence : Confidence, price : CellPrice \union {NoPrice}, from : {p}, old : {FALSE}]
  /\ \A p \in BoardProvider : summary[p] = Counted(drafts[p])
  /\ failed \subseteq finished /\ finished \subseteq BoardProvider
  /\ board \in [BoardCell -> [confidence : Confidence, price : CellPrice \union {NoPrice},
                              from : BoardProvider, old : BOOLEAN]]
  /\ boardJob \in {"running", "completed", "cancelled"}

---------------------------------------------------------------------------
(* A price that a provider answered this search with stays on the board:   *)
(* it only gives way to a cheaper one, even when a provider fails after it *)
(* or is late. One that was cached may give way to any answer, to none too. *)
PricesOnlyImprove ==
  [][\A k \in BoardCell :
       board[k].confidence = "live" /\ ~board[k].old =>
         board'[k].confidence = "live" /\ ~board'[k].old /\ board'[k].price <= board[k].price]_boardVars

(* A completed board says of each cell what this search found, the         *)
(* cheapest of what either provider answered, Agil's when both answered    *)
(* it; nothing waits and nothing of the earlier search is left.            *)
CompletedBoardIsFresh ==
  boardJob = "completed" =>
    \A k \in BoardCell :
      LET prices == {drafts[p][k].price : p \in BoardProvider}
      IN /\ ~board[k].old /\ board[k].confidence # "loading"
         /\ board[k].price \in prices /\ \A price \in prices : board[k].price <= price
         /\ drafts["agil-local"][k].price = board[k].price => board[k].from = "agil-local"

=============================================================================
