----------------------------- MODULE BackOffice -----------------------------
(***************************************************************************)
(* The services beside the till: sessions, the import of marketplace       *)
(* orders, tax books, EGAIS documents, and the watch over the stock.       *)
(*                                                                         *)
(* In this composition they run in one process and share no table, so a    *)
(* step of one neither enables nor disturbs a step of another: a behaviour *)
(* of the whole, seen from one service, is a behaviour of that service     *)
(* with stutters.  `service` names the one of Service that a behaviour     *)
(* moves; the others stutter, and together the behaviours are those of     *)
(* all of them.                                                            *)
(***************************************************************************)
EXTENDS Integers, Sequences, FiniteSets

CONSTANTS
  Service, \* those that a run moves
  Client, User, LockAfter, LockTime, RefreshTTL, MaxSessions, MaxTokens, MaxTime, MaxGuesses,
  Session, Order, Offer, OfferOf, KnownSku, Limit, MaxCrashes,
  Closer, ReceiptKind, PurchaseKind, Period, DeclType, MaxRows,
  Sender, MaxDocs, MaxSaves,
  Seller, Pusher, Warehouse, Product, Offers, Threshold, Quantity, MaxStock,
  None

VARIABLES
  service,
  users, sessions, now, tokens, req, guesses, overlaps, uses, together,
  posted, linked, buyer, inserting, orders, mpOrder, failed, raced, tx, crashes,
  receipts, documents, before, books, bookOwner, declaration, closing,
  egaisDocuments, utm, integration, saving, sending, answerLost, cutShort,
  stock, locks, alerts, sale, shown, push, had

S == INSTANCE Sessions
M == INSTANCE MarketOrdersProperties
T == INSTANCE TaxBooks
E == INSTANCE Egais WITH documents <- egaisDocuments
W == INSTANCE StockWatch

\* What each service assumes of its constants.
ASSUME BackOfficeAssumption ==
  /\ Service \subseteq {"sessions", "market", "tax", "egais", "stock"}
  /\ S!SessionsAssumption /\ M!MarketOrdersAssumption /\ T!TaxBooksAssumption
  /\ E!EgaisAssumption /\ W!StockWatchAssumption

sessionsVars == <<users, sessions, now, tokens, req, guesses, overlaps, uses, together>>
marketVars == <<posted, linked, buyer, inserting, orders, mpOrder, failed, raced, tx, crashes>>
taxVars == <<receipts, documents, before, books, bookOwner, declaration, closing>>
egaisVars == <<egaisDocuments, utm, integration, saving, sending, answerLost, cutShort>>
watchVars == <<stock, locks, alerts, sale, shown, push, had>>
vars == <<service, sessionsVars, marketVars, taxVars, egaisVars, watchVars>>

Init ==
  /\ service \in Service
  /\ S!Init /\ M!Init /\ T!TaxInit /\ E!EgaisInit /\ W!WatchInit

SessionsStep ==
  /\ service = "sessions" /\ S!Next
  /\ UNCHANGED <<service, marketVars, taxVars, egaisVars, watchVars>>

MarketStep ==
  /\ service = "market" /\ M!Next
  /\ UNCHANGED <<service, sessionsVars, taxVars, egaisVars, watchVars>>

TaxStep ==
  /\ service = "tax" /\ T!TaxNext
  /\ UNCHANGED <<service, sessionsVars, marketVars, egaisVars, watchVars>>

EgaisStep ==
  /\ service = "egais" /\ E!EgaisNext
  /\ UNCHANGED <<service, sessionsVars, marketVars, taxVars, watchVars>>

StockStep ==
  /\ service = "stock" /\ W!WatchNext
  /\ UNCHANGED <<service, sessionsVars, marketVars, taxVars, egaisVars>>

Next == SessionsStep \/ MarketStep \/ TaxStep \/ EgaisStep \/ StockStep

Spec == Init /\ [][Next]_vars

-----------------------------------------------------------------------------
\* The properties of the services, each stated and explained in its module.
GuessesBounded == S!GuessesBounded
TokensAgree == S!TokensAgree
LogoutIsFinal == S!LogoutIsFinal
ImportAccounted == M!ImportAccounted
BookIsOneLiveBook == T!BookIsOneLiveBook
StatusTellsTruth == E!StatusTellsTruth
LowIsAlerted == W!LowIsAlerted
ShownWasFree == W!ShownWasFree

=============================================================================
