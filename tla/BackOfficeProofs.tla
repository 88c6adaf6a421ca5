-------------------------- MODULE BackOfficeProofs --------------------------
(***************************************************************************)
(* Theorems about the services beside the till, for any number of clients, *)
(* users, tokens, pulls, orders, documents and sales at once.  A step of   *)
(* the whole is a step of one service that leaves the others alone, so     *)
(* each service has an invariant of its own.                               *)
(***************************************************************************)
EXTENDS BackOffice, RanksAndSums, SequenceTheorems

LEMMA StepsAre ==
  ASSUME Next \/ UNCHANGED vars
  PROVE  /\ S!Next \/ UNCHANGED sessionsVars
         /\ M!Next \/ UNCHANGED marketVars
         /\ T!TaxNext \/ UNCHANGED taxVars
         /\ E!EgaisNext \/ UNCHANGED egaisVars
         /\ W!WatchNext \/ UNCHANGED watchVars
BY DEF Next, SessionsStep, MarketStep, TaxStep, EgaisStep, StockStep, vars

-----------------------------------------------------------------------------
(* EGAIS. *)

SendingRow == [stage : {"idle", "url", "send", "result"}, doc : E!Doc \cup {None},
               outcome : {"ACCEPTED", "FAILED", None}]

\* A document under way is PENDING and its request alone sends it, once.
UnderWay(s) ==
  LET d == sending[s].doc
      outcome == sending[s].outcome
  IN
  /\ sending[s].stage = "idle" <=> d = None
  /\ d # None => egaisDocuments[d] = "PENDING" /\ \A t \in Sender \ {s} : sending[t].doc # d
  /\ sending[s].stage \in {"url", "send"} => utm[d] = 0 /\ d \notin answerLost
  /\ sending[s].stage = "result" =>
       \/ outcome = "ACCEPTED" /\ utm[d] = 1
       \/ outcome = "FAILED" /\ utm[d] = IF d \in answerLost THEN 1 ELSE 0

\* The status of a document says what the UTM has.
Truthful(d) ==
  /\ egaisDocuments[d] = "ACCEPTED" => utm[d] = 1
  /\ egaisDocuments[d] = "FAILED" => utm[d] = IF d \in answerLost THEN 1 ELSE 0
  /\ egaisDocuments[d] = "PENDING" => d \in cutShort \/ \E s \in Sender : sending[s].doc = d
  /\ egaisDocuments[d] = None => utm[d] = 0 /\ d \notin answerLost

EgaisInv ==
  /\ egaisDocuments \in [E!Doc -> E!DocStatus \cup {None}]
  /\ utm \in [E!Doc -> Nat] /\ sending \in [Sender -> SendingRow]
  /\ \A s \in Sender : UnderWay(s)
  /\ \A d \in E!Doc : Truthful(d)

\* A step of the request of s that touches its document only.
Handles(s, d, row) ==
  /\ sending[s].doc \in {d, None} /\ row.doc \in {d, None}
  /\ sending' = [sending EXCEPT ![s] = row] /\ \A t \in Sender \ {s} : sending[t].doc # d
  /\ egaisDocuments' \in [E!Doc -> E!DocStatus \cup {None}] /\ utm' \in [E!Doc -> Nat]
  /\ \A e \in E!Doc \ {d} :
       /\ egaisDocuments'[e] = egaisDocuments[e] /\ utm'[e] = utm[e]
       /\ (e \in answerLost') <=> (e \in answerLost)
  /\ cutShort \subseteq cutShort'

LEMMA HandlesInv ==
  ASSUME EgaisInv, NEW s \in Sender, NEW d \in E!Doc, NEW row \in SendingRow, Handles(s, d, row),
         sending'[s] = row => UnderWay(s)' /\ Truthful(d)'
  PROVE  EgaisInv'
<1>1. sending'[s] = row /\ \A t \in Sender \ {s} : sending'[t] = sending[t]
  BY DEF EgaisInv, Handles
<1>2. None \notin E!Doc
  BY BackOfficeAssumption DEF E!EgaisAssumption
<1>3. ASSUME NEW t \in Sender, t # s PROVE UnderWay(t)'
  <2>1. sending'[t] = sending[t] /\ UnderWay(t) /\ sending[t] \in SendingRow /\ sending[t].doc # d
    BY <1>1, <1>3 DEF EgaisInv, Handles
  <2>2. \A u \in Sender \ {t} : sending'[u].doc = sending[u].doc \/ sending'[u].doc \in {d, None}
    BY <1>1 DEF Handles
  <2>. QED  BY <2>1, <2>2 DEF UnderWay, SendingRow, Handles
<1>4. ASSUME NEW e \in E!Doc, e # d PROVE Truthful(e)'
  <2>1. Truthful(e) /\ egaisDocuments'[e] = egaisDocuments[e] /\ utm'[e] = utm[e]
        /\ ((e \in answerLost') <=> (e \in answerLost))
    BY <1>4 DEF EgaisInv, Handles
  <2>2. \A t \in Sender : sending[t].doc = e => sending'[t].doc = e
    BY <1>1, <1>2, <1>4 DEF Handles
  <2>. QED  BY <2>1, <2>2 DEF Truthful, Handles
<1>5. sending' \in [Sender -> SendingRow]
  BY DEF EgaisInv, Handles
<1>. QED  BY <1>1, <1>3, <1>4, <1>5 DEF EgaisInv, Handles

LEMMA EgaisInvStays ==
  ASSUME EgaisInv, E!EgaisNext \/ UNCHANGED egaisVars
  PROVE  EgaisInv'
<1>1. None \notin E!Doc /\ None \notin E!DocStatus
  BY BackOfficeAssumption DEF E!EgaisAssumption
<1>2. CASE UNCHANGED <<egaisDocuments, utm, sending, answerLost, cutShort>>
  BY <1>2 DEF EgaisInv, UnderWay, Truthful
<1>3. ASSUME NEW s \in Sender, NEW d \in E!Doc, E!CreateDoc(s, d) PROVE EgaisInv'
  <2> DEFINE row == [stage |-> "url", doc |-> d, outcome |-> None]
  <2>1. row \in SendingRow /\ row.stage = "url" /\ row.doc = d
    BY DEF SendingRow
  <2>2. /\ sending[s].doc = None /\ egaisDocuments[d] = None /\ sending' = [sending EXCEPT ![s] = row]
        /\ egaisDocuments' = [egaisDocuments EXCEPT ![d] = "PENDING"]
        /\ UNCHANGED <<utm, answerLost, cutShort>>
    BY <1>3 DEF E!CreateDoc, E!At, EgaisInv, UnderWay
  <2>3. \A t \in Sender : sending[t].doc # d
    BY <1>1, <2>2 DEF EgaisInv, UnderWay, E!DocStatus
  <2> HIDE DEF row
  <2>4. sending'[s] = row => UnderWay(s)' /\ Truthful(d)'
    <3>1. \A t \in Sender \ {s} : sending'[t] = sending[t]
      BY <2>2 DEF EgaisInv
    <3>2. egaisDocuments'[d] = "PENDING" /\ utm'[d] = 0 /\ d \notin answerLost'
      BY <2>2 DEF EgaisInv, Truthful
    <3>. QED  BY <1>1, <2>1, <2>3, <3>1, <3>2 DEF UnderWay, Truthful, E!DocStatus
  <2>5. /\ egaisDocuments' \in [E!Doc -> E!DocStatus \cup {None}] /\ utm' \in [E!Doc -> Nat]
        /\ \A e \in E!Doc \ {d} : egaisDocuments'[e] = egaisDocuments[e]
    BY <2>2 DEF EgaisInv, E!DocStatus
  <2>6. Handles(s, d, row)
    BY <2>1, <2>2, <2>3, <2>5 DEF Handles
  <2>. QED  BY <2>1, <2>4, <2>6, HandlesInv
<1>4. ASSUME NEW s \in Sender, sending[s].stage # "idle" PROVE sending[s].doc \in E!Doc
  BY <1>4 DEF EgaisInv, UnderWay, SendingRow
<1>5. ASSUME NEW s \in Sender, sending[s].stage # "idle"
      PROVE  \A t \in Sender \ {s} : sending[t].doc # sending[s].doc
  BY <1>1, <1>4, <1>5 DEF EgaisInv, UnderWay
<1>6. ASSUME NEW s \in Sender, E!FindUtm(s) PROVE EgaisInv'
  <2> DEFINE row == [sending[s] EXCEPT !.stage = IF E!utmURL THEN "send" ELSE "result",
                                       !.outcome = IF E!utmURL THEN None ELSE "FAILED"]
  <2>1. sending[s] \in SendingRow /\ sending[s].stage = "url" /\ sending[s].doc \in E!Doc /\ UnderWay(s)
    BY <1>4, <1>6 DEF EgaisInv, E!FindUtm, E!At
  <2> PICK d \in E!Doc : d = sending[s].doc
    BY <2>1
  <2>2. /\ row \in SendingRow /\ row.doc = sending[s].doc
        /\ \/ row.stage = "send"
           \/ row.stage = "result" /\ row.outcome = "FAILED"
    BY <2>1 DEF SendingRow
  <2>3. sending' = [sending EXCEPT ![s] = row] /\ UNCHANGED <<egaisDocuments, utm, answerLost, cutShort>>
    BY <1>6 DEF EgaisInv, E!FindUtm
  <2> HIDE DEF row
  <2>4. sending'[s] = row => UnderWay(s)' /\ Truthful(d)'
    <3>1. \A t \in Sender \ {s} : sending'[t] = sending[t]
      BY <2>3 DEF EgaisInv
    <3>. QED  BY <1>1, <2>1, <2>2, <2>3, <3>1 DEF UnderWay, Truthful
  <2>5. Handles(s, d, row)
    BY <1>5, <2>1, <2>2, <2>3 DEF Handles, EgaisInv
  <2>. QED  BY <2>1, <2>2, <2>4, <2>5, HandlesInv
<1>7. ASSUME NEW s \in Sender, NEW taken \in BOOLEAN, NEW answered \in BOOLEAN,
             E!SendDoc(s, taken, answered)
      PROVE  EgaisInv'
  <2> DEFINE row == [sending[s] EXCEPT !.stage = "result",
                                       !.outcome = IF taken /\ answered THEN "ACCEPTED" ELSE "FAILED"]
  <2>1. sending[s] \in SendingRow /\ sending[s].stage = "send" /\ sending[s].doc \in E!Doc /\ UnderWay(s)
    BY <1>4, <1>7 DEF EgaisInv, E!SendDoc, E!At
  <2> PICK d \in E!Doc : d = sending[s].doc
    BY <2>1
  <2>2. row \in SendingRow /\ row.doc = d /\ row.stage = "result"
    BY <2>1 DEF SendingRow
  <2>3. sending' = [sending EXCEPT ![s] = row] /\ UNCHANGED <<egaisDocuments, cutShort>>
    BY <1>7 DEF EgaisInv, E!SendDoc
  <2>4. utm' \in [E!Doc -> Nat] /\ \A e \in E!Doc \ {d} : utm'[e] = utm[e]
    BY <1>7, <2>1 DEF EgaisInv, E!SendDoc
  <2>5. \A e \in E!Doc \ {d} : (e \in answerLost') <=> (e \in answerLost)
    BY <1>7 DEF E!SendDoc
  <2>6. \/ row.outcome = "ACCEPTED" /\ utm'[d] = 1
        \/ row.outcome = "FAILED" /\ utm'[d] = IF d \in answerLost' THEN 1 ELSE 0
    <3>1. utm[d] = 0 /\ d \notin answerLost /\ utm[d] + 1 = 1
      BY <2>1 DEF UnderWay
    <3>2. CASE taken /\ answered
      BY <1>7, <2>1, <3>1, <3>2 DEF E!SendDoc, EgaisInv, SendingRow
    <3>3. CASE taken /\ ~answered
      BY <1>7, <2>1, <3>1, <3>3 DEF E!SendDoc, EgaisInv, SendingRow
    <3>4. CASE ~taken
      BY <1>7, <2>1, <3>1, <3>4 DEF E!SendDoc, EgaisInv, SendingRow
    <3>. QED  BY <3>2, <3>3, <3>4
  <2> HIDE DEF row
  <2>7. sending'[s] = row => UnderWay(s)' /\ Truthful(d)'
    <3>1. \A t \in Sender \ {s} : sending'[t] = sending[t]
      BY <2>3 DEF EgaisInv
    <3>2. \A t \in Sender \ {s} : sending[t].doc # d
      BY <1>5, <2>1
    <3>3. egaisDocuments'[d] = "PENDING"
      BY <1>1, <2>1, <2>3 DEF UnderWay
    <3>4. sending'[s] = row => UnderWay(s)'
      BY <1>1, <2>2, <2>6, <3>1, <3>2, <3>3 DEF UnderWay
    <3>5. sending'[s] = row => Truthful(d)'
      BY <1>1, <2>2, <3>3 DEF Truthful, E!DocStatus
    <3>. QED  BY <3>4, <3>5
  <2>8. Handles(s, d, row)
    BY <1>5, <2>1, <2>2, <2>3, <2>4, <2>5 DEF Handles, EgaisInv
  <2>. QED  BY <2>1, <2>2, <2>7, <2>8, HandlesInv
<1>8. ASSUME NEW s \in Sender, E!SetResult(s) \/ E!CutShort(s) PROVE EgaisInv'
  <2>1. E!NoSending \in SendingRow /\ E!NoSending.stage = "idle" /\ E!NoSending.doc = None
    BY DEF E!NoSending, SendingRow
  <2>2. sending[s].stage # "idle" /\ sending[s].doc \in E!Doc /\ UnderWay(s)
    BY <1>4, <1>8 DEF EgaisInv, E!SetResult, E!CutShort, E!At
  <2> PICK d \in E!Doc : d = sending[s].doc
    BY <2>2
  <2>3. sending' = [sending EXCEPT ![s] = E!NoSending] /\ UNCHANGED <<utm, answerLost>>
    BY <1>8 DEF E!SetResult, E!CutShort
  <2>4. /\ egaisDocuments' \in [E!Doc -> E!DocStatus \cup {None}] /\ cutShort \subseteq cutShort'
        /\ \A e \in E!Doc \ {d} : egaisDocuments'[e] = egaisDocuments[e]
        /\ Truthful(d)'
    <3>1. CASE E!SetResult(s)
      <4>1. /\ sending[s].outcome \in {"ACCEPTED", "FAILED"}
            /\ egaisDocuments' = [egaisDocuments EXCEPT ![d] = sending[s].outcome] /\ UNCHANGED cutShort
        BY <2>2, <3>1 DEF E!SetResult, E!At, UnderWay
      <4>2. sending[s].stage = "result"
        BY <3>1 DEF E!SetResult, E!At
      <4>3. egaisDocuments' \in [E!Doc -> E!DocStatus \cup {None}] /\ egaisDocuments'[d] = sending[s].outcome
            /\ \A e \in E!Doc \ {d} : egaisDocuments'[e] = egaisDocuments[e]
        BY <2>2, <4>1 DEF EgaisInv, E!DocStatus
      <4>4. Truthful(d)'
        BY <1>1, <2>2, <2>3, <4>1, <4>2, <4>3 DEF E!DocStatus, Truthful, UnderWay
      <4>. QED  BY <4>1, <4>3, <4>4
    <3>2. CASE E!CutShort(s)
      <4>1. UNCHANGED egaisDocuments /\ d \in cutShort' /\ cutShort \subseteq cutShort'
        BY <3>2 DEF E!CutShort
      <4>2. Truthful(d)'
        BY <1>1, <2>2, <2>3, <4>1 DEF E!DocStatus, Truthful, UnderWay
      <4>. QED  BY <4>1, <4>2 DEF EgaisInv
    <3>. QED  BY <1>8, <3>1, <3>2
  <2>5. sending'[s] = E!NoSending => UnderWay(s)'
    BY <1>1, <2>1 DEF UnderWay
  <2>6. Handles(s, d, E!NoSending)
    BY <1>5, <2>1, <2>2, <2>3, <2>4 DEF Handles, EgaisInv
  <2>. QED  BY <2>1, <2>2, <2>4, <2>5, <2>6, HandlesInv
<1>9. CASE \/ \E url \in {"given", "empty", "left out"}, enabled \in BOOLEAN : E!SaveRead(url, enabled)
           \/ \E row \in saving : E!SaveWrite(row)
           \/ E!Clear \/ UNCHANGED egaisVars
  BY <1>2, <1>9 DEF E!SaveRead, E!SaveWrite, E!Clear, egaisVars
<1>. QED  BY <1>3, <1>6, <1>7, <1>8, <1>9 DEF E!EgaisNext

\* The status of a document tells what the UTM has: ACCEPTED is taken, once;
\* FAILED is taken only if its answer was lost; PENDING is under way or was cut
\* short (service/egais.go).
THEOREM StatusTellsTruthHolds == Spec => []StatusTellsTruth
<1>1. Init => EgaisInv
  BY BackOfficeAssumption DEF Init, E!EgaisInit, E!NoSending, EgaisInv, SendingRow, UnderWay, Truthful,
     E!EgaisAssumption, E!DocStatus
<1>2. EgaisInv /\ [Next]_vars => EgaisInv'
  BY StepsAre, EgaisInvStays
<1>3. EgaisInv => StatusTellsTruth
  BY DEF EgaisInv, Truthful, StatusTellsTruth, E!StatusTellsTruth
<1>. QED  BY <1>1, <1>2, <1>3, PTL DEF Spec

-----------------------------------------------------------------------------
(* The watch over the stock. *)

SaleRow == [stage : {"idle", "deduct", "lows", "alerts"}, cell : W!Cell \cup {<<>>}, qty : Nat,
            lows : SUBSET Product, alerting : SUBSET Product, unheard : SUBSET Product]

\* A sale that has updated a balance holds its row, so that what it has read of
\* it stays so; if its product is low, it is still to be looked at, or alerted of,
\* or nobody was there to be told.
Watched(s) ==
  LET c == sale[s].cell IN
  /\ sale[s].stage # "idle" => c \in W!Cell
  /\ sale[s].stage \in {"lows", "alerts"} => locks[c] = s
  /\ sale[s].stage = "alerts" /\ stock[c] - sale[s].qty < Threshold =>
       c[2] \in sale[s].lows \cup sale[s].alerting \cup sale[s].unheard \cup alerts

Free == {free \in Int : free <= MaxStock}

WatchInv ==
  /\ stock \in [W!Cell -> Free] /\ locks \in [W!Cell -> Seller \cup {None}]
  /\ alerts \subseteq Product /\ sale \in [Seller -> SaleRow]
  /\ \A s \in Seller : Watched(s)

\* A step of a sale: of the rows it does not hold it changes none that is held.
Sells(s, row) ==
  /\ sale' = [sale EXCEPT ![s] = row]
  /\ stock' \in [W!Cell -> Free] /\ locks' \in [W!Cell -> Seller \cup {None}]
  /\ alerts \subseteq alerts' /\ alerts' \subseteq Product
  /\ \A t \in Seller \ {s}, c \in W!Cell : locks[c] = t => stock'[c] = stock[c] /\ locks'[c] = t

LEMMA SellsInv ==
  ASSUME WatchInv, NEW s \in Seller, NEW row \in SaleRow, Sells(s, row),
         sale'[s] = row => Watched(s)'
  PROVE  WatchInv'
<1>1. sale'[s] = row /\ \A t \in Seller \ {s} : sale'[t] = sale[t]
  BY DEF WatchInv, Sells
<1>2. ASSUME NEW t \in Seller, t # s PROVE Watched(t)'
  <2>1. sale'[t] = sale[t] /\ Watched(t) /\ sale[t] \in SaleRow
    BY <1>1, <1>2 DEF WatchInv
  <2>2. CASE sale[t].stage \in {"lows", "alerts"}
    <3>1. sale[t].cell \in W!Cell /\ locks[sale[t].cell] = t
      BY <2>1, <2>2 DEF Watched
    <3>2. stock'[sale[t].cell] = stock[sale[t].cell] /\ locks'[sale[t].cell] = t
      BY <1>2, <3>1 DEF Sells
    <3>. QED  BY <2>1, <3>1, <3>2 DEF Watched, Sells
  <2>3. CASE sale[t].stage \notin {"lows", "alerts"}
    BY <2>1, <2>3 DEF Watched
  <2>. QED  BY <2>2, <2>3
<1>3. sale' \in [Seller -> SaleRow]
  BY DEF WatchInv, Sells
<1>. QED  BY <1>1, <1>2, <1>3 DEF WatchInv, Sells

LEMMA NoSaleTyped == W!NoSale \in SaleRow /\ W!NoSale.stage = "idle"
BY DEF W!NoSale, SaleRow

LEMMA WatchInvStays ==
  ASSUME WatchInv, W!WatchNext \/ UNCHANGED watchVars
  PROVE  WatchInv'
<1>1. None \notin Seller /\ Threshold \in Nat /\ Quantity \subseteq Nat /\ MaxStock \in Nat
  BY BackOfficeAssumption DEF W!StockWatchAssumption
<1>2. CASE UNCHANGED <<stock, locks, alerts, sale>>
  BY <1>2 DEF WatchInv, Watched
<1>3. ASSUME NEW s \in Seller, NEW c \in W!Cell, NEW q \in Quantity, W!ReadFree(s, c, q) PROVE WatchInv'
  <2> DEFINE row == [W!NoSale EXCEPT !.stage = "deduct", !.cell = c, !.qty = q]
  <2>1. row \in SaleRow /\ row.stage = "deduct" /\ row.cell = c
    BY <1>1 DEF W!NoSale, SaleRow
  <2>2. sale' = [sale EXCEPT ![s] = row] /\ UNCHANGED <<stock, locks, alerts>>
    BY <1>3 DEF W!ReadFree
  <2> HIDE DEF row
  <2>3. Sells(s, row)
    BY <2>2 DEF Sells, WatchInv
  <2>4. sale'[s] = row => Watched(s)'
    BY <2>1 DEF Watched
  <2>. QED  BY <2>1, <2>3, <2>4, SellsInv
<1>4. ASSUME NEW s \in Seller, W!Deduct(s) PROVE WatchInv'
  <2> DEFINE row == [sale[s] EXCEPT !.stage = "lows"]
  <2>1. sale[s] \in SaleRow /\ Watched(s) /\ sale[s].stage = "deduct" /\ locks[sale[s].cell] = None
    BY <1>4 DEF WatchInv, W!Deduct, W!Selling
  <2>2. row \in SaleRow /\ row.stage = "lows" /\ row.cell = sale[s].cell /\ row.cell \in W!Cell
    BY <2>1 DEF SaleRow, Watched
  <2>3. /\ sale' = [sale EXCEPT ![s] = row] /\ locks' = [locks EXCEPT ![row.cell] = s]
        /\ UNCHANGED <<stock, alerts>>
    BY <1>4, <2>2 DEF W!Deduct
  <2> HIDE DEF row
  <2>4. locks[row.cell] = None
    BY <2>1, <2>2
  <2>5. Sells(s, row)
    BY <1>1, <2>2, <2>3, <2>4 DEF Sells, WatchInv
  <2>6. sale'[s] = row => Watched(s)'
    BY <2>2, <2>3 DEF Watched, WatchInv
  <2>. QED  BY <2>2, <2>5, <2>6, SellsInv
<1>5. ASSUME NEW s \in Seller, W!ReadLows(s) PROVE WatchInv'
  <2> DEFINE Low(p) == W!FreeFor(s, <<sale[s].cell[1], p>>) < Threshold
             row == [sale[s] EXCEPT !.stage = "alerts", !.lows = {p \in Product : Low(p)}]
  <2>1. sale[s] \in SaleRow /\ Watched(s) /\ sale[s].stage = "lows"
    BY <1>5 DEF WatchInv, W!ReadLows, W!Selling
  <2>2. sale[s].cell \in W!Cell /\ locks[sale[s].cell] = s
    BY <2>1 DEF Watched
  <2>3. /\ row \in SaleRow /\ row.stage = "alerts" /\ row.cell = sale[s].cell /\ row.qty = sale[s].qty
        /\ row.lows = {p \in Product : Low(p)}
    <3>1. {p \in Product : Low(p)} \in SUBSET Product
      OBVIOUS
    <3> HIDE DEF Low
    <3>. QED  BY <2>1, <3>1 DEF SaleRow
  <2>4. sale' = [sale EXCEPT ![s] = row] /\ UNCHANGED <<stock, locks, alerts>>
    BY <1>5 DEF W!ReadLows, WatchInv
  <2>5. stock[row.cell] - row.qty < Threshold => row.cell[2] \in row.lows
    <3>1. row.cell = <<row.cell[1], row.cell[2]>> /\ row.cell[2] \in Product
      BY <2>2, <2>3 DEF W!Cell
    <3>2. W!FreeFor(s, row.cell) = stock[row.cell] - row.qty
      BY <2>3 DEF W!FreeFor
    <3>3. Low(row.cell[2]) <=> W!FreeFor(s, row.cell) < Threshold
      BY <2>3, <3>1
    <3> HIDE DEF Low, row
    <3>. QED  BY <2>3, <3>1, <3>2, <3>3
  <2> HIDE DEF Low, row
  <2>6. Sells(s, row)
    BY <2>4 DEF Sells, WatchInv
  <2>7. sale'[s] = row => Watched(s)'
    BY <2>2, <2>3, <2>4, <2>5 DEF Watched
  <2>. QED  BY <2>3, <2>6, <2>7, SellsInv
<1>6. ASSUME NEW s \in Seller, NEW p \in Product, NEW told \in BOOLEAN, W!EnqueueAlert(s, p, told)
      PROVE  WatchInv'
  <2> DEFINE row == [sale[s] EXCEPT !.lows = @ \ {p},
                                    !.alerting = IF W!Recent(p) \/ ~told THEN @ ELSE @ \cup {p},
                                    !.unheard = IF W!Recent(p) \/ told THEN @ ELSE @ \cup {p}]
  <2>1. sale[s] \in SaleRow /\ Watched(s) /\ sale[s].stage = "alerts"
    BY <1>6 DEF WatchInv, W!EnqueueAlert, W!Selling
  <2>2. /\ row \in SaleRow /\ row.stage = "alerts" /\ row.cell = sale[s].cell /\ row.qty = sale[s].qty
        /\ row.lows = sale[s].lows \ {p}
        /\ row.alerting = IF p \in alerts \/ ~told THEN sale[s].alerting ELSE sale[s].alerting \cup {p}
        /\ row.unheard = IF p \in alerts \/ told THEN sale[s].unheard ELSE sale[s].unheard \cup {p}
    BY <2>1 DEF SaleRow, W!Recent
  <2>3. sale' = [sale EXCEPT ![s] = row] /\ UNCHANGED <<stock, locks, alerts>>
    BY <1>6 DEF W!EnqueueAlert, WatchInv
  <2> HIDE DEF row
  <2>4. Sells(s, row)
    BY <2>3 DEF Sells, WatchInv
  <2>5. sale'[s] = row => Watched(s)'
    BY <2>1, <2>2, <2>3 DEF Watched
  <2>. QED  BY <2>2, <2>4, <2>5, SellsInv
<1>7. ASSUME NEW s \in Seller, W!CommitSale(s) \/ W!RollbackSale(s) PROVE WatchInv'
  <2>1. sale[s].stage # "idle" /\ sale[s] \in SaleRow /\ Watched(s)
    BY <1>7 DEF WatchInv, W!CommitSale, W!RollbackSale, W!Selling
  <2>2. /\ sale' = [sale EXCEPT ![s] = W!NoSale]
        /\ locks' = [c \in W!Cell |-> IF locks[c] = s THEN None ELSE locks[c]]
    BY <1>7 DEF W!CommitSale, W!RollbackSale, W!Unlock
  <2>3. /\ stock' \in [W!Cell -> Free] /\ alerts \subseteq alerts' /\ alerts' \subseteq Product
        /\ \A c \in W!Cell : locks[c] # s => stock'[c] = stock[c]
    <3>1. CASE W!RollbackSale(s)
      BY <3>1 DEF W!RollbackSale, WatchInv
    <3>2. CASE W!CommitSale(s)
      <4>1. sale[s].cell \in W!Cell /\ locks[sale[s].cell] = s /\ sale[s].qty \in Nat
            /\ sale[s].alerting \subseteq Product
        BY <2>1, <3>2 DEF W!CommitSale, W!Selling, Watched, SaleRow
      <4>2. /\ stock' = [stock EXCEPT ![sale[s].cell] = @ - sale[s].qty]
            /\ alerts' = alerts \cup sale[s].alerting
        BY <3>2 DEF W!CommitSale
      <4>3. stock[sale[s].cell] \in Free /\ stock[sale[s].cell] - sale[s].qty \in Free
        BY <1>1, <4>1 DEF WatchInv, Free
      <4>. QED  BY <4>1, <4>2, <4>3 DEF WatchInv
    <3>. QED  BY <1>7, <3>1, <3>2
  <2>4. Sells(s, W!NoSale)
    BY <2>2, <2>3 DEF Sells, WatchInv
  <2>5. sale'[s] = W!NoSale => Watched(s)'
    BY NoSaleTyped DEF Watched
  <2>. QED  BY <2>4, <2>5, NoSaleTyped, SellsInv
<1>8. ASSUME NEW c \in W!Cell, W!Receive(c) PROVE WatchInv'
  <2>1. /\ locks[c] = None /\ stock' = [stock EXCEPT ![c] = MaxStock] /\ UNCHANGED <<locks, alerts, sale>>
    BY <1>8 DEF W!Receive
  <2>2. ASSUME NEW s \in Seller PROVE Watched(s)'
    <3>1. Watched(s) /\ sale[s] \in SaleRow
      BY DEF WatchInv
    <3>2. sale[s].stage \in {"lows", "alerts"} => stock'[sale[s].cell] = stock[sale[s].cell]
      <4>1. sale[s].stage \in {"lows", "alerts"} => sale[s].cell \in W!Cell /\ sale[s].cell # c
        BY <1>1, <2>1, <3>1 DEF Watched
      <4>. QED  BY <2>1, <4>1 DEF WatchInv
    <3>. QED  BY <2>1, <3>1, <3>2 DEF Watched
  <2>3. MaxStock \in Free
    BY <1>1 DEF Free
  <2>. QED  BY <2>1, <2>2, <2>3 DEF WatchInv
<1>9. CASE W!NextDay
  <2>1. /\ UNCHANGED <<stock, locks, sale>> /\ alerts' = {} /\ \A s \in Seller : sale[s].stage = "idle"
    BY <1>9 DEF W!NextDay, W!Selling
  <2>. QED  BY <2>1 DEF WatchInv, Watched
<1>10. CASE UNCHANGED watchVars \/ \E r \in Pusher :
         \/ \E w \in Warehouse : W!PushStocks(r, {w})
         \/ W!PushStocks(r, Warehouse) \/ (\E read \in BOOLEAN : W!ReadOffer(r, read))
         \/ W!SendStocks(r) \/ W!FailPush(r)
  BY <1>2, <1>10 DEF watchVars, W!PushStocks, W!ReadOffer, W!SendStocks, W!FailPush
<1>. QED  BY <1>3, <1>4, <1>5, <1>6, <1>7, <1>8, <1>9, <1>10 DEF W!WatchNext

LEMMA WatchInvariance == Spec => []WatchInv
<1>1. Init => WatchInv
  <2> SUFFICES ASSUME Init PROVE WatchInv
    OBVIOUS
  <2>1. MaxStock \in Nat
    BY BackOfficeAssumption DEF W!StockWatchAssumption
  <2>2. /\ stock = [c \in W!Cell |-> MaxStock] /\ locks = [c \in W!Cell |-> None]
        /\ alerts = {} /\ sale = [s \in Seller |-> W!NoSale]
    BY DEF Init, W!WatchInit
  <2>. QED  BY <2>1, <2>2, NoSaleTyped DEF WatchInv, Watched, Free
<1>2. WatchInv /\ [Next]_vars => WatchInv'
  BY StepsAre, WatchInvStays
<1>. QED  BY <1>1, <1>2, PTL DEF Spec

\* The sale that leaves a product below the threshold is not over without an
\* alert of the last 24 hours, unless nobody was there to be told: what it has
\* read of its own balance still holds when it commits, as it has the row
\* (CheckLowStock).
THEOREM LowIsAlertedHolds == Spec => LowIsAlerted
<1>1. WatchInv /\ [Next]_vars =>
        [\A c \in W!Cell : stock'[c] < stock[c] /\ stock'[c] < Threshold
           => \/ c[2] \in alerts'
              \/ c[2] \in sale[locks[c]].unheard]_watchVars
  <2> SUFFICES ASSUME WatchInv, W!WatchNext, NEW c \in W!Cell, stock'[c] < stock[c], stock'[c] < Threshold
               PROVE  c[2] \in alerts' \/ c[2] \in sale[locks[c]].unheard
    BY StepsAre
  <2>1. Threshold \in Nat /\ MaxStock \in Nat
    BY BackOfficeAssumption DEF W!StockWatchAssumption
  <2>2. PICK s \in Seller : W!CommitSale(s)
    <3>1. stock[c] \in Int /\ stock[c] <= MaxStock /\ stock'[c] # stock[c]
      <4>1. stock[c] \in Free
        BY DEF WatchInv
      <4>. QED  BY <4>1 DEF Free
    <3>2. ASSUME NEW d \in W!Cell, W!Receive(d) PROVE FALSE
      BY <2>1, <3>1, <3>2 DEF W!Receive, WatchInv
    <3>. QED  BY <3>1, <3>2 DEF W!WatchNext, W!ReadFree, W!Deduct, W!ReadLows, W!RollbackSale, W!EnqueueAlert,
              W!NextDay, W!PushStocks, W!ReadOffer, W!SendStocks, W!FailPush
  <2>3. /\ sale[s].stage = "alerts" /\ sale[s].lows = {} /\ Watched(s) /\ sale[s] \in SaleRow
        /\ stock' = [stock EXCEPT ![sale[s].cell] = @ - sale[s].qty]
        /\ alerts' = alerts \cup sale[s].alerting
    BY <2>2 DEF W!CommitSale, W!Selling, WatchInv
  <2>4. c = sale[s].cell /\ stock'[c] = stock[c] - sale[s].qty
    <3>1. c # sale[s].cell => stock'[c] = stock[c]
      BY <2>3 DEF WatchInv
    <3>2. stock[c] \in Int
      <4>1. stock[c] \in Free
        BY DEF WatchInv
      <4>. QED  BY <4>1 DEF Free
    <3>. QED  BY <2>3, <3>1, <3>2 DEF WatchInv
  <2>5. locks[c] = s
    BY <2>3, <2>4 DEF Watched
  <2>. QED  BY <2>3, <2>4, <2>5 DEF Watched
<1>2. Spec => [][\A c \in W!Cell : stock'[c] < stock[c] /\ stock'[c] < Threshold
                   => \/ c[2] \in alerts'
                      \/ c[2] \in sale[locks[c]].unheard]_watchVars
  BY <1>1, WatchInvariance, PTL DEF Spec
<1>. QED  BY <1>2 DEF LowIsAlerted, W!LowIsAlerted, watchVars, W!watchVars, W!Cell

-----------------------------------------------------------------------------
(* What the marketplaces are told. *)

PushRow == [stage : {"idle", "read", "send"}, scope : SUBSET Warehouse, items : Seq(Nat),
            failed : SUBSET (Nat \ {0})]

\* What a push has of an offer is a stock that there has been of its product, in
\* units, or 0 if its SELECT failed.
ToldOf(k, item, failedOnes, seen) ==
  \/ k \in failedOnes /\ item = 0
  \/ \E q \in seen[Offers[k]] : item = W!Pushed(q)

\* The stock that a push under way would read of a product is one of those there
\* have been since it began, and so is, in units, what it has read of its offers.
Tells(r) ==
  LET items == push[r].items IN
  /\ push[r].stage = "idle" <=> push[r] = W!NoPush
  /\ push[r].stage = "read" => Len(items) < Len(Offers)
  /\ push[r].stage = "send" => Len(items) = Len(Offers)
  /\ push[r].stage # "idle" =>
       /\ \A p \in Product : W!Available(stock, push[r].scope, p) \in had[r][p]
       /\ \A k \in 1..Len(items) : ToldOf(k, items[k], push[r].failed, had[r])

PushInv ==
  /\ push \in [Pusher -> PushRow] /\ had \in [Pusher -> [Product -> SUBSET Int]]
  /\ \A r \in Pusher : Tells(r)

LEMMA OffersTyped ==
  /\ Len(Offers) \in Nat \ {0} /\ Offers # <<>>
  /\ \A k \in 1..Len(Offers) : Offers[k] \in Product
<1>1. Offers \in Seq(Product) /\ Offers # <<>>
  BY BackOfficeAssumption DEF W!StockWatchAssumption
<1>. QED  BY <1>1

LEMMA AvailableTyped ==
  ASSUME NEW balances \in [W!Cell -> Free], NEW scope \in SUBSET Warehouse, NEW p \in Product
  PROVE  W!Available(balances, scope, p) \in Int
<1> DEFINE f == [w \in scope |-> balances[<<w, p>>]]
<1>1. Summable(f, scope) /\ DOMAIN f = scope
  <2>1. IsFiniteSet(scope)
    <3>1. W!IsFiniteSet(Warehouse) <=> IsFiniteSet(Warehouse)
      BY Zenon DEF W!IsFiniteSet, IsFiniteSet
    <3>2. IsFiniteSet(Warehouse)
      BY <3>1, BackOfficeAssumption DEF W!StockWatchAssumption
    <3>. QED  BY <3>2, FS_Subset
  <2>2. \A w \in scope : balances[<<w, p>>] \in Int
    BY DEF W!Cell, Free
  <2>. QED  BY <2>1, <2>2 DEF Summable
<1>2. W!Available(balances, scope, p) = W!SumFunctionOnSet(f, scope)
  BY <1>1 DEF W!Available, W!SumFunction
<1>3. W!SumFunctionOnSet(f, scope) = SumFunctionOnSet(f, scope)
  BY DEF W!SumFunctionOnSet, W!FoldFunctionOnSet, W!MapThenFoldSet,
         SumFunctionOnSet, FoldFunctionOnSet, MapThenFoldSet
<1> HIDE DEF f
<1>. QED  BY <1>1, <1>2, <1>3, SumStep

LEMMA PushedTyped ==
  ASSUME NEW q \in Int
  PROVE  LET free == IF q < 0 THEN 0 ELSE q IN
         /\ W!Pushed(q) \in Nat /\ W!Pushed(q) * 2 <= free /\ free < W!Pushed(q) * 2 + 2
BY DEF W!Pushed

LEMMA NoPushTyped == W!NoPush \in PushRow /\ W!NoPush.stage = "idle"
BY DEF W!NoPush, PushRow

\* A step of the push of r alone.
LEMMA PushStepInv ==
  ASSUME PushInv, NEW r \in Pusher, NEW row \in PushRow, NEW seen \in [Product -> SUBSET Int],
         push' = [push EXCEPT ![r] = row], had' = [had EXCEPT ![r] = seen], UNCHANGED stock,
         push'[r] = row /\ had'[r] = seen => Tells(r)'
  PROVE  PushInv'
<1>1. push'[r] = row /\ had'[r] = seen
      /\ \A t \in Pusher \ {r} : push'[t] = push[t] /\ had'[t] = had[t]
  BY DEF PushInv
<1>2. push' \in [Pusher -> PushRow] /\ had' \in [Pusher -> [Product -> SUBSET Int]]
  BY DEF PushInv
<1>3. ASSUME NEW t \in Pusher, t # r PROVE Tells(t)'
  <2>1. push'[t] = push[t] /\ had'[t] = had[t] /\ Tells(t)
    BY <1>1, <1>3 DEF PushInv
  <2>. QED  BY <2>1 DEF Tells, W!Available
<1>. QED  BY <1>1, <1>2, <1>3 DEF PushInv

LEMMA PushStocksInv ==
  ASSUME PushInv, WatchInv, NEW r \in Pusher, NEW scope \in SUBSET Warehouse, W!PushStocks(r, scope)
  PROVE  PushInv'
<1> DEFINE row == [stage |-> "read", scope |-> scope, items |-> <<>>, failed |-> {}]
           seen == [p \in Product |-> {W!Available(stock, scope, p)}]
<1>1. row \in PushRow /\ row.stage = "read" /\ row.scope = scope /\ Len(row.items) = 0 /\ row # W!NoPush
  BY NoPushTyped DEF PushRow
<1>2. seen \in [Product -> SUBSET Int] /\ \A p \in Product : W!Available(stock, scope, p) \in seen[p]
  BY AvailableTyped DEF WatchInv
<1>3. push' = [push EXCEPT ![r] = row] /\ had' = [had EXCEPT ![r] = seen] /\ UNCHANGED stock
  BY DEF W!PushStocks
<1> HIDE DEF row, seen
<1>4. push'[r] = row /\ had'[r] = seen => Tells(r)'
  BY <1>1, <1>2, <1>3, OffersTyped DEF Tells, W!Available
<1>. QED  BY <1>1, <1>2, <1>3, <1>4, PushStepInv

LEMMA ReadOfferInv ==
  ASSUME PushInv, WatchInv, NEW r \in Pusher, NEW read \in BOOLEAN, W!ReadOffer(r, read)
  PROVE  PushInv'
<1> DEFINE n == Len(push[r].items) + 1
<1>1. push[r] \in PushRow /\ push[r].stage = "read" /\ Tells(r) /\ had[r] \in [Product -> SUBSET Int]
  BY DEF PushInv, W!ReadOffer
<1>2. /\ n \in 1..Len(Offers) /\ Offers[n] \in Product /\ push[r].items \in Seq(Nat)
      /\ push[r].scope \in SUBSET Warehouse /\ push[r].failed \in SUBSET (Nat \ {0})
  BY <1>1, OffersTyped DEF Tells, PushRow
<1> PICK q \in Int : q = W!Available(stock, push[r].scope, Offers[n])
  BY <1>2, AvailableTyped DEF WatchInv
<1> PICK item \in Nat : item = W!Pushed(IF read THEN q ELSE 0)
  <2>1. (IF read THEN q ELSE 0) \in Int
    OBVIOUS
  <2>. QED  BY <2>1, PushedTyped
<1> PICK failedOnes \in SUBSET (Nat \ {0}) :
      failedOnes = IF read THEN push[r].failed ELSE push[r].failed \cup {n}
  <2>1. n \in Nat \ {0}
    BY <1>2, OffersTyped
  <2>. QED  BY <1>2, <2>1, Zenon
<1>3. ToldOf(n, item, failedOnes, had[r])
  <2>1. CASE read
    BY <1>1, <1>2, <2>1 DEF Tells, ToldOf
  <2>2. CASE ~read
    <3>1. W!Pushed(0) = 0
      BY DEF W!Pushed
    <3>. QED  BY <2>2, <3>1 DEF ToldOf
  <2>. QED  BY <2>1, <2>2
<1> PICK items \in Seq(Nat) : items = Append(push[r].items, item)
  <2>1. \A old \in Seq(Nat), x \in Nat : Append(old, x) \in Seq(Nat)
    OBVIOUS
  <2>. QED  BY <1>2, <2>1
<1>4. Len(items) = n /\ items[n] = item /\ \A k \in 1..n-1 : items[k] = push[r].items[k]
  <2>1. ASSUME NEW old \in Seq(Nat), NEW x \in Nat, NEW new, new = Append(old, x)
        PROVE  /\ Len(new) = Len(old) + 1 /\ new[Len(old) + 1] = x
               /\ \A k \in 1..Len(old) : new[k] = old[k]
    BY <2>1
  <2>. QED  BY <1>2, <2>1
<1> DEFINE row == [push[r] EXCEPT !.items = items, !.failed = failedOnes,
                                  !.stage = IF n = Len(Offers) THEN "send" ELSE "read"]
<1>5. /\ row \in PushRow /\ row.items = items /\ row.scope = push[r].scope /\ row.failed = failedOnes
      /\ row.stage \in {"read", "send"} /\ (row.stage = "send" <=> n = Len(Offers))
  BY <1>1 DEF PushRow
<1>6. push' = [push EXCEPT ![r] = row] /\ UNCHANGED <<stock, had>>
  BY <1>1 DEF W!ReadOffer, PushInv
<1> HIDE DEF row
<1>7. ASSUME push'[r] = row, had'[r] = had[r] PROVE Tells(r)'
  <2>1. row # W!NoPush
    BY <1>5, NoPushTyped
  <2>2. \A k \in 1..n : ToldOf(k, items[k], failedOnes, had[r])
    <3>1. \A k \in 1..n-1 : ToldOf(k, items[k], failedOnes, had[r])
      BY <1>1, <1>2, <1>4 DEF Tells, ToldOf
    <3>2. ToldOf(n, items[n], failedOnes, had[r])
      BY <1>3, <1>4
    <3>3. \A k \in 1..n : k = n \/ k \in 1..n-1
      BY <1>2, OffersTyped
    <3> HIDE DEF n
    <3>. QED  BY <3>1, <3>2, <3>3, Zenon
  <2>3. \A p \in Product : W!Available(stock, push[r].scope, p) \in had[r][p]
    BY <1>1 DEF Tells
  <2> HIDE DEF n
  <2>4. push'[r].scope = push[r].scope /\ stock' = stock
    BY <1>5, <1>6, <1>7
  <2>5. \A p \in Product : W!Available(stock', push'[r].scope, p) \in had'[r][p]
    BY <1>7, <2>3, <2>4, Zenon
  <2>6. /\ push'[r].items = items /\ push'[r].failed = failedOnes /\ push'[r] # W!NoPush
        /\ push'[r].stage \in {"read", "send"} /\ (push'[r].stage = "send" <=> n = Len(Offers))
        /\ Len(items) = n /\ n \in 1..Len(Offers)
    BY <1>2, <1>4, <1>5, <1>7, <2>1
  <2>7. \A k \in 1..n : ToldOf(k, items[k], failedOnes, had'[r])
    BY <1>7, <2>2
  <2>8. Len(items) = n /\ Len(Offers) \in Nat /\ n \in 1..Len(Offers)
    BY <2>6, OffersTyped
  <2>9. (push'[r].stage = "read" => n < Len(Offers)) /\ (push'[r].stage = "send" => n = Len(Offers))
    BY <2>6, <2>8
  <2>. QED  BY <2>5, <2>6, <2>7, <2>8, <2>9 DEF Tells
<1>8. had' = [had EXCEPT ![r] = had[r]]
  BY <1>6 DEF PushInv
<1>. QED  BY <1>1, <1>5, <1>6, <1>7, <1>8, PushStepInv

LEMMA EndPushInv ==
  ASSUME PushInv, NEW r \in Pusher, W!EndPush(r), UNCHANGED stock
  PROVE  PushInv'
<1> DEFINE seen == [p \in Product |-> {}]
<1>1. seen \in [Product -> SUBSET Int]
  OBVIOUS
<1>2. push' = [push EXCEPT ![r] = W!NoPush] /\ had' = [had EXCEPT ![r] = seen]
  BY DEF W!EndPush
<1> HIDE DEF seen
<1>3. push'[r] = W!NoPush /\ had'[r] = seen => Tells(r)'
  BY NoPushTyped DEF Tells
<1>. QED  BY <1>1, <1>2, <1>3, NoPushTyped, PushStepInv

\* The balances change: what pushes under way might have read includes the new ones.
LEMMA NotedInv ==
  ASSUME PushInv, WatchInv', had' = W!Noted(stock'), UNCHANGED push
  PROVE  PushInv'
<1>1. ASSUME NEW r \in Pusher
      PROVE  /\ had'[r] \in [Product -> SUBSET Int]
             /\ push[r].stage # "idle" => \A p \in Product :
                  had'[r][p] = had[r][p] \cup {W!Available(stock', push[r].scope, p)}
  <2>1. push[r] \in PushRow /\ Tells(r) /\ had[r] \in [Product -> SUBSET Int]
    BY DEF PushInv
  <2>2. had'[r] = [p \in Product |-> IF push[r] = W!NoPush THEN {}
                                     ELSE had[r][p] \cup {W!Available(stock', push[r].scope, p)}]
    BY DEF W!Noted
  <2>3. \A p \in Product : W!Available(stock', push[r].scope, p) \in Int
    BY <2>1, AvailableTyped DEF WatchInv, PushRow
  <2>. QED  BY <2>1, <2>2, <2>3 DEF Tells
<1>2. ASSUME NEW r \in Pusher PROVE Tells(r)'
  <2>1. push'[r] = push[r] /\ Tells(r) /\ push[r] \in PushRow
    BY DEF PushInv
  <2>2. \A k \in 1..Len(push[r].items) : push[r].stage # "idle" => Offers[k] \in Product
    BY <2>1, OffersTyped DEF Tells, PushRow
  <2>3. push[r].stage # "idle" => \A k \in 1..Len(push[r].items) :
          ToldOf(k, push[r].items[k], push[r].failed, had'[r])
    BY <1>1, <2>1, <2>2 DEF Tells, ToldOf
  <2>4. push[r].stage # "idle" => \A p \in Product : W!Available(stock', push[r].scope, p) \in had'[r][p]
    BY <1>1
  <2>. QED  BY <2>1, <2>3, <2>4 DEF Tells, W!Available
<1>3. had' \in [Pusher -> [Product -> SUBSET Int]]
  <2>1. had' = [r \in Pusher |-> had'[r]]
    BY DEF W!Noted
  <2>. QED  BY <1>1, <2>1
<1>. QED  BY <1>2, <1>3 DEF PushInv

LEMMA PushInvStays ==
  ASSUME PushInv, WatchInv, WatchInv', W!WatchNext \/ UNCHANGED watchVars
  PROVE  PushInv'
<1>1. CASE UNCHANGED <<stock, push, had>>
  BY <1>1 DEF PushInv, Tells, W!Available
<1>2. ASSUME NEW s \in Seller, W!CommitSale(s) PROVE PushInv'
  BY <1>2, NotedInv DEF W!CommitSale
<1>3. ASSUME NEW c \in W!Cell, W!Receive(c) PROVE PushInv'
  BY <1>3, NotedInv DEF W!Receive
<1>4. ASSUME NEW r \in Pusher, W!SendStocks(r) \/ W!FailPush(r) PROVE PushInv'
  BY <1>4, EndPushInv DEF W!SendStocks, W!FailPush
<1>5. ASSUME NEW r \in Pusher, NEW w \in Warehouse, W!PushStocks(r, {w}) PROVE PushInv'
  BY <1>5, PushStocksInv
<1>6. ASSUME NEW r \in Pusher, W!PushStocks(r, Warehouse) PROVE PushInv'
  BY <1>6, PushStocksInv
<1>7. CASE \/ UNCHANGED watchVars \/ W!NextDay
           \/ \E s \in Seller : \/ \E c \in W!Cell, q \in Quantity : W!ReadFree(s, c, q)
                                \/ W!Deduct(s) \/ W!ReadLows(s) \/ W!RollbackSale(s)
                                \/ \E p \in Product, told \in BOOLEAN : W!EnqueueAlert(s, p, told)
  BY <1>1, <1>7 DEF watchVars, W!NextDay, W!ReadFree, W!Deduct, W!ReadLows, W!RollbackSale, W!EnqueueAlert
<1>. QED  BY <1>2, <1>3, <1>4, <1>5, <1>6, <1>7, ReadOfferInv DEF W!WatchNext

\* The marketplace is told, of every offer, whole units that were free while the
\* push ran, whatever sales committed between its statements, and 0 if the SELECT
\* of the offer failed (PushStocks).
THEOREM ShownWasFreeHolds == Spec => ShownWasFree
<1> DEFINE NotNegative(q) == IF q < 0 THEN 0 ELSE q
           Told == \A r \in Pusher : push[r].stage = "send" /\ push'[r] = W!NoPush /\ shown' # shown =>
                     \A k \in DOMAIN Offers :
                       \/ k \in push[r].failed /\ shown'[k] = 0
                       \/ \E q \in had[r][Offers[k]] :
                            shown'[k] * 2 <= NotNegative(q) /\ NotNegative(q) < shown'[k] * 2 + 2
<1>1. Init => PushInv
  <2> SUFFICES ASSUME Init PROVE PushInv
    OBVIOUS
  <2>1. push = [r \in Pusher |-> W!NoPush] /\ had = [r \in Pusher |-> [p \in Product |-> {}]]
    BY DEF Init, W!WatchInit
  <2>2. push \in [Pusher -> PushRow] /\ had \in [Pusher -> [Product -> SUBSET Int]]
    BY <2>1, NoPushTyped
  <2>. QED  BY <2>1, <2>2, NoPushTyped DEF PushInv, Tells
<1>2. PushInv /\ WatchInv /\ WatchInv' /\ [Next]_vars => PushInv'
  BY StepsAre, PushInvStays
<1>3. PushInv /\ [Next]_vars => [Told]_watchVars
  <2> SUFFICES ASSUME PushInv, W!WatchNext, NEW r \in Pusher, push[r].stage = "send", push'[r] = W!NoPush,
                      shown' # shown, NEW k \in DOMAIN Offers
               PROVE  \/ k \in push[r].failed /\ shown'[k] = 0
                      \/ \E q \in had[r][Offers[k]] :
                           shown'[k] * 2 <= NotNegative(q) /\ NotNegative(q) < shown'[k] * 2 + 2
    BY StepsAre
  <2>1. W!SendStocks(r)
    <3>1. PICK t \in Pusher : W!SendStocks(t)
      BY DEF W!WatchNext, W!ReadFree, W!Deduct, W!ReadLows, W!RollbackSale, W!EnqueueAlert, W!CommitSale,
             W!Receive, W!NextDay, W!PushStocks, W!ReadOffer, W!FailPush
    <3>2. t # r => push'[r] = push[r]
      BY <3>1 DEF W!SendStocks, W!EndPush, PushInv
    <3>. QED  BY <3>1, <3>2, NoPushTyped
  <2>2. k \in 1..Len(Offers) /\ Offers[k] \in Product
    BY OffersTyped, BackOfficeAssumption DEF W!StockWatchAssumption
  <2>3. shown'[k] = push[r].items[k] /\ ToldOf(k, push[r].items[k], push[r].failed, had[r])
    BY <2>1, <2>2 DEF W!SendStocks, PushInv, Tells
  <2>4. had[r][Offers[k]] \subseteq Int
    BY <2>2 DEF PushInv
  <2>. QED  BY <2>3, <2>4, PushedTyped DEF ToldOf
<1> HIDE DEF Told
<1>4. Spec => [][Told]_watchVars
  BY <1>1, <1>2, <1>3, WatchInvariance, PTL DEF Spec
<1>. QED  BY <1>4 DEF Told, ShownWasFree, W!ShownWasFree, watchVars, W!watchVars

-----------------------------------------------------------------------------
(* The books of sales and purchases. *)

Entry == [id : T!RowId, total : Int, vat : Int]
ClosingRow == [stage : {"idle", "purchases", "start", "delete", "store"}, period : Period \cup {None},
               type : DeclType \cup {None}, sales : Seq(Entry), purchases : Seq(Entry),
               book : T!Book, current : BOOLEAN]

Signed(b, r, sum) == IF b = "sales" /\ r.type = "RETURN" THEN -sum ELSE sum

\* A live book of kind b: rows of the period with their signs, in the order of
\* their ids, and with each those of its past.
LiveOf(b, rows, past, book, p) ==
  /\ book \in Seq(Entry)
  /\ \A k \in 1..Len(book) :
       LET e == book[k] r == rows[e.id] IN
       /\ r # None /\ T!InPeriod(r.month, p)
       /\ e.total = Signed(b, r, r.total) /\ e.vat = Signed(b, r, r.vat)
       /\ \A j \in 1..k-1 : book[j].id < e.id
       /\ \A i \in past[e.id] : T!InPeriod(rows[i].month, p) => \E j \in 1..Len(book) : book[j].id = i

Live(b, book, p) == LiveOf(b, T!Rows(b), before[b], book, p)

RowsTyped ==
  /\ receipts \in [T!RowId -> ReceiptKind \cup {None}]
  /\ documents \in [T!RowId -> PurchaseKind \cup {None}]
  /\ before \in [T!Book -> [T!RowId -> SUBSET T!RowId]]
  /\ \A b \in T!Book, i \in T!RowId : \A j \in before[b][i] : T!Rows(b)[j] # None

Stored(p) == Live("sales", books[p].sales, p) /\ Live("purchases", books[p].purchases, p)

\* What a closing has read is what may be stored of its period.
ReadBy(s) ==
  closing[s].stage # "idle" =>
    /\ closing[s].period \in Period
    /\ Live("sales", closing[s].sales, closing[s].period)
    /\ Live("purchases", closing[s].purchases, closing[s].period)

TaxInv ==
  /\ RowsTyped
  /\ books \in [Period -> [sales : Seq(Entry), purchases : Seq(Entry)]]
  /\ closing \in [Closer -> ClosingRow]
  /\ \A p \in Period : Stored(p)
  /\ \A s \in Closer : ReadBy(s)

LEMMA TaxConstants ==
  /\ MaxRows \in Nat /\ Period \subseteq Nat \X (1..4)
  /\ \A r \in ReceiptKind : r.month \in Nat /\ r.total \in Nat /\ r.vat \in Nat
  /\ \A d \in PurchaseKind : d.month \in Nat /\ d.total \in Nat /\ d.vat \in Nat
BY BackOfficeAssumption DEF T!TaxBooksAssumption

\* The numbers of a set, in order.
InOrder(ids, Rows) ==
  ids = [k \in 1..Cardinality(Rows) |-> CHOOSE i \in Rows : Cardinality({j \in Rows : j < i}) = k - 1]

\* A rank is a number below the size of the set, and tells the element.
LEMMA RankBelow ==
  ASSUME NEW Rows, IsFiniteSet(Rows), NEW Less, OrdersStrictly(Less, Rows), NEW i \in Rows
  PROVE  Cardinality(Ahead(Less, Rows, i)) \in 0..Cardinality(Rows)-1
<1>1. Ahead(Less, Rows, i) \subseteq Rows \ {i}
  BY DEF Ahead, OrdersStrictly
<1>2. IsFiniteSet(Rows \ {i}) /\ Cardinality(Rows \ {i}) = Cardinality(Rows) - 1
  BY FS_RemoveElement
<1>3. IsFiniteSet(Ahead(Less, Rows, i))
      /\ Cardinality(Ahead(Less, Rows, i)) <= Cardinality(Rows \ {i})
  BY <1>1, <1>2, FS_Subset
<1>. QED  BY <1>2, <1>3, FS_CardinalityType

LEMMA RankTells ==
  ASSUME NEW Rows, IsFiniteSet(Rows), NEW Less, OrdersStrictly(Less, Rows), NEW i \in Rows, NEW j \in Rows,
         Cardinality(Ahead(Less, Rows, i)) = Cardinality(Ahead(Less, Rows, j))
  PROVE  i = j
BY RanksAreDense

LEMMA InOrderGrows ==
  ASSUME NEW Rows, Rows \subseteq Nat, IsFiniteSet(Rows), NEW ids, InOrder(ids, Rows)
  PROVE  \E n \in Nat : /\ ids \in [1..n -> Rows] /\ \A j, k \in 1..n : j < k => ids[j] < ids[k]
                       /\ \A i \in Rows : \E k \in 1..n : ids[k] = i
<1>1. \A i \in Rows : i \in Nat
  OBVIOUS
<1>2. PICK Less : OrdersStrictly(Less, Rows) /\ \A i, j \in Rows : <<i, j>> \in Less <=> i < j
  <2> DEFINE R == {x \in Int \X Int : x[1] < x[2]}
  <2>1. \A i, j \in Rows : <<i, j>> \in R <=> i < j
    BY <1>1
  <2> HIDE DEF R
  <2>2. OrdersStrictly(R, Rows)
    BY <1>1, <2>1 DEF OrdersStrictly
  <2>. QED  BY <2>1, <2>2
<1> DEFINE n == Cardinality(Rows)
           Before(i) == {j \in Rows : j < i}
           Rank(i) == Cardinality(Ahead(Less, Rows, i))
<1>3. n \in Nat
  BY FS_CardinalityType
<1>4. \A i \in Rows : Ahead(Less, Rows, i) = Before(i)
  BY <1>2 DEF Ahead
<1>5. ids = [k \in 1..n |-> CHOOSE i \in Rows : Cardinality(Before(i)) = k - 1]
  BY DEF InOrder
<1>6. ASSUME NEW k \in 0..Cardinality(Rows)-1 PROVE \E i \in Rows : Cardinality(Ahead(Less, Rows, i)) = k
  BY <1>2, RankTaken
<1> HIDE DEF n, Before, Rank
<1>7. \A i \in Rows : Cardinality(Before(i)) = Rank(i)
  BY <1>4 DEF Rank
<1>8. \A k \in 1..n : ids[k] \in Rows /\ Rank(ids[k]) = k - 1
  <2> SUFFICES ASSUME NEW k \in 1..n PROVE ids[k] \in Rows /\ Rank(ids[k]) = k - 1
    OBVIOUS
  <2>1. k - 1 \in 0..n-1
    BY <1>3
  <2>2. \E i \in Rows : Cardinality(Before(i)) = k - 1
    BY <1>6, <1>7, <2>1 DEF n, Rank
  <2>3. ids[k] = CHOOSE i \in Rows : Cardinality(Before(i)) = k - 1
    BY <1>5
  <2>4. ids[k] \in Rows /\ Cardinality(Before(ids[k])) = k - 1
    BY <2>2, <2>3
  <2>. QED  BY <1>7, <2>4
<1>9. ids \in [1..n -> Rows]
  BY <1>5, <1>8
<1>10. ASSUME NEW j \in 1..n, NEW k \in 1..n, j < k PROVE ids[j] < ids[k]
  <2>1. ids[j] \in Rows /\ ids[k] \in Rows /\ ids[j] \in Nat /\ ids[k] \in Nat
    BY <1>1, <1>8
  <2>2. Rank(ids[j]) = j - 1 /\ Rank(ids[k]) = k - 1 /\ j \in Int /\ k \in Int
    BY <1>3, <1>8
  <2>3. ids[j] # ids[k]
    BY <1>10, <2>2
  <2>4. ASSUME ids[k] < ids[j] PROVE FALSE
    <3>1. <<ids[k], ids[j]>> \in Less
      BY <1>2, <2>1, <2>4
    <3>2. Rank(ids[k]) < Rank(ids[j])
      BY <1>2, <2>1, <3>1, RankGrows DEF Rank
    <3>. QED  BY <1>10, <2>2, <3>2
  <2>. QED  BY <2>1, <2>3, <2>4
<1>11. ASSUME NEW i \in Rows PROVE \E k \in 1..n : ids[k] = i
  <2>1. Rank(i) \in 0..n-1
    BY <1>2, RankBelow DEF Rank, n
  <2>2. Rank(i) + 1 \in 1..n /\ Rank(ids[Rank(i) + 1]) = Rank(i) /\ ids[Rank(i) + 1] \in Rows
    BY <1>3, <1>8, <2>1
  <2>3. ids[Rank(i) + 1] = i
    BY <1>2, <2>2, RankTells DEF Rank
  <2>. QED  BY <2>2, <2>3
<1>. QED  BY <1>3, <1>9, <1>10, <1>11

\* The ids of the rows of a period go up, and are all there.
LEMMA IdsGrow ==
  ASSUME NEW rows, NEW p
  PROVE  \E n \in Nat : /\ T!Ids(rows, p) \in [1..n -> T!RowsOf(rows, p)]
                        /\ \A j, k \in 1..n : j < k => T!Ids(rows, p)[j] < T!Ids(rows, p)[k]
                        /\ \A i \in T!RowsOf(rows, p) : \E k \in 1..n : T!Ids(rows, p)[k] = i
<1>1. T!RowsOf(rows, p) \in SUBSET Nat /\ IsFiniteSet(T!RowsOf(rows, p))
  <2>1. T!RowsOf(rows, p) \subseteq 1..MaxRows /\ 1..MaxRows \subseteq Nat
    BY TaxConstants DEF T!RowsOf, T!RowId
  <2>2. IsFiniteSet(1..MaxRows)
    BY TaxConstants, FS_Interval
  <2>. QED  BY <2>1, <2>2, FS_Subset
<1>2. InOrder(T!Ids(rows, p), T!RowsOf(rows, p))
  BY Zenon DEF InOrder, T!Ids, T!Cardinality, Cardinality
<1>. QED  BY <1>1, <1>2, InOrderGrows

\* A row that is there has a month and sums.
LEMMA RowsAre ==
  ASSUME RowsTyped, NEW b \in T!Book, NEW i \in T!RowId, T!Rows(b)[i] # None
  PROVE  LET r == T!Rows(b)[i] IN r.month \in Nat /\ r.total \in Nat /\ r.vat \in Nat
<1>1. CASE b = "sales"
  <2>1. T!Rows(b)[i] \in ReceiptKind
    BY <1>1 DEF RowsTyped, T!Rows
  <2>. QED  BY <2>1, TaxConstants
<1>2. CASE b = "purchases"
  <2>1. T!Rows(b)[i] \in PurchaseKind
    BY <1>2 DEF RowsTyped, T!Rows
  <2>. QED  BY <2>1, TaxConstants
<1>. QED  BY <1>1, <1>2 DEF T!Book

LEMMA SignedIs ==
  ASSUME NEW b, NEW r, NEW sum \in Nat
  PROVE  T!Sign(b, r) * sum = Signed(b, r, sum) /\ Signed(b, r, sum) \in Int
<1>1. CASE b = "sales" /\ r.type = "RETURN"
  BY <1>1 DEF T!Sign, Signed
<1>2. CASE ~(b = "sales" /\ r.type = "RETURN")
  BY <1>2 DEF T!Sign, Signed
<1>. QED  BY <1>1, <1>2

LEMMA LiveBookIs ==
  ASSUME RowsTyped, NEW b \in T!Book, NEW p
  PROVE  Live(b, T!LiveBook(b, p), p)
<1> PICK rows : rows = T!Rows(b)
  OBVIOUS
<1> PICK past \in [T!RowId -> SUBSET T!RowId] : past = before[b]
  BY DEF RowsTyped
<1> PICK n \in Nat : /\ T!Ids(rows, p) \in [1..n -> T!RowsOf(rows, p)]
                     /\ \A j, k \in 1..n : j < k => T!Ids(rows, p)[j] < T!Ids(rows, p)[k]
                     /\ \A i \in T!RowsOf(rows, p) : \E k \in 1..n : T!Ids(rows, p)[k] = i
  BY IdsGrow
<1> PICK ids \in [1..n -> T!RowsOf(rows, p)] : ids = T!Ids(rows, p)
  OBVIOUS
<1> PICK book : book = T!LiveBook(b, p)
  OBVIOUS
<1>1. book = [k \in 1..n |-> [id |-> ids[k], total |-> T!Sign(b, rows[ids[k]]) * rows[ids[k]].total,
                              vat |-> T!Sign(b, rows[ids[k]]) * rows[ids[k]].vat]]
  BY DEF T!LiveBook
<1>2. ASSUME NEW k \in 1..n
      PROVE  LET r == rows[ids[k]] IN
             /\ book[k] \in Entry /\ book[k].id = ids[k] /\ ids[k] \in T!RowId
             /\ r # None /\ T!InPeriod(r.month, p)
             /\ book[k].total = Signed(b, r, r.total) /\ book[k].vat = Signed(b, r, r.vat)
  <2>1. ids[k] \in T!RowId /\ rows[ids[k]] # None /\ T!InPeriod(rows[ids[k]].month, p)
    BY DEF T!RowsOf
  <2> PICK r : r = rows[ids[k]]
    OBVIOUS
  <2>2. r.total \in Nat /\ r.vat \in Nat
    BY <2>1, RowsAre
  <2>3. book[k] = [id |-> ids[k], total |-> T!Sign(b, r) * r.total, vat |-> T!Sign(b, r) * r.vat]
    BY <1>1
  <2>4. book[k] = [id |-> ids[k], total |-> Signed(b, r, r.total), vat |-> Signed(b, r, r.vat)]
        /\ Signed(b, r, r.total) \in Int /\ Signed(b, r, r.vat) \in Int
    BY <2>2, <2>3, SignedIs
  <2>. QED  BY <2>1, <2>4 DEF Entry
<1>3. book \in Seq(Entry) /\ Len(book) = n
  BY <1>1, <1>2
<1>4. ASSUME NEW k \in 1..n, NEW i \in past[ids[k]], T!InPeriod(rows[i].month, p)
      PROVE  \E j \in 1..n : book[j].id = i
  <2>1. i \in T!RowsOf(rows, p)
    BY <1>2, <1>4 DEF RowsTyped, T!RowsOf
  <2>. QED  BY <1>2, <2>1
<1>5. LiveOf(b, rows, past, book, p)
  BY <1>2, <1>3, <1>4 DEF LiveOf
<1>. QED  BY <1>5 DEF Live

LEMMA NoEntries ==
  ASSUME NEW b, NEW p
  PROVE  Live(b, <<>>, p)
<1>1. <<>> \in Seq(Entry) /\ Len(<<>>) = 0
  BY EmptySeq
<1>. QED  BY <1>1 DEF Live, LiveOf

\* Rows are added and never change, nor does what was there before them.
Added(rows, past, new, newPast) ==
  \A i \in T!RowId : rows[i] # None => new[i] = rows[i] /\ newPast[i] = past[i]

LEMMA EntryIds ==
  ASSUME NEW book \in Seq(Entry), NEW k \in 1..Len(book)
  PROVE  book[k].id \in T!RowId
<1>1. book[k] \in Entry
  OBVIOUS
<1>. QED  BY <1>1 DEF Entry

LEMMA LiveStays ==
  ASSUME NEW rows, NEW past, NEW new, NEW newPast, Added(rows, past, new, newPast),
         \A i \in T!RowId : \A j \in past[i] : j \in T!RowId /\ rows[j] # None,
         NEW b, NEW book, NEW p, LiveOf(b, rows, past, book, p)
  PROVE  LiveOf(b, new, newPast, book, p)
<1>1. book \in Seq(Entry)
  BY DEF LiveOf
<1>2. ASSUME NEW k \in 1..Len(book)
      PROVE  LET e == book[k] r == new[e.id] IN
             /\ r # None /\ T!InPeriod(r.month, p)
             /\ e.total = Signed(b, r, r.total) /\ e.vat = Signed(b, r, r.vat)
             /\ \A j \in 1..k-1 : book[j].id < e.id
             /\ \A i \in newPast[e.id] : T!InPeriod(new[i].month, p) => \E j \in 1..Len(book) : book[j].id = i
  <2> PICK e : e = book[k]
    OBVIOUS
  <2>1. e.id \in T!RowId
    BY <1>1, EntryIds
  <2>2. /\ rows[e.id] # None /\ T!InPeriod(rows[e.id].month, p)
        /\ e.total = Signed(b, rows[e.id], rows[e.id].total) /\ e.vat = Signed(b, rows[e.id], rows[e.id].vat)
        /\ \A j \in 1..k-1 : book[j].id < e.id
        /\ \A i \in past[e.id] : T!InPeriod(rows[i].month, p) => \E j \in 1..Len(book) : book[j].id = i
    BY DEF LiveOf
  <2>3. new[e.id] = rows[e.id] /\ newPast[e.id] = past[e.id]
    BY <2>1, <2>2 DEF Added
  <2>4. \A i \in past[e.id] : new[i] = rows[i]
    BY <2>1 DEF Added
  <2>. QED  BY <2>2, <2>3, <2>4
<1>. QED  BY <1>1, <1>2 DEF LiveOf

RowsAdded == \A b \in T!Book : Added(T!Rows(b), before[b], T!Rows(b)', before'[b])

\* Desks and the warehouse go on.
LEMMA RowsAddedInv ==
  ASSUME TaxInv, RowsTyped', RowsAdded, UNCHANGED <<books, closing>>
  PROVE  TaxInv'
<1>1. ASSUME NEW b \in T!Book, NEW book, NEW p, LiveOf(b, T!Rows(b), before[b], book, p)
      PROVE  LiveOf(b, T!Rows(b)', before'[b], book, p)
  <2>1. \A i \in T!RowId : \A j \in before[b][i] : j \in T!RowId /\ T!Rows(b)[j] # None
    BY DEF TaxInv, RowsTyped
  <2>2. Added(T!Rows(b), before[b], T!Rows(b)', before'[b])
    BY DEF RowsAdded
  <2>. QED  BY <1>1, <2>1, <2>2, LiveStays
<1>2. "sales" \in T!Book /\ "purchases" \in T!Book
  BY DEF T!Book
<1>3. \A p \in Period : Stored(p)'
  BY <1>1, <1>2 DEF TaxInv, Stored, Live
<1>4. \A s \in Closer : ReadBy(s)'
  BY <1>1, <1>2 DEF TaxInv, ReadBy, Live
<1>. QED  BY <1>3, <1>4 DEF TaxInv

\* One row of a book of rows is added.
LEMMA OneAdded ==
  ASSUME TaxInv, NEW b \in T!Book, NEW i \in T!RowId, T!Rows(b)[i] = None,
         NEW row, T!Rows(b)' = [T!Rows(b) EXCEPT ![i] = row],
         \A c \in T!Book \ {b} : T!Rows(c)' = T!Rows(c),
         before' = [before EXCEPT ![b][i] = T!Committed(b)]
  PROVE  /\ before' \in [T!Book -> [T!RowId -> SUBSET T!RowId]] /\ RowsAdded
         /\ \A c \in T!Book, k \in T!RowId : \A j \in before'[c][k] : T!Rows(c)'[j] # None
<1>1. before \in [T!Book -> [T!RowId -> SUBSET T!RowId]]
  BY DEF TaxInv, RowsTyped
<1>2. DOMAIN T!Rows(b) = T!RowId
  BY DEF TaxInv, RowsTyped, T!Rows
<1>3. T!Committed(b) \subseteq T!RowId /\ \A j \in T!Committed(b) : T!Rows(b)[j] # None
  BY DEF T!Committed
<1>4. before' \in [T!Book -> [T!RowId -> SUBSET T!RowId]]
  BY <1>1, <1>3
<1>5. /\ T!Rows(b)'[i] = row /\ \A k \in T!RowId \ {i} : T!Rows(b)'[k] = T!Rows(b)[k]
      /\ before'[b][i] = T!Committed(b) /\ \A k \in T!RowId \ {i} : before'[b][k] = before[b][k]
      /\ \A c \in T!Book \ {b} : before'[c] = before[c]
  BY <1>1, <1>2
<1>6. ASSUME NEW c \in T!Book PROVE Added(T!Rows(c), before[c], T!Rows(c)', before'[c])
  <2>1. CASE c = b
    BY <1>5, <2>1 DEF Added
  <2>2. CASE c # b
    BY <1>5, <2>2 DEF Added
  <2>. QED  BY <2>1, <2>2
<1>7. ASSUME NEW c \in T!Book, NEW k \in T!RowId, NEW j \in before'[c][k] PROVE T!Rows(c)'[j] # None
  <2>1. j \in T!RowId
    BY <1>4
  <2>2. T!Rows(c)[j] # None
    <3>1. CASE c = b /\ k = i
      BY <1>3, <1>5, <3>1
    <3>2. CASE ~(c = b /\ k = i)
      <4>1. before'[c][k] = before[c][k]
        BY <1>5, <3>2
      <4>. QED  BY <4>1 DEF TaxInv, RowsTyped
    <3>. QED  BY <3>1, <3>2
  <2>. QED  BY <1>6, <2>1, <2>2 DEF Added
<1>. QED  BY <1>4, <1>6, <1>7 DEF RowsAdded

\* A step of the closing of s that stores nothing.
LEMMA ClosingInv ==
  ASSUME TaxInv, NEW s \in Closer, NEW row \in ClosingRow, closing' = [closing EXCEPT ![s] = row],
         UNCHANGED <<receipts, documents, before, books>>, closing'[s] = row => ReadBy(s)'
  PROVE  TaxInv'
<1>1. closing'[s] = row /\ \A t \in Closer \ {s} : closing'[t] = closing[t]
  BY DEF TaxInv
<1>2. closing' \in [Closer -> ClosingRow]
  BY DEF TaxInv
<1>3. \A t \in Closer \ {s} : ReadBy(t)'
  BY <1>1 DEF TaxInv, ReadBy, Live, T!Rows
<1>4. \A p \in Period : Stored(p)'
  BY DEF TaxInv, Stored, Live, T!Rows
<1>. QED  BY <1>1, <1>2, <1>3, <1>4 DEF TaxInv, RowsTyped, T!Rows

LEMMA NoClosingTyped == T!NoClosing \in ClosingRow /\ T!NoClosing.stage = "idle"
BY EmptySeq DEF T!NoClosing, ClosingRow, T!Book

LEMMA ReadSalesInv ==
  ASSUME TaxInv, NEW s \in Closer, NEW p \in Period, NEW t \in DeclType, T!ReadSales(s, p, t)
  PROVE  TaxInv'
<1> PICK book \in Seq(Entry) : book = T!LiveSalesBook(p) /\ Live("sales", book, p)
  <2>1. Live("sales", T!LiveSalesBook(p), p)
    BY LiveBookIs DEF TaxInv, T!LiveSalesBook, T!Book
  <2>2. T!LiveSalesBook(p) \in Seq(Entry)
    BY <2>1 DEF Live, LiveOf
  <2>. QED  BY <2>1, <2>2
<1> DEFINE row == [T!NoClosing EXCEPT !.stage = "purchases", !.period = p, !.type = t, !.sales = book]
<1>1. row \in ClosingRow /\ row.period = p /\ row.sales = book /\ row.purchases = <<>>
  BY EmptySeq DEF ClosingRow, T!NoClosing, T!Book
<1>2. closing' = [closing EXCEPT ![s] = row] /\ UNCHANGED <<receipts, documents, before, books>>
  BY DEF T!ReadSales, T!rowVars
<1> HIDE DEF row
<1>3. closing'[s] = row => ReadBy(s)'
  BY <1>1, <1>2, NoEntries DEF ReadBy, Live, T!Rows
<1>. QED  BY <1>1, <1>2, <1>3, ClosingInv

LEMMA ReadPurchasesInv ==
  ASSUME TaxInv, NEW s \in Closer, T!ReadPurchases(s)
  PROVE  TaxInv'
<1>1. closing[s] \in ClosingRow /\ closing[s].stage = "purchases" /\ ReadBy(s)
  BY DEF TaxInv, T!ReadPurchases, T!At
<1> PICK p \in Period : p = closing[s].period /\ Live("sales", closing[s].sales, p)
  BY <1>1 DEF ReadBy
<1> PICK book \in Seq(Entry) : book = T!LivePurchaseBook(p) /\ Live("purchases", book, p)
  <2>1. Live("purchases", T!LivePurchaseBook(p), p)
    BY LiveBookIs DEF TaxInv, T!LivePurchaseBook, T!Book
  <2>2. T!LivePurchaseBook(p) \in Seq(Entry)
    BY <2>1 DEF Live, LiveOf
  <2>. QED  BY <2>1, <2>2
<1> DEFINE row == [closing[s] EXCEPT !.stage = "start", !.purchases = book]
<1>2. row \in ClosingRow /\ row.period = p /\ row.sales = closing[s].sales /\ row.purchases = book
  BY <1>1 DEF ClosingRow
<1>3. closing' = [closing EXCEPT ![s] = row] /\ UNCHANGED <<receipts, documents, before, books>>
  BY <1>1 DEF T!ReadPurchases, T!rowVars, TaxInv
<1> HIDE DEF row
<1>4. closing'[s] = row => ReadBy(s)'
  BY <1>2, <1>3 DEF ReadBy, Live, T!Rows
<1>. QED  BY <1>2, <1>3, <1>4, ClosingInv

\* What was read stays while the DELETE waits and until the rows are stored.
LEMMA DeletingInv ==
  ASSUME TaxInv, NEW s \in Closer, T!StartDelete(s) \/ T!DeleteBook(s)
  PROVE  TaxInv'
<1>1. closing[s] \in ClosingRow /\ closing[s].stage # "idle" /\ ReadBy(s)
  BY DEF TaxInv, T!StartDelete, T!DeleteBook, T!At
<1> PICK row \in ClosingRow : /\ closing' = [closing EXCEPT ![s] = row] /\ row.period = closing[s].period
                              /\ row.sales = closing[s].sales /\ row.purchases = closing[s].purchases
  <2>1. CASE T!StartDelete(s)
    <3> DEFINE row == [closing[s] EXCEPT !.stage = "delete", !.current = TRUE]
    <3>1. /\ row \in ClosingRow /\ row.period = closing[s].period
          /\ row.sales = closing[s].sales /\ row.purchases = closing[s].purchases
      BY <1>1 DEF ClosingRow
    <3>2. closing' = [closing EXCEPT ![s] = row]
      BY <2>1 DEF T!StartDelete, TaxInv
    <3> HIDE DEF row
    <3>. QED  BY <3>1, <3>2
  <2>2. CASE T!DeleteBook(s)
    <3> PICK stage \in {"start", "store"} : stage = IF closing[s].book = "sales" THEN "start" ELSE "store"
      OBVIOUS
    <3> DEFINE row == [closing[s] EXCEPT !.stage = stage, !.book = "purchases"]
    <3>1. /\ row \in ClosingRow /\ row.period = closing[s].period
          /\ row.sales = closing[s].sales /\ row.purchases = closing[s].purchases
      BY <1>1 DEF ClosingRow, T!Book
    <3>2. closing' = [closing EXCEPT ![s] = row]
      BY <2>2 DEF T!DeleteBook, TaxInv
    <3> HIDE DEF row
    <3>. QED  BY <3>1, <3>2
  <2>. QED  BY <2>1, <2>2
<1>2. UNCHANGED <<receipts, documents, before, books>>
  BY DEF T!StartDelete, T!DeleteBook, T!rowVars
<1>3. closing'[s] = row => ReadBy(s)'
  BY <1>1, <1>2 DEF ReadBy, Live, T!Rows
<1>. QED  BY <1>2, <1>3, ClosingInv

\* Rows that were not deleted and new ones are never put in one book: they would
\* have the same number.
LEMMA StorePeriodInv ==
  ASSUME TaxInv, NEW s \in Closer, T!StorePeriod(s)
  PROVE  TaxInv'
<1>1. closing[s] \in ClosingRow /\ closing[s].stage = "store" /\ ReadBy(s) /\ ~T!Clash(s)
  BY DEF TaxInv, T!StorePeriod, T!At
<1> PICK p \in Period : p = closing[s].period
  BY <1>1 DEF ReadBy
<1> PICK sold \in Seq(Entry), bought \in Seq(Entry) :
      sold = closing[s].sales /\ bought = closing[s].purchases
  BY <1>1 DEF ClosingRow
<1> PICK sales \in Seq(Entry), purchases \in Seq(Entry) :
      sales = books[p].sales /\ purchases = books[p].purchases
  BY DEF TaxInv
<1>2. /\ Live("sales", sold, p) /\ Live("purchases", bought, p)
      /\ Live("sales", sales, p) /\ Live("purchases", purchases, p)
  BY <1>1 DEF ReadBy, TaxInv, Stored
<1>3. PICK newSales \in Seq(Entry), newPurchases \in Seq(Entry) :
        /\ books' = [books EXCEPT ![p] = [sales |-> newSales, purchases |-> newPurchases]]
        /\ newSales \in {sales, sold} /\ newPurchases \in {purchases, bought}
  <2> PICK cleared, emptied : cleared = T!Deleted(s, "sales") /\ emptied = T!Deleted(s, "purchases")
    OBVIOUS
  <2> DEFINE newSales == (IF cleared THEN <<>> ELSE sales) \o sold
             newPurchases == (IF emptied THEN <<>> ELSE purchases) \o bought
  <2>1. books' = [books EXCEPT ![p] = [sales |-> newSales, purchases |-> newPurchases]]
    BY DEF T!StorePeriod
  <2>2. /\ <<>> \o sold = sold /\ sales \o <<>> = sales
        /\ <<>> \o bought = bought /\ purchases \o <<>> = purchases
    BY ConcatEmptySeq
  <2>3. /\ cleared \/ sales = <<>> \/ sold = <<>>
        /\ emptied \/ purchases = <<>> \/ bought = <<>>
    BY <1>1 DEF T!Clash, T!Book
  <2>4. newSales \in {sales, sold} /\ newPurchases \in {purchases, bought}
    BY <2>2, <2>3
  <2> HIDE DEF newSales, newPurchases
  <2>. QED  BY <2>1, <2>4
<1>4. books'[p] = [sales |-> newSales, purchases |-> newPurchases]
      /\ \A q \in Period \ {p} : books'[q] = books[q]
  BY <1>3 DEF TaxInv
<1>5. UNCHANGED <<receipts, documents, before>>
  BY DEF T!StorePeriod, T!rowVars
<1>6. \A q \in Period : Stored(q)'
  <2>1. Stored(p)'
    BY <1>2, <1>3, <1>4, <1>5 DEF Stored, Live, T!Rows
  <2>2. \A q \in Period \ {p} : Stored(q)'
    BY <1>4, <1>5 DEF TaxInv, Stored, Live, T!Rows
  <2>. QED  BY <2>1, <2>2
<1>7. books' \in [Period -> [sales : Seq(Entry), purchases : Seq(Entry)]]
  BY <1>3 DEF TaxInv
<1>8. ASSUME NEW t \in Closer PROVE closing'[t] \in ClosingRow /\ ReadBy(t)'
  <2> DEFINE Rewritten(o) == /\ closing[o].period = closing[s].period
                             /\ T!Deleted(s, closing[o].book) \/ closing[s][closing[o].book] # <<>>
  <2>1. closing' = [o \in Closer |-> IF o = s THEN T!NoClosing ELSE
                      [closing[o] EXCEPT !.current = @ /\ ~Rewritten(o)]]
    BY DEF T!StorePeriod
  <2> HIDE DEF Rewritten
  <2>2. CASE t = s
    BY <2>1, <2>2, NoClosingTyped DEF ReadBy
  <2>3. CASE t # s
    <3>1. closing[t] \in ClosingRow /\ ReadBy(t)
      BY DEF TaxInv
    <3>2. PICK current \in BOOLEAN : closing'[t] = [closing[t] EXCEPT !.current = current]
      BY <2>1, <2>3, <3>1 DEF ClosingRow
    <3>3. /\ closing'[t] \in ClosingRow /\ closing'[t].stage = closing[t].stage
          /\ closing'[t].period = closing[t].period /\ closing'[t].sales = closing[t].sales
          /\ closing'[t].purchases = closing[t].purchases
      BY <3>1, <3>2 DEF ClosingRow
    <3>. QED  BY <1>5, <3>1, <3>3 DEF ReadBy, Live, T!Rows
  <2>. QED  BY <2>2, <2>3
<1>9. closing' \in [Closer -> ClosingRow]
  <2>1. closing' = [o \in Closer |-> closing'[o]]
    BY DEF T!StorePeriod
  <2>. QED  BY <1>8, <2>1
<1>. QED  BY <1>5, <1>6, <1>7, <1>8, <1>9 DEF TaxInv, RowsTyped, T!Rows

LEMMA TaxInvStays ==
  ASSUME TaxInv, T!TaxNext \/ UNCHANGED taxVars
  PROVE  TaxInv'
<1>1. ASSUME NEW i \in T!RowId, NEW r \in ReceiptKind, T!AddReceipt(i, r) PROVE TaxInv'
  <2>1. /\ "sales" \in T!Book /\ \A c \in T!Book : c # "sales" => T!Rows(c) = documents /\ T!Rows(c)' = documents'
        /\ T!Rows("sales") = receipts /\ T!Rows("sales")' = receipts'
    BY DEF T!Book, T!Rows
  <2>2. /\ receipts[i] = None /\ receipts' = [receipts EXCEPT ![i] = r] /\ UNCHANGED <<documents, books, closing>>
        /\ before' = [before EXCEPT !["sales"][i] = T!Committed("sales")]
    BY <1>1 DEF T!AddReceipt
  <2> PICK b \in T!Book : b = "sales"
    BY DEF T!Book
  <2>0. /\ T!Rows(b)[i] = None /\ T!Rows(b)' = [T!Rows(b) EXCEPT ![i] = r]
        /\ \A c \in T!Book \ {b} : T!Rows(c)' = T!Rows(c)
        /\ before' = [before EXCEPT ![b][i] = T!Committed(b)]
    BY <2>1, <2>2
  <2>3. /\ before' \in [T!Book -> [T!RowId -> SUBSET T!RowId]] /\ RowsAdded
        /\ \A c \in T!Book, k \in T!RowId : \A j \in before'[c][k] : T!Rows(c)'[j] # None
    BY <2>0, OneAdded
  <2>4. RowsTyped'
    BY <2>2, <2>3 DEF TaxInv, RowsTyped
  <2>. QED  BY <2>2, <2>3, <2>4, RowsAddedInv
<1>2. ASSUME NEW i \in T!RowId, NEW r \in PurchaseKind, T!PostDocument(i, r) PROVE TaxInv'
  <2>1. /\ "purchases" \in T!Book /\ \A c \in T!Book : c # "purchases" => T!Rows(c) = receipts /\ T!Rows(c)' = receipts'
        /\ T!Rows("purchases") = documents /\ T!Rows("purchases")' = documents'
    BY DEF T!Book, T!Rows
  <2>2. /\ documents[i] = None /\ documents' = [documents EXCEPT ![i] = r] /\ UNCHANGED <<receipts, books, closing>>
        /\ before' = [before EXCEPT !["purchases"][i] = T!Committed("purchases")]
    BY <1>2 DEF T!PostDocument
  <2> PICK b \in T!Book : b = "purchases"
    BY DEF T!Book
  <2>0. /\ T!Rows(b)[i] = None /\ T!Rows(b)' = [T!Rows(b) EXCEPT ![i] = r]
        /\ \A c \in T!Book \ {b} : T!Rows(c)' = T!Rows(c)
        /\ before' = [before EXCEPT ![b][i] = T!Committed(b)]
    BY <2>1, <2>2
  <2>3. /\ before' \in [T!Book -> [T!RowId -> SUBSET T!RowId]] /\ RowsAdded
        /\ \A c \in T!Book, k \in T!RowId : \A j \in before'[c][k] : T!Rows(c)'[j] # None
    BY <2>0, OneAdded
  <2>4. RowsTyped'
    BY <2>2, <2>3 DEF TaxInv, RowsTyped
  <2>. QED  BY <2>2, <2>3, <2>4, RowsAddedInv
<1>3. ASSUME NEW s \in Closer, T!FailClosing(s) PROVE TaxInv'
  <2>1. closing' = [closing EXCEPT ![s] = T!NoClosing] /\ UNCHANGED <<receipts, documents, before, books>>
    BY <1>3 DEF T!FailClosing, T!rowVars
  <2>2. closing'[s] = T!NoClosing => ReadBy(s)'
    BY NoClosingTyped DEF ReadBy
  <2>. QED  BY <2>1, <2>2, NoClosingTyped, ClosingInv
<1>4. CASE UNCHANGED <<receipts, documents, before, books, closing>>
  <2>1. RowsTyped' /\ RowsAdded
    BY <1>4 DEF TaxInv, RowsTyped, RowsAdded, Added, T!Rows
  <2>. QED  BY <1>4, <2>1, RowsAddedInv
<1>5. ASSUME NEW p \in Period, NEW t \in DeclType, T!SubmitDeclaration(p, t) PROVE TaxInv'
  BY <1>4, <1>5 DEF T!SubmitDeclaration, T!rowVars
<1>6. CASE UNCHANGED taxVars
  BY <1>4, <1>6 DEF taxVars
<1>. QED  BY <1>1, <1>2, <1>3, <1>5, <1>6, ReadSalesInv, ReadPurchasesInv, DeletingInv, StorePeriodInv
          DEF T!TaxNext

\* A quarter is three months of its year.
LEMMA QuarterOf ==
  ASSUME NEW p \in Period, NEW month \in Nat
  PROVE  T!InPeriod(month, p) <=> month \div 3 = 4 * p[1] + p[2] - 1
<1> PICK y \in Nat, q \in 1..4 : y = p[1] /\ q = p[2]
  BY TaxConstants
<1>1. q = 1 \/ q = 2 \/ q = 3 \/ q = 4
  OBVIOUS
<1>2. T!InPeriod(month, p) <=> 12 * y + 3 * (q - 1) <= month /\ month < 12 * y + 3 * q
  BY <1>1 DEF T!InPeriod, T!quarterRange
<1>. QED  BY <1>2

\* However closings overlap, each stored book by itself is a live book there has been:
\* its entries are rows of the quarter with their signs, in order, and all those
\* committed before one of them. What a closing has read stays so, since rows are never
\* changed, and the unique index keeps what two of them have read out of one book
\* (ClosePeriod).
THEOREM BookIsOneLiveBookHolds == Spec => []BookIsOneLiveBook
<1>1. Init => TaxInv
  <2> SUFFICES ASSUME Init PROVE TaxInv
    OBVIOUS
  <2>1. /\ receipts = [i \in T!RowId |-> None] /\ documents = [i \in T!RowId |-> None]
        /\ before = [b \in T!Book |-> [i \in T!RowId |-> {}]]
        /\ books = [p \in Period |-> [sales |-> <<>>, purchases |-> <<>>]]
        /\ closing = [s \in Closer |-> T!NoClosing]
    BY DEF Init, T!TaxInit
  <2>2. \A p \in Period : Stored(p)
    BY <2>1, NoEntries DEF Stored
  <2>3. \A s \in Closer : ReadBy(s)
    BY <2>1, NoClosingTyped DEF ReadBy
  <2>4. books \in [Period -> [sales : Seq(Entry), purchases : Seq(Entry)]]
    BY <2>1, EmptySeq
  <2>. QED  BY <2>1, <2>2, <2>3, <2>4, NoClosingTyped DEF TaxInv, RowsTyped
<1>2. TaxInv /\ [Next]_vars => TaxInv'
  BY StepsAre, TaxInvStays
<1>3. ASSUME TaxInv, NEW p \in Period, NEW b \in T!Book, NEW k \in DOMAIN books[p][b]
      PROVE  LET book == books[p][b]
                 e == book[k]
                 r == T!Rows(b)[e.id]
                 quarter == 4 * p[1] + p[2] - 1
                 negative == b = "sales" /\ r.type = "RETURN"
             IN
             /\ r # None /\ r.month \div 3 = quarter
             /\ e.total = (IF negative THEN -r.total ELSE r.total)
             /\ e.vat = (IF negative THEN -r.vat ELSE r.vat)
             /\ \A j \in 1..k-1 : book[j].id < e.id
             /\ \A i \in before[b][e.id] :
                  T!Rows(b)[i].month \div 3 = quarter => \E j \in DOMAIN book : book[j].id = i
  <2> PICK book, rows, past : book = books[p][b] /\ rows = T!Rows(b) /\ past = before[b]
    OBVIOUS
  <2>1. LiveOf(b, rows, past, book, p)
    BY <1>3 DEF TaxInv, Stored, Live, T!Book
  <2>2. book \in Seq(Entry) /\ DOMAIN book = 1..Len(book) /\ k \in 1..Len(book)
    BY <1>3, <2>1 DEF LiveOf
  <2> PICK e : e = book[k]
    OBVIOUS
  <2>3. e.id \in T!RowId
    BY <2>2, EntryIds
  <2> PICK r : r = rows[e.id]
    OBVIOUS
  <2>4. /\ r # None /\ T!InPeriod(r.month, p)
        /\ e.total = Signed(b, r, r.total) /\ e.vat = Signed(b, r, r.vat)
        /\ \A j \in 1..k-1 : book[j].id < e.id
        /\ \A i \in past[e.id] : T!InPeriod(rows[i].month, p) => \E j \in 1..Len(book) : book[j].id = i
    BY <2>1, <2>2 DEF LiveOf
  <2>5. r.month \in Nat /\ r.month \div 3 = 4 * p[1] + p[2] - 1
    BY <1>3, <2>3, <2>4, RowsAre, QuarterOf DEF TaxInv
  <2>6. ASSUME NEW i \in past[e.id], rows[i].month \div 3 = 4 * p[1] + p[2] - 1
        PROVE  T!InPeriod(rows[i].month, p)
    <3>1. i \in T!RowId /\ rows[i] # None
      BY <1>3, <2>3 DEF TaxInv, RowsTyped
    <3>2. rows[i].month \in Nat
      BY <1>3, <3>1, RowsAre DEF TaxInv
    <3>. QED  BY <2>6, <3>2, QuarterOf
  <2>. QED  BY <2>2, <2>4, <2>5, <2>6 DEF Signed
<1>4. TaxInv => BookIsOneLiveBook
  BY <1>3 DEF BookIsOneLiveBook, T!BookIsOneLiveBook
<1>. QED  BY <1>1, <1>2, <1>4, PTL DEF Spec

-----------------------------------------------------------------------------
(* The import of marketplace orders. *)

\* An order is one sales order or none, and skipped for a cause.
Imported(o) ==
  /\ orders[o] = IF M!Exists(o) /\ mpOrder[o].status = "MATCHED" THEN 1 ELSE 0
  /\ M!Exists(o) /\ mpOrder[o] = [status |-> "SKIPPED", note |-> "create failed"] => o \in failed \cup raced

\* A pull that is about to skip an order for a failure has met one, or finds the
\* order stored by another and leaves it alone.
Pulls(s) ==
  /\ tx[s].stage # "idle" => tx[s].todo # <<>>
  /\ tx[s].stage = "skip" =>
       /\ tx[s].note \in M!Note
       /\ tx[s].note = "create failed" => M!current(s) \in failed \cup raced \/ M!Exists(M!current(s))

MarketInv == M!TypeOK /\ (\A o \in Order : Imported(o)) /\ \A s \in Session : Pulls(s)

\* A step of the pull of s: what others have inserted stays, and so does what is stored.
PullStep(s, row) ==
  /\ tx' = [tx EXCEPT ![s] = row] /\ UNCHANGED <<posted, linked, crashes>>
  /\ failed \subseteq failed' /\ raced \subseteq raced' /\ failed' \cup raced' \subseteq Order
  /\ \A o \in Order : M!Exists(o) => M!Exists(o)'
  /\ buyer' \in Session \cup {"absent", "stored"}
  /\ orders' \in [Order -> Nat] /\ mpOrder' \in [Order -> M!MpOrder \cup {None}]
  /\ inserting' \in [Order -> Session \cup {None}]
  /\ \A o \in Order : inserting'[o] # None =>
       \/ inserting'[o] = inserting[o] /\ inserting[o] # s
       \/ inserting'[o] = s /\ row.stage = "store" /\ Head(row.todo) = o

LEMMA HeadTail ==
  ASSUME NEW Item, NEW q \in Seq(Item), q # <<>>
  PROVE  Head(q) \in Item /\ Tail(q) \in Seq(Item) /\ (Len(q) # 1 => Tail(q) # <<>>)
<1>1. Len(q) \in Nat \ {0}
  OBVIOUS
<1>2. Head(q) \in Item /\ Tail(q) \in Seq(Item) /\ Len(Tail(q)) = Len(q) - 1
  BY <1>1
<1>3. Len(<<>>) = 0
  OBVIOUS
<1>4. Tail(q) = <<>> => Len(Tail(q)) = Len(<<>>)
  BY Zenon
<1>. QED  BY <1>1, <1>2, <1>3, <1>4

\* A pull that is under way is at an order.
LEMMA CurrentIs ==
  ASSUME MarketInv, NEW s \in Session, tx[s].stage # "idle"
  PROVE  tx[s] \in M!Tx /\ tx[s].todo # <<>> /\ tx[s].todo \in Seq(Order) /\ M!current(s) \in Order
<1>1. tx[s] \in M!Tx /\ tx[s].todo # <<>> /\ tx[s].todo \in Seq(Order)
  BY DEF MarketInv, M!TypeOK, Pulls, M!Tx
<1>. QED  BY <1>1, HeadTail DEF M!current

LEMMA PullStepInv ==
  ASSUME MarketInv, NEW s \in Session, NEW row \in M!Tx, PullStep(s, row),
         \A o \in Order : Imported(o)', tx'[s] = row => Pulls(s)'
  PROVE  MarketInv'
<1>1. tx'[s] = row /\ \A t \in Session \ {s} : tx'[t] = tx[t]
  BY DEF MarketInv, M!TypeOK, PullStep
<1>2. ASSUME NEW t \in Session, t # s PROVE Pulls(t)'
  <2>1. tx'[t] = tx[t] /\ Pulls(t) /\ tx[t] \in M!Tx
    BY <1>1, <1>2 DEF MarketInv, M!TypeOK
  <2>2. tx[t].stage # "idle" => M!current(t) \in Order /\ M!current(t)' = M!current(t)
    BY <2>1, CurrentIs DEF M!current
  <2>3. tx[t].stage # "idle" /\ M!Exists(M!current(t)) => M!Exists(M!current(t))'
    BY <2>2 DEF PullStep, M!Exists
  <2>. QED  BY <2>1, <2>2, <2>3 DEF Pulls, PullStep
<1>3. \A o \in Order : inserting'[o] # None =>
        tx'[inserting'[o]].stage = "store" /\ Head(tx'[inserting'[o]].todo) = o
  BY <1>1 DEF MarketInv, M!TypeOK, M!At, M!current, PullStep
<1>4. M!TypeOK'
  BY <1>1, <1>3 DEF MarketInv, M!TypeOK, M!At, M!current, PullStep
<1>. QED  BY <1>1, <1>2, <1>4 DEF MarketInv

LEMMA ImportedStays ==
  ASSUME MarketInv, UNCHANGED <<orders, mpOrder>>, failed \subseteq failed', raced \subseteq raced'
  PROVE  \A o \in Order : Imported(o)' /\ (M!Exists(o)' <=> M!Exists(o))
BY DEF MarketInv, Imported, M!Exists

LEMMA NoPullTyped == M!NoTx \in M!Tx /\ M!NoTx.stage = "idle"
BY DEF M!NoTx, M!Tx, M!Stage

\* The pull of s moves on to another order, or ends.
MovesOn(s, row) ==
  /\ tx' = [tx EXCEPT ![s] = row] /\ row.stage \in {"idle", "exists"}
  /\ row.stage # "idle" => row.todo # <<>>

LEMMA NextOrderIs ==
  ASSUME MarketInv, NEW s \in Session, tx[s].stage # "idle", M!NextOrder(s)
  PROVE  \E row \in M!Tx : MovesOn(s, row)
<1>1. tx[s] \in M!Tx /\ tx[s].todo # <<>> /\ tx[s].todo \in Seq(Order)
  BY CurrentIs
<1>2. CASE Len(tx[s].todo) = 1
  BY <1>2, NoPullTyped DEF M!NextOrder, MovesOn
<1>3. CASE Len(tx[s].todo) # 1
  <2> DEFINE rest == Tail(tx[s].todo)
             row == [M!NoTx EXCEPT !.stage = "exists", !.todo = rest]
  <2>1. rest \in Seq(Order) /\ rest # <<>>
    BY <1>1, <1>3, HeadTail
  <2>2. tx' = [tx EXCEPT ![s] = row]
    BY <1>3 DEF M!NextOrder
  <2> HIDE DEF rest
  <2>3. row \in M!Tx /\ row.stage = "exists" /\ row.todo = rest
    BY <2>1 DEF M!NoTx, M!Tx, M!Stage
  <2> HIDE DEF row
  <2>. QED  BY <2>1, <2>2, <2>3 DEF MovesOn
<1>. QED  BY <1>2, <1>3

\* The transaction is rolled back, for a cause.
LEMMA RollbackInv ==
  ASSUME MarketInv, NEW s \in Session, tx[s].stage # "idle", M!Rollback(s), UNCHANGED <<posted, linked, crashes>>,
         failed \subseteq failed', raced \subseteq raced', failed' \cup raced' \subseteq Order,
         M!current(s) \in failed' \cup raced' \/ M!Exists(M!current(s))
  PROVE  MarketInv'
<1> DEFINE row == [tx[s] EXCEPT !.stage = "skip", !.note = "create failed"]
<1>1. tx[s] \in M!Tx /\ tx[s].todo # <<>> /\ M!current(s) \in Order
  BY CurrentIs
<1>2. row \in M!Tx /\ row.stage = "skip" /\ row.note = "create failed" /\ row.todo = tx[s].todo
  BY <1>1 DEF M!Tx, M!Stage, M!Note
<1>3. tx' = [tx EXCEPT ![s] = row] /\ UNCHANGED <<orders, mpOrder>>
  BY DEF M!Rollback, MarketInv, M!TypeOK
<1> HIDE DEF row
<1>4. \A o \in Order : Imported(o)' /\ (M!Exists(o)' <=> M!Exists(o))
  BY <1>3, ImportedStays
<1>5. /\ inserting' \in [Order -> Session \cup {None}] /\ buyer' \in Session \cup {"absent", "stored"}
      /\ \A o \in Order : inserting'[o] # None => inserting'[o] = inserting[o] /\ inserting[o] # s
  BY DEF M!Rollback, MarketInv, M!TypeOK
<1>6. PullStep(s, row)
  BY <1>3, <1>4, <1>5 DEF PullStep, MarketInv, M!TypeOK
<1>7. tx'[s] = row => Pulls(s)'
  <2>1. tx'[s] = row => M!current(s)' = M!current(s)
    BY <1>2 DEF M!current
  <2>2. M!Exists(M!current(s)) => mpOrder'[M!current(s)] # None
    BY <1>3 DEF M!Exists
  <2>. QED  BY <1>1, <1>2, <2>1, <2>2 DEF Pulls, M!Note, M!Exists
<1>. QED  BY <1>2, <1>4, <1>6, <1>7, PullStepInv

LEMMA StoreInv ==
  ASSUME MarketInv, NEW s \in Session, M!Store(s)
  PROVE  MarketInv'
<1> DEFINE o == M!current(s)
<1>1. tx[s].stage = "store" /\ UNCHANGED <<posted, linked, failed, raced, crashes>> /\ failed \cup raced \subseteq Order
  BY DEF M!Store, M!At, MarketInv, M!TypeOK
<1>2. CASE M!Exists(o)
  BY <1>1, <1>2, RollbackInv DEF M!Store
<1>3. CASE ~M!Exists(o)
  <2> DEFINE stored == [status |-> "MATCHED"]
  <2>1. /\ mpOrder' = [mpOrder EXCEPT ![o] = stored] /\ orders' = [orders EXCEPT ![o] = @ + 1]
        /\ inserting' = [inserting EXCEPT ![o] = None] /\ buyer' = "stored" /\ M!NextOrder(s)
    BY <1>3 DEF M!Store
  <2>2. stored \in M!MpOrder /\ stored # None /\ stored.status = "MATCHED"
    BY BackOfficeAssumption DEF M!MpOrder, M!MarketOrdersAssumption
  <2>3. PICK row \in M!Tx : MovesOn(s, row)
    BY <1>1, <2>1, NextOrderIs
  <2>4. o \in Order /\ Imported(o) /\ orders[o] = 0
    BY <1>1, <1>3, CurrentIs DEF MarketInv, Imported
  <2>5. stored # [status |-> "SKIPPED", note |-> "create failed"]
    BY <2>2
  <2> HIDE DEF stored, o
  <2>6. mpOrder'[o] = stored /\ orders'[o] = 1
        /\ \A p \in Order \ {o} : mpOrder'[p] = mpOrder[p] /\ orders'[p] = orders[p]
    BY <2>1, <2>4 DEF MarketInv, M!TypeOK
  <2>7. \A p \in Order : Imported(p)'
    <3>1. ASSUME NEW p \in Order, p # o PROVE Imported(p)'
      BY <1>1, <2>6, <3>1 DEF MarketInv, Imported, M!Exists
    <3>2. ASSUME NEW p \in Order, p = o PROVE Imported(p)'
      BY <2>2, <2>5, <2>6, <3>2 DEF Imported, M!Exists
    <3>. QED  BY <3>1, <3>2
  <2>8. /\ orders' \in [Order -> Nat] /\ mpOrder' \in [Order -> M!MpOrder \cup {None}]
        /\ inserting' \in [Order -> Session \cup {None}] /\ buyer' \in Session \cup {"absent", "stored"}
    BY <2>1, <2>2, <2>4 DEF MarketInv, M!TypeOK
  <2>9. \A p \in Order : inserting'[p] # None => inserting'[p] = inserting[p] /\ inserting[p] # s
    BY <2>1, <2>4 DEF MarketInv, M!TypeOK, o
  <2>10. \A p \in Order : M!Exists(p) => M!Exists(p)'
    BY <2>2, <2>6 DEF M!Exists
  <2>11. PullStep(s, row)
    BY <1>1, <2>3, <2>8, <2>9, <2>10 DEF PullStep, MovesOn
  <2>12. tx'[s] = row => Pulls(s)'
    BY <2>3 DEF Pulls, MovesOn
  <2>. QED  BY <2>7, <2>11, <2>12, PullStepInv
<1>. QED  BY <1>2, <1>3

LEMMA storeSkippedInv ==
  ASSUME MarketInv, NEW s \in Session, M!storeSkipped(s)
  PROVE  MarketInv'
<1> DEFINE o == M!current(s)
           skipped == [status |-> "SKIPPED", note |-> tx[s].note]
<1>1. /\ tx[s].stage = "skip" /\ UNCHANGED <<posted, linked, buyer, inserting, orders, failed, raced, crashes>>
      /\ mpOrder' = IF M!Exists(o) THEN mpOrder ELSE [mpOrder EXCEPT ![o] = skipped]
      /\ M!NextOrder(s)
  BY DEF M!storeSkipped, M!At
<1>2. o \in Order /\ Pulls(s) /\ tx[s].note \in M!Note
  BY <1>1, CurrentIs DEF MarketInv, Pulls
<1>3. PICK row \in M!Tx : MovesOn(s, row)
  BY <1>1, NextOrderIs
<1>4. skipped \in M!MpOrder /\ skipped # None /\ skipped.status = "SKIPPED" /\ skipped.note = tx[s].note
  BY <1>2, BackOfficeAssumption DEF M!MpOrder, M!MarketOrdersAssumption
<1>5. skipped = [status |-> "SKIPPED", note |-> "create failed"] => tx[s].note = "create failed"
  BY <1>4
<1>6. tx[s].note = "create failed" /\ ~M!Exists(o) => o \in failed \cup raced
  BY <1>1, <1>2 DEF Pulls
<1> HIDE DEF skipped, o
<1>7. \A p \in Order : Imported(p)'
  <2>1. ASSUME NEW p \in Order, p # o \/ M!Exists(o) PROVE Imported(p)'
    <3>1. mpOrder'[p] = mpOrder[p]
      BY <1>1, <1>2, <2>1 DEF MarketInv, M!TypeOK
    <3>. QED  BY <1>1, <3>1 DEF MarketInv, Imported, M!Exists
  <2>2. ASSUME NEW p \in Order, p = o, ~M!Exists(o) PROVE Imported(p)'
    <3>1. mpOrder'[p] = skipped /\ orders'[p] = 0
      BY <1>1, <1>2, <2>2 DEF MarketInv, M!TypeOK, Imported
    <3>. QED  BY <1>1, <1>4, <1>5, <1>6, <2>2, <3>1 DEF Imported, M!Exists
  <2>. QED  BY <2>1, <2>2
<1>8. mpOrder' \in [Order -> M!MpOrder \cup {None}] /\ \A p \in Order : M!Exists(p) => M!Exists(p)'
  BY <1>1, <1>2, <1>4 DEF MarketInv, M!TypeOK, M!Exists
<1>9. \A p \in Order : inserting[p] # s \/ inserting[p] = None
  BY <1>1 DEF MarketInv, M!TypeOK, M!At
<1>10. PullStep(s, row)
  BY <1>1, <1>3, <1>8, <1>9 DEF PullStep, MovesOn, MarketInv, M!TypeOK
<1>11. tx'[s] = row => Pulls(s)'
  BY <1>3 DEF Pulls, MovesOn
<1>. QED  BY <1>7, <1>10, <1>11, PullStepInv

\* A step that reads what it needs and changes the pull alone.
Reads(s, row) ==
  /\ tx[s].stage # "store" /\ tx' = [tx EXCEPT ![s] = row]
  /\ UNCHANGED <<posted, linked, buyer, inserting, orders, mpOrder, failed, raced, crashes>>

LEMMA ReadsInv ==
  ASSUME MarketInv, NEW s \in Session, NEW row \in M!Tx, Reads(s, row), tx'[s] = row => Pulls(s)'
  PROVE  MarketInv'
<1>1. \A o \in Order : Imported(o)' /\ (M!Exists(o)' <=> M!Exists(o))
  BY ImportedStays DEF Reads
<1>2. \A o \in Order : inserting[o] # s \/ inserting[o] = None
  BY DEF Reads, MarketInv, M!TypeOK, M!At
<1>3. PullStep(s, row)
  BY <1>1, <1>2 DEF PullStep, Reads, MarketInv, M!TypeOK
<1>. QED  BY <1>1, <1>3, PullStepInv

LEMMA PullOrdersInv ==
  ASSUME MarketInv, NEW s \in Session, NEW page \in M!Pages, M!PullOrders(s, page)
  PROVE  MarketInv'
<1> DEFINE row == [M!NoTx EXCEPT !.stage = "exists", !.todo = page]
<1>1. page \in Seq(Order) /\ page # <<>>
  <2>1. PICK n \in 1..Limit : page \in [1..n -> posted]
    BY DEF M!Pages
  <2>2. n \in Nat /\ n # 0 /\ posted \subseteq Order
    BY <2>1, BackOfficeAssumption DEF M!MarketOrdersAssumption, MarketInv, M!TypeOK
  <2>3. page \in [1..n -> Order]
    BY <2>1, <2>2
  <2>4. page \in Seq(Order) /\ Len(page) = n
    BY <2>2, <2>3
  <2>5. Len(<<>>) = 0
    OBVIOUS
  <2>6. page = <<>> => Len(page) = Len(<<>>)
    BY Zenon
  <2>. QED  BY <2>2, <2>4, <2>5, <2>6
<1>2. row \in M!Tx /\ row.stage = "exists" /\ row.todo = page
  BY <1>1 DEF M!NoTx, M!Tx, M!Stage
<1>3. Reads(s, row)
  BY DEF M!PullOrders, M!At, M!tables, Reads
<1> HIDE DEF row
<1>4. tx'[s] = row => Pulls(s)'
  BY <1>1, <1>2 DEF Pulls
<1>. QED  BY <1>2, <1>3, <1>4, ReadsInv

LEMMA CheckExistsInv ==
  ASSUME MarketInv, NEW s \in Session, M!CheckExists(s)
  PROVE  MarketInv'
<1>1. /\ tx[s].stage = "exists"
      /\ UNCHANGED <<posted, linked, buyer, inserting, orders, mpOrder, failed, raced, crashes>>
  BY DEF M!CheckExists, M!At, M!tables
<1>2. tx[s] \in M!Tx /\ tx[s].todo # <<>>
  BY <1>1, CurrentIs
<1>3. CASE M!NextOrder(s)
  <2>1. PICK row \in M!Tx : MovesOn(s, row)
    BY <1>1, <1>3, NextOrderIs
  <2>2. Reads(s, row) /\ (tx'[s] = row => Pulls(s)')
    BY <1>1, <2>1 DEF MovesOn, Reads, Pulls
  <2>. QED  BY <2>2, ReadsInv
<1>4. CASE M!Go(s, "match")
  <2> DEFINE row == [tx[s] EXCEPT !.stage = "match"]
  <2>1. row \in M!Tx /\ row.stage = "match" /\ row.todo = tx[s].todo
    BY <1>2 DEF M!Tx, M!Stage
  <2>2. Reads(s, row)
    BY <1>1, <1>4 DEF M!Go, Reads, MarketInv, M!TypeOK
  <2> HIDE DEF row
  <2>3. tx'[s] = row => Pulls(s)'
    BY <1>2, <2>1 DEF Pulls
  <2>. QED  BY <2>1, <2>2, <2>3, ReadsInv
<1>. QED  BY <1>3, <1>4 DEF M!CheckExists

LEMMA MatchInv ==
  ASSUME MarketInv, NEW s \in Session, NEW answered \in BOOLEAN, M!Match(s, answered)
  PROVE  MarketInv'
<1> DEFINE f == OfferOf[M!current(s)]
           matched == f # None /\ answered /\ M!ProductByOffer(f)
           note == IF matched THEN None ELSE IF f = None THEN "empty" ELSE "unmatched"
           row == [tx[s] EXCEPT !.stage = IF matched THEN "buyer" ELSE "skip", !.note = note]
<1>1. /\ tx[s].stage = "match"
      /\ UNCHANGED <<posted, linked, buyer, inserting, orders, mpOrder, failed, raced, crashes>>
  BY DEF M!Match, M!At, M!tables
<1>2. tx[s] \in M!Tx /\ tx[s].todo # <<>>
  BY <1>1, CurrentIs
<1>3. note \in M!Note \cup {None} /\ (~matched => note \in M!Note /\ note # "create failed")
  BY DEF M!Note
<1>4. tx' = [tx EXCEPT ![s] = row]
  BY DEF M!Match, MarketInv, M!TypeOK
<1> HIDE DEF matched, note
<1>5. /\ row \in M!Tx /\ row.todo = tx[s].todo /\ row.note = note
      /\ row.stage \in {"buyer", "skip"} /\ (row.stage = "skip" => ~matched)
  BY <1>2, <1>3 DEF M!Tx, M!Stage
<1> HIDE DEF row
<1>6. Reads(s, row)
  BY <1>1, <1>4 DEF Reads
<1>7. tx'[s] = row => Pulls(s)'
  BY <1>2, <1>3, <1>5 DEF Pulls
<1>. QED  BY <1>5, <1>6, <1>7, ReadsInv

LEMMA SelectBuyerInv ==
  ASSUME MarketInv, NEW s \in Session, M!SelectBuyer(s)
  PROVE  MarketInv'
<1> DEFINE row == [tx[s] EXCEPT !.stage = IF buyer = "stored" THEN "order" ELSE "newBuyer"]
<1>1. /\ tx[s].stage = "buyer"
      /\ UNCHANGED <<posted, linked, buyer, inserting, orders, mpOrder, failed, raced, crashes>>
  BY DEF M!SelectBuyer, M!At, M!tables
<1>2. tx[s] \in M!Tx /\ tx[s].todo # <<>>
  BY <1>1, CurrentIs
<1>3. row \in M!Tx /\ row.todo = tx[s].todo /\ row.stage \in {"order", "newBuyer"}
  BY <1>2 DEF M!Tx, M!Stage
<1>4. Reads(s, row)
  BY <1>1 DEF M!SelectBuyer, M!Go, Reads, MarketInv, M!TypeOK
<1> HIDE DEF row
<1>5. tx'[s] = row => Pulls(s)'
  BY <1>2, <1>3 DEF Pulls
<1>. QED  BY <1>3, <1>4, <1>5, ReadsInv

\* A step inside the transaction that stores nothing yet.
Inserts(s, stage) ==
  /\ tx[s].stage # "store" /\ M!Go(s, stage)
  /\ UNCHANGED <<posted, linked, orders, mpOrder, failed, raced, crashes>>
  /\ buyer' \in Session \cup {"absent", "stored"}
  /\ \/ inserting' = inserting
     \/ inserting' = [inserting EXCEPT ![M!current(s)] = s] /\ stage = "store"

LEMMA InsertsInv ==
  ASSUME MarketInv, NEW s \in Session, tx[s].stage # "idle", NEW stage \in {"order", "store"}, Inserts(s, stage)
  PROVE  MarketInv'
<1> DEFINE row == [tx[s] EXCEPT !.stage = stage]
<1>1. tx[s] \in M!Tx /\ tx[s].todo # <<>> /\ M!current(s) \in Order
  BY CurrentIs
<1>2. row \in M!Tx /\ row.todo = tx[s].todo /\ row.stage = stage
  BY <1>1 DEF M!Tx, M!Stage
<1>3. tx' = [tx EXCEPT ![s] = row]
  BY DEF Inserts, M!Go, MarketInv, M!TypeOK
<1> HIDE DEF row
<1>4. \A o \in Order : Imported(o)' /\ (M!Exists(o)' <=> M!Exists(o))
  BY ImportedStays DEF Inserts
<1>5. \A o \in Order : inserting[o] # s \/ inserting[o] = None
  BY DEF Inserts, MarketInv, M!TypeOK, M!At
<1>6. /\ inserting' \in [Order -> Session \cup {None}]
      /\ \A o \in Order : inserting'[o] # None =>
           \/ inserting'[o] = inserting[o] /\ inserting[o] # s
           \/ inserting'[o] = s /\ row.stage = "store" /\ Head(row.todo) = o
  <2>1. CASE inserting' = inserting
    BY <1>5, <2>1 DEF MarketInv, M!TypeOK
  <2>2. CASE inserting' = [inserting EXCEPT ![M!current(s)] = s] /\ stage = "store"
    BY <1>1, <1>2, <1>5, <2>2 DEF MarketInv, M!TypeOK, M!current
  <2>. QED  BY <2>1, <2>2 DEF Inserts
<1>7. PullStep(s, row)
  BY <1>3, <1>4, <1>6 DEF PullStep, Inserts, MarketInv, M!TypeOK
<1>8. tx'[s] = row => Pulls(s)'
  BY <1>1, <1>2 DEF Pulls
<1>. QED  BY <1>2, <1>4, <1>7, <1>8, PullStepInv

LEMMA InsertBuyerInv ==
  ASSUME MarketInv, NEW s \in Session, M!InsertBuyer(s)
  PROVE  MarketInv'
<1>1. tx[s].stage = "newBuyer" /\ M!current(s) \in Order /\ failed \cup raced \subseteq Order
  BY CurrentIs DEF M!InsertBuyer, M!At, MarketInv, M!TypeOK
<1>2. CASE M!Rollback(s) /\ raced' = raced \cup {M!current(s)}
  BY <1>1, <1>2, RollbackInv DEF M!InsertBuyer
<1>3. CASE buyer' = s /\ M!Go(s, "order") /\ UNCHANGED <<inserting, orders, mpOrder, raced>>
  <2>1. Inserts(s, "order")
    BY <1>1, <1>3 DEF M!InsertBuyer, Inserts
  <2>. QED  BY <1>1, <2>1, InsertsInv
<1>. QED  BY <1>2, <1>3 DEF M!InsertBuyer

\* The unique number finds the sales order of an order that is stored, and no other.
LEMMA InsertOrderInv ==
  ASSUME MarketInv, NEW s \in Session, M!InsertOrder(s)
  PROVE  MarketInv'
<1>1. /\ tx[s].stage = "order" /\ M!current(s) \in Order /\ failed \cup raced \subseteq Order
      /\ UNCHANGED <<posted, linked, failed, raced, crashes>>
  BY CurrentIs DEF M!InsertOrder, M!At, MarketInv, M!TypeOK
<1>2. CASE M!Rollback(s) /\ \E o \in Order : M!SameNumber(o, M!current(s)) /\ orders[o] > 0
  <2>1. orders[M!current(s)] > 0
    BY <1>2 DEF M!SameNumber
  <2>2. M!Exists(M!current(s))
    <3>1. Imported(M!current(s))
      BY <1>1 DEF MarketInv
    <3>2. ~M!Exists(M!current(s)) => orders[M!current(s)] = 0
      BY <3>1 DEF Imported
    <3>. QED  BY <2>1, <3>2
  <2>. QED  BY <1>1, <1>2, <2>2, RollbackInv
<1>3. CASE /\ inserting' = [inserting EXCEPT ![M!current(s)] = s] /\ M!Go(s, "store")
           /\ UNCHANGED <<buyer, orders, mpOrder>>
  <2>1. Inserts(s, "store")
    BY <1>1, <1>3 DEF Inserts, MarketInv, M!TypeOK
  <2>. QED  BY <1>1, <2>1, InsertsInv
<1>. QED  BY <1>2, <1>3 DEF M!InsertOrder

LEMMA MarketInvStays ==
  ASSUME MarketInv, M!Next \/ UNCHANGED marketVars
  PROVE  MarketInv'
<1>1. ASSUME UNCHANGED <<buyer, inserting, orders, mpOrder, failed, raced, tx, crashes>>,
             posted' \subseteq Order, linked' \subseteq Offer
      PROVE  MarketInv'
  <2>1. \A o \in Order : Imported(o)'
    BY <1>1, ImportedStays
  <2>2. \A s \in Session : Pulls(s)'
    BY <1>1 DEF MarketInv, Pulls, M!current, M!Exists
  <2>3. M!TypeOK'
    BY <1>1 DEF MarketInv, M!TypeOK, M!At, M!current
  <2>. QED  BY <2>1, <2>2, <2>3 DEF MarketInv
<1>2. posted \subseteq Order /\ linked \subseteq Offer
  BY DEF MarketInv, M!TypeOK
<1>3. ASSUME NEW o \in Order, M!Post(o) PROVE MarketInv'
  BY <1>1, <1>2, <1>3 DEF M!Post, M!tables
<1>4. ASSUME NEW f \in Offer, M!CreateOffer(f) \/ M!DeleteOffer(f) PROVE MarketInv'
  BY <1>1, <1>2, <1>4 DEF M!CreateOffer, M!DeleteOffer, M!tables
<1>5. ASSUME NEW s \in Session, M!Fail(s) PROVE MarketInv'
  <2>1. tx[s].stage # "idle" /\ failed' = failed \cup {M!current(s)} /\ failed \cup raced \subseteq Order
    BY <1>5 DEF M!Fail, MarketInv, M!TypeOK
  <2>2. M!current(s) \in Order
    BY <2>1, CurrentIs
  <2>. QED  BY <1>5, <2>1, <2>2, RollbackInv DEF M!Fail
<1>6. CASE M!Crash
  <2>1. /\ UNCHANGED <<posted, linked, orders, mpOrder, failed, raced>>
        /\ tx' = [s \in Session |-> M!NoTx] /\ inserting' = [o \in Order |-> None]
        /\ buyer' \in Session \cup {"absent", "stored"}
    BY <1>6 DEF M!Crash, MarketInv, M!TypeOK
  <2>2. crashes' \in 0..MaxCrashes
    BY <1>6, BackOfficeAssumption DEF M!Crash, MarketInv, M!TypeOK, M!MarketOrdersAssumption
  <2>3. \A o \in Order : Imported(o)'
    BY <2>1, ImportedStays
  <2>4. M!TypeOK' /\ \A s \in Session : Pulls(s)'
    BY <2>1, <2>2, NoPullTyped DEF MarketInv, M!TypeOK, Pulls
  <2>. QED  BY <2>3, <2>4 DEF MarketInv
<1>7. CASE UNCHANGED marketVars
  BY <1>1, <1>2, <1>7 DEF marketVars
<1>. QED  BY <1>3, <1>4, <1>5, <1>6, <1>7, PullOrdersInv, CheckExistsInv, MatchInv, SelectBuyerInv, InsertBuyerInv,
             InsertOrderInv, StoreInv, storeSkippedInv DEF M!Next

\* An order of the marketplace becomes one sales order or is skipped for a cause,
\* whichever pulls import it at once and whatever fails (importOrder, storeSkipped).
THEOREM ImportAccountedHolds == Spec => []ImportAccounted
<1>1. Init => MarketInv
  <2> SUFFICES ASSUME Init PROVE MarketInv
    OBVIOUS
  <2>1. MaxCrashes \in Nat
    BY BackOfficeAssumption DEF M!MarketOrdersAssumption
  <2>2. M!TypeOK
    BY <2>1, NoPullTyped DEF Init, M!Init, M!TypeOK
  <2>3. \A o \in Order : Imported(o)
    BY DEF Init, M!Init, Imported, M!Exists
  <2>4. \A s \in Session : Pulls(s)
    BY NoPullTyped DEF Init, M!Init, Pulls
  <2>. QED  BY <2>2, <2>3, <2>4 DEF MarketInv
<1>2. MarketInv /\ [Next]_vars => MarketInv'
  BY StepsAre, MarketInvStays
<1>3. MarketInv => ImportAccounted
  BY DEF MarketInv, Imported, ImportAccounted, M!ImportAccounted, M!ImportedOnce, M!SkippedForCause
<1>. QED  BY <1>1, <1>2, <1>3, PTL DEF Spec

-----------------------------------------------------------------------------
(* Sessions. *)

LoginStage == {"read", "fail", "lock", "touch"}
InLogin(c, u) == req[c].user = u /\ req[c].stage \in LoginStage

\* Between the logins of a user: locked, or fewer wrong passwords than lock, all
\* of them counted.
Settled(user, wrong) ==
  \/ user.locked /\ wrong <= LockAfter
  \/ wrong <= user.fails /\ user.fails < LockAfter

\* During a login, its request being row: what it has read of the count still holds.
Counted(row, user, wrong) ==
  /\ row.stage \notin LoginStage => Settled(user, wrong)
  /\ row.stage = "read" => row.fails = user.fails /\ wrong <= row.fails /\ row.fails < LockAfter
  /\ row.stage = "fail" => row.fails = user.fails /\ wrong <= row.fails + 1 /\ row.fails < LockAfter
  /\ row.stage \in {"lock", "touch"} => wrong <= LockAfter

\* The login of c is the only one of u.
Follows(c, u) ==
  /\ InLogin(c, u) /\ \A d \in Client \ {c} : ~InLogin(d, u)
  /\ Counted(req[c], users[u], guesses[u])

\* While the logins of u come one by one, the count keeps up with the wrong passwords.
Guessing(u) ==
  /\ users[u] = None => guesses[u] = 0 /\ \A c \in Client : ~InLogin(c, u)
  /\ users[u] # None /\ u \notin overlaps =>
       \/ (\A c \in Client : ~InLogin(c, u)) /\ Settled(users[u], guesses[u])
       \/ \E c \in Client : Follows(c, u)

\* A request is about a user or a session there is, and the token it has shown
\* is of no other session.
Requested(c) ==
  /\ req[c].stage \in LoginStage \cup {"issue"} => req[c].user \in User /\ users[req[c].user] # None
  /\ req[c].stage = "rotate" =>
       /\ req[c].session \in S!SessionId /\ sessions[req[c].session] # None
       /\ req[c].token \in S!Token /\ req[c].token <= tokens
       /\ \A i \in S!SessionId : sessions[i] # None /\ sessions[i].hash = req[c].token => i = req[c].session

\* Each refresh that succeeded or is in flight was in flight with the others, and
\* a token that was used is of no session.
Refreshed(t) ==
  /\ uses[t] + Cardinality(S!Refreshing(t)) <= together[t]
  /\ uses[t] > 0 => t <= tokens /\ S!Of(t) = {}

SessionsInv ==
  /\ S!TypeOK
  /\ \A i \in S!SessionId : sessions[i] # None => sessions[i].hash <= tokens
  /\ \A c \in Client : Requested(c)
  /\ \A u \in User : Guessing(u)
  /\ \A t \in S!Token : Refreshed(t)

\* Users and sessions stay, and a token that is written is a new one.
Grows ==
  /\ \A u \in User : users[u] # None => users'[u] # None
  /\ \A i \in S!SessionId : sessions[i] # None => sessions'[i] # None
  /\ tokens' \in Nat /\ tokens <= tokens'
  /\ \A i \in S!SessionId : sessions'[i] # None =>
       \/ sessions[i] # None /\ sessions'[i].hash = sessions[i].hash
       \/ tokens < sessions'[i].hash /\ sessions'[i].hash <= tokens'

LEMMA SessionsTyped ==
  ASSUME SessionsInv
  PROVE  /\ tokens \in Nat /\ tokens <= MaxTokens /\ MaxTokens \in Nat /\ now \in Nat /\ MaxGuesses \in Nat
         /\ \A i \in S!SessionId : sessions[i] # None => sessions[i] \in S!SessionRow /\ sessions[i].hash \in Nat
         /\ \A u \in User : (users[u] # None => users[u] \in S!UserRow /\ users[u].fails \in Nat)
                            /\ guesses[u] \in Nat
         /\ \A c \in Client : req[c] \in S!Request /\ req[c].fails \in Nat
BY BackOfficeAssumption DEF S!SessionsAssumption, SessionsInv, S!TypeOK, S!SessionRow, S!UserRow, S!Request, S!Token

LEMMA HashesGrow ==
  ASSUME SessionsInv, Grows, S!TypeOK'
  PROVE  \A i \in S!SessionId : sessions'[i] # None => sessions'[i].hash <= tokens'
<1> SUFFICES ASSUME NEW i \in S!SessionId, sessions'[i] # None PROVE sessions'[i].hash <= tokens'
  OBVIOUS
<1>1. tokens' \in Nat /\ tokens \in Nat /\ tokens <= tokens'
  BY BackOfficeAssumption DEF S!SessionsAssumption, SessionsInv, S!TypeOK, Grows
<1>2. CASE sessions[i] # None /\ sessions'[i].hash = sessions[i].hash
  <2>1. sessions[i].hash <= tokens /\ sessions[i].hash \in Nat
    BY <1>2, SessionsTyped DEF SessionsInv
  <2>. QED  BY <1>1, <1>2, <2>1
<1>. QED  BY <1>2 DEF Grows

\* A request that the step leaves alone is about what it was about.
LEMMA RequestedKept ==
  ASSUME SessionsInv, Grows, NEW c \in Client, req'[c] = req[c]
  PROVE  Requested(c)'
<1>1. Requested(c)
  BY DEF SessionsInv
<1>2. req[c].stage \in LoginStage \cup {"issue"} => req[c].user \in User /\ users'[req[c].user] # None
  BY <1>1 DEF Requested, Grows
<1>3. ASSUME req[c].stage = "rotate"
      PROVE  /\ req[c].session \in S!SessionId /\ sessions'[req[c].session] # None
             /\ req[c].token \in S!Token /\ req[c].token <= tokens'
             /\ \A i \in S!SessionId : sessions'[i] # None /\ sessions'[i].hash = req[c].token => i = req[c].session
  <2>1. /\ req[c].session \in S!SessionId /\ sessions[req[c].session] # None
        /\ req[c].token \in S!Token /\ req[c].token <= tokens
        /\ \A i \in S!SessionId : sessions[i] # None /\ sessions[i].hash = req[c].token => i = req[c].session
    BY <1>1, <1>3 DEF Requested
  <2>2. req[c].token \in Nat /\ tokens \in Nat /\ tokens <= tokens'
    BY <2>1, SessionsTyped DEF S!Token, Grows
  <2>3. ASSUME NEW i \in S!SessionId, sessions'[i] # None, sessions'[i].hash = req[c].token PROVE i = req[c].session
    <3>1. ~(tokens < sessions'[i].hash)
      BY <2>1, <2>2, <2>3
    <3>. QED  BY <2>1, <2>3, <3>1 DEF Grows
  <2>4. req[c].token <= tokens'
    BY <2>1, <2>2 DEF Grows
  <2>. QED  BY <2>1, <2>3, <2>4 DEF Grows
<1>. QED  BY <1>2, <1>3 DEF Requested, S!Token, S!SessionId

\* The sessions' instance has the finite sets of the library.
LEMMA CountsAgree ==
  /\ S!IsFiniteSet(Client) <=> IsFiniteSet(Client)
  /\ \A t \in S!Token : S!Cardinality(S!Refreshing(t)) = Cardinality(S!Refreshing(t))
<1>1. S!IsFiniteSet(Client) <=> IsFiniteSet(Client)
  BY Zenon DEF S!IsFiniteSet, IsFiniteSet
<1>2. \A t \in S!Token : S!Cardinality(S!Refreshing(t)) = Cardinality(S!Refreshing(t))
  BY Zenon DEF S!Cardinality, Cardinality
<1>. QED  BY <1>1, <1>2

\* A token is used, in flight and stored as before, or less.
LEMMA RefreshedKept ==
  ASSUME SessionsInv, Grows, NEW t \in S!Token, uses'[t] = uses[t], together'[t] = together[t],
         S!Refreshing(t)' \subseteq S!Refreshing(t)
  PROVE  Refreshed(t)'
<1>1. Refreshed(t) /\ uses[t] \in Nat /\ together[t] \in Nat /\ t \in Nat /\ tokens \in Nat
  BY SessionsTyped DEF SessionsInv, S!TypeOK, S!Token
<1>2. /\ Cardinality(S!Refreshing(t)) \in Nat /\ Cardinality(S!Refreshing(t)') \in Nat
      /\ Cardinality(S!Refreshing(t)') <= Cardinality(S!Refreshing(t))
  <2>1. IsFiniteSet(Client)
    BY BackOfficeAssumption, CountsAgree DEF S!SessionsAssumption
  <2>2. S!Refreshing(t) \in SUBSET Client /\ IsFiniteSet(S!Refreshing(t))
    <3>1. S!Refreshing(t) \in SUBSET Client
      BY DEF S!Refreshing
    <3>. QED  BY <2>1, <3>1, FS_Subset
  <2>3. /\ IsFiniteSet(S!Refreshing(t)')
        /\ Cardinality(S!Refreshing(t)') <= Cardinality(S!Refreshing(t))
    BY <2>2, FS_Subset
  <2>. QED  BY <2>2, <2>3, FS_CardinalityType
<1>3. uses'[t] + Cardinality(S!Refreshing(t)') <= together'[t]
  BY <1>1, <1>2 DEF Refreshed
<1>4. ASSUME uses'[t] > 0 PROVE t <= tokens' /\ S!Of(t)' = {}
  <2>1. t <= tokens /\ S!Of(t) = {}
    BY <1>1, <1>4 DEF Refreshed
  <2>2. \A i \in S!SessionId : sessions'[i] # None => sessions'[i].hash # t
    <3> SUFFICES ASSUME NEW i \in S!SessionId, sessions'[i] # None, sessions'[i].hash = t PROVE FALSE
      OBVIOUS
    <3>1. ~(tokens < sessions'[i].hash)
      BY <1>1, <2>1
    <3>2. sessions[i] # None /\ sessions[i].hash = t
      BY <3>1 DEF Grows
    <3>. QED  BY <2>1, <3>2 DEF S!Of
  <2>. QED  BY <1>1, <2>1, <2>2 DEF Grows, S!Of, S!SessionId
<1>. QED  BY <1>3, <1>4 DEF Refreshed

\* A step that is not about the logins of u.
Aside(u) ==
  /\ users'[u] = users[u] /\ guesses'[u] = guesses[u]
  /\ (u \in overlaps') <=> (u \in overlaps)
  /\ \A c \in Client : req'[c] = req[c] \/ (~InLogin(c, u) /\ ~InLogin(c, u)')

LEMMA GuessingKept ==
  ASSUME SessionsInv, NEW u \in User, Aside(u)
  PROVE  Guessing(u)'
<1>1. Guessing(u)
  BY DEF SessionsInv
<1>2. \A c \in Client : (InLogin(c, u)' <=> InLogin(c, u)) /\ (InLogin(c, u) => req'[c] = req[c])
  BY DEF Aside, InLogin
<1>3. ASSUME NEW c \in Client, Follows(c, u) PROVE Follows(c, u)'
  <2>1. req'[c] = req[c] /\ InLogin(c, u)' /\ \A d \in Client \ {c} : ~InLogin(d, u)'
    BY <1>2, <1>3 DEF Follows
  <2>. QED  BY <1>3, <2>1 DEF Follows, Aside
<1>4. (\A c \in Client : ~InLogin(c, u)) => \A c \in Client : ~InLogin(c, u)'
  BY <1>2
<1>5. users'[u] = users[u] /\ guesses'[u] = guesses[u] /\ ((u \in overlaps') <=> (u \in overlaps))
  BY DEF Aside
<1>. QED  BY <1>1, <1>3, <1>4, <1>5 DEF Guessing

\* The request of c is or becomes the only login of u.
Alone(c, row, u) ==
  /\ req' = [req EXCEPT ![c] = row] /\ users'[u] # None
  /\ u \notin overlaps' =>
       /\ \A d \in Client \ {c} : ~InLogin(d, u)
       /\ row.stage \in LoginStage => row.user = u
       /\ Counted(row, users'[u], guesses'[u])

LEMMA GuessingAlone ==
  ASSUME SessionsInv, NEW c \in Client, NEW row, NEW u \in User, Alone(c, row, u)
  PROVE  Guessing(u)'
<1>1. req'[c] = row /\ \A d \in Client \ {c} : req'[d] = req[d]
  BY DEF Alone, SessionsInv, S!TypeOK
<1>2. CASE u \in overlaps'
  BY <1>2 DEF Guessing, Alone
<1>3. CASE u \notin overlaps'
  <2>1. \A d \in Client \ {c} : ~InLogin(d, u)'
    BY <1>1, <1>3 DEF Alone, InLogin
  <2>2. CASE row.stage \in LoginStage
    <3>1. InLogin(c, u)'
      BY <1>1, <1>3, <2>2 DEF Alone, InLogin
    <3>2. Follows(c, u)'
      BY <1>1, <1>3, <2>1, <3>1 DEF Alone, Follows
    <3>. QED  BY <3>2 DEF Guessing, Alone
  <2>3. CASE row.stage \notin LoginStage
    <3>1. \A d \in Client : ~InLogin(d, u)'
      BY <1>1, <2>1, <2>3 DEF InLogin
    <3>. QED  BY <1>3, <2>3, <3>1 DEF Guessing, Alone, Counted
  <2>. QED  BY <2>2, <2>3
<1>. QED  BY <1>2, <1>3

\* A step of a login or a registration: it writes no session.
LoginStep(c, row) ==
  /\ req' = [req EXCEPT ![c] = row] /\ row.stage # "rotate"
  /\ UNCHANGED <<sessions, now, tokens, uses, together>>
  /\ users' \in [User -> S!UserRow \cup {None}] /\ \A u \in User : users[u] # None => users'[u] # None
  /\ guesses' \in [User -> 0..MaxGuesses] /\ overlaps' \in SUBSET User

LEMMA LoginStepInv ==
  ASSUME SessionsInv, NEW c \in Client, NEW row \in S!Request, LoginStep(c, row),
         req'[c] = row => Requested(c)', \A u \in User : Guessing(u)'
  PROVE  SessionsInv'
<1>1. req'[c] = row /\ \A d \in Client \ {c} : req'[d] = req[d]
  BY DEF LoginStep, SessionsInv, S!TypeOK
<1>2. Grows
  BY SessionsTyped DEF LoginStep, Grows
<1>3. S!TypeOK'
  BY DEF LoginStep, SessionsInv, S!TypeOK
<1>4. ASSUME NEW t \in S!Token PROVE Refreshed(t)'
  <2>1. S!Refreshing(t)' \subseteq S!Refreshing(t)
    BY <1>1 DEF LoginStep, S!Refreshing
  <2>2. uses'[t] = uses[t] /\ together'[t] = together[t]
    BY DEF LoginStep
  <2>. QED  BY <1>2, <2>1, <2>2, RefreshedKept
<1>5. \A d \in Client : Requested(d)'
  BY <1>1, <1>2, RequestedKept
<1>6. \A i \in S!SessionId : sessions'[i] # None => sessions'[i].hash <= tokens'
  BY <1>2, <1>3, HashesGrow
<1>. QED  BY <1>3, <1>4, <1>5, <1>6 DEF SessionsInv, S!SessionId, S!Token

LEMMA NoRequestTyped == S!NoRequest \in S!Request /\ S!NoRequest.stage = "idle"
BY DEF S!NoRequest, S!Request, S!Stage

\* A request at work is about a user there is, one of whose logins it may be.
LEMMA LoginIs ==
  ASSUME SessionsInv, NEW c \in Client, req[c].stage \in LoginStage
  PROVE  /\ req[c] \in S!Request /\ req[c].user \in User /\ InLogin(c, req[c].user)
         /\ users[req[c].user] # None /\ users[req[c].user] \in S!UserRow
         /\ req[c].user \in overlaps \/ Follows(c, req[c].user)
<1>1. req[c].user \in User /\ users[req[c].user] # None /\ InLogin(c, req[c].user)
  BY DEF SessionsInv, Requested, InLogin
<1>2. req[c].user \in overlaps \/ Follows(c, req[c].user)
  <2>1. Guessing(req[c].user)
    BY <1>1 DEF SessionsInv
  <2>2. ASSUME NEW d \in Client, Follows(d, req[c].user) PROVE d = c
    BY <1>1, <2>2 DEF Follows
  <2>. QED  BY <1>1, <2>1, <2>2 DEF Guessing
<1>. QED  BY <1>1, <1>2, SessionsTyped

LEMMA RegisterInv ==
  ASSUME SessionsInv, NEW c \in Client, NEW u \in User, S!Register(c, u)
  PROVE  SessionsInv'
<1> DEFINE row == [S!NoRequest EXCEPT !.stage = "issue", !.user = u]
           new == [fails |-> 0, locked |-> FALSE, until |-> 0]
<1>1. /\ users[u] = None /\ users' = [users EXCEPT ![u] = new] /\ req[c].stage = "idle"
      /\ req' = [req EXCEPT ![c] = row] /\ UNCHANGED <<sessions, now, tokens, guesses, overlaps, uses, together>>
  BY DEF S!Register, S!InsertUser, S!At, S!ghosts
<1>2. new \in S!UserRow /\ new.fails = 0 /\ new # None
  <2>1. new \in S!UserRow /\ new.fails = 0
    BY DEF S!UserRow
  <2>2. None \notin S!UserRow
    BY BackOfficeAssumption DEF S!SessionsAssumption
  <2>. QED  BY <2>1, <2>2
<1>3. row \in S!Request /\ row.stage = "issue" /\ row.user = u
  BY DEF S!NoRequest, S!Request, S!Stage
<1> HIDE DEF row, new
<1>4. users'[u] = new /\ \A v \in User \ {u} : users'[v] = users[v]
  BY <1>1 DEF SessionsInv, S!TypeOK
<1>5. LoginStep(c, row)
  BY <1>1, <1>2, <1>3, <1>4 DEF LoginStep, SessionsInv, S!TypeOK
<1>6. req'[c] = row => Requested(c)'
  BY <1>2, <1>3, <1>4 DEF Requested, LoginStage
<1>7. ASSUME NEW v \in User, v # u PROVE Guessing(v)'
  <2>1. Aside(v)
    BY <1>1, <1>3, <1>4, <1>7 DEF Aside, InLogin, LoginStage, SessionsInv, S!TypeOK
  <2>. QED  BY <2>1, GuessingKept
<1>8. Guessing(u)'
  <2>1. guesses[u] = 0 /\ \A d \in Client : ~InLogin(d, u)
    BY <1>1 DEF SessionsInv, Guessing
  <2>2. LockAfter \in Nat \ {0}
    BY BackOfficeAssumption DEF S!SessionsAssumption
  <2>3. Settled(new, 0)
    BY <1>2, <2>2 DEF Settled
  <2>4. Alone(c, row, u)
    BY <1>1, <1>2, <1>3, <1>4, <2>1, <2>3 DEF Alone, Counted, LoginStage
  <2>. QED  BY <2>4, GuessingAlone
<1>. QED  BY <1>3, <1>5, <1>6, <1>7, <1>8, LoginStepInv

LEMMA LoginInv ==
  ASSUME SessionsInv, NEW c \in Client, NEW u \in User, S!Login(c, u)
  PROVE  SessionsInv'
<1> DEFINE row == [S!NoRequest EXCEPT !.stage = "read", !.user = u, !.fails = users[u].fails]
<1>1. /\ users[u] # None /\ ~users[u].locked /\ req[c].stage = "idle"
      /\ req' = [req EXCEPT ![c] = row] /\ UNCHANGED <<users, sessions, now, tokens, guesses, uses, together>>
      /\ overlaps' = IF S!LoggingIn(u) # {} THEN overlaps \cup {u} ELSE overlaps
  BY DEF S!Login, S!At, S!Locked
<1>2. users[u].fails \in Nat
  BY <1>1, SessionsTyped
<1>3. row \in S!Request /\ row.stage = "read" /\ row.user = u /\ row.fails = users[u].fails
  BY <1>2 DEF S!NoRequest, S!Request, S!Stage
<1> HIDE DEF row
<1>4. overlaps \subseteq overlaps' /\ overlaps' \in SUBSET User /\ overlaps' \ {u} = overlaps \ {u}
  BY <1>1 DEF SessionsInv, S!TypeOK
<1>5. LoginStep(c, row)
  BY <1>1, <1>3, <1>4 DEF LoginStep, SessionsInv, S!TypeOK
<1>6. req'[c] = row => Requested(c)'
  BY <1>1, <1>3 DEF Requested, LoginStage
<1>7. ASSUME NEW v \in User, v # u PROVE Guessing(v)'
  <2>1. (v \in overlaps') <=> (v \in overlaps)
    BY <1>4, <1>7
  <2>2. Aside(v)
    BY <1>1, <1>3, <1>7, <2>1 DEF Aside, InLogin, LoginStage, SessionsInv, S!TypeOK
  <2>. QED  BY <2>2, GuessingKept
<1>8. Guessing(u)'
  <2>1. ASSUME u \notin overlaps'
        PROVE  (\A d \in Client : ~InLogin(d, u)) /\ guesses[u] <= users[u].fails /\ users[u].fails < LockAfter
    <3>1. u \notin overlaps /\ S!LoggingIn(u) = {}
      BY <1>1, <2>1
    <3>2. \A d \in Client : ~InLogin(d, u)
      BY <3>1 DEF S!LoggingIn, InLogin, LoginStage
    <3>. QED  BY <1>1, <3>1, <3>2 DEF SessionsInv, Guessing, Follows, Settled
  <2>2. Alone(c, row, u)
    BY <1>1, <1>3, <2>1 DEF Alone, Counted, LoginStage
  <2>. QED  BY <2>2, GuessingAlone
<1>. QED  BY <1>3, <1>5, <1>6, <1>7, <1>8, LoginStepInv

\* A further step of a login: the request moves, and what it writes is of its user.
LogsOn(c, row) ==
  /\ req[c].stage \in LoginStage /\ req' = [req EXCEPT ![c] = row]
  /\ row.stage \in {"idle", "fail", "lock", "touch", "issue"}
  /\ row.stage # "idle" => row.user = req[c].user
  /\ UNCHANGED <<sessions, now, tokens, uses, together>>
  /\ users' \in [User -> S!UserRow \cup {None}] /\ users'[req[c].user] # None
  /\ guesses' \in [User -> 0..MaxGuesses] /\ overlaps \subseteq overlaps' /\ overlaps' \in SUBSET User
  /\ \A v \in User \ {req[c].user} :
       users'[v] = users[v] /\ guesses'[v] = guesses[v] /\ (v \in overlaps' => v \in overlaps)

\* If the login is the only one of its user, what it writes keeps the count.
KeepsCount(c, row) ==
  Follows(c, req[c].user) /\ req[c].user \notin overlaps'
    => Counted(row, users'[req[c].user], guesses'[req[c].user])

LEMMA LogsOnInv ==
  ASSUME SessionsInv, NEW c \in Client, NEW row \in S!Request, LogsOn(c, row), KeepsCount(c, row)
  PROVE  SessionsInv'
<1>1. PICK u \in User : /\ u = req[c].user /\ users[u] # None /\ InLogin(c, u)
                        /\ u \in overlaps \/ Follows(c, u)
  BY LoginIs DEF LogsOn
<1>2. LoginStep(c, row)
  BY <1>1 DEF LogsOn, LoginStep, SessionsInv, S!TypeOK
<1>3. req'[c] = row => Requested(c)'
  BY <1>1 DEF LogsOn, Requested, LoginStage
<1>4. ASSUME NEW v \in User, v # u PROVE Guessing(v)'
  <2>1. ~InLogin(c, v) /\ ~InLogin(c, v)'
    BY <1>1, <1>4 DEF LogsOn, InLogin, LoginStage, SessionsInv, S!TypeOK
  <2>2. Aside(v)
    BY <1>1, <1>4, <2>1 DEF LogsOn, Aside, SessionsInv, S!TypeOK
  <2>. QED  BY <2>2, GuessingKept
<1>5. Guessing(u)'
  <2>1. Alone(c, row, u)
    BY <1>1 DEF Alone, LogsOn, KeepsCount, Follows, LoginStage
  <2>. QED  BY <2>1, GuessingAlone
<1>. QED  BY <1>2, <1>3, <1>4, <1>5, LoginStepInv

LEMMA CheckPasswordInv ==
  ASSUME SessionsInv, NEW c \in Client, NEW correct \in BOOLEAN, S!CheckPassword(c, correct)
  PROVE  SessionsInv'
<1>1. /\ req[c].stage = "read" /\ UNCHANGED <<users, sessions, now, tokens, overlaps, uses, together>>
      /\ req[c] \in S!Request /\ req[c].user \in User /\ users[req[c].user] # None
  BY LoginIs DEF S!CheckPassword, S!At, LoginStage
<1>2. CASE correct
  <2> DEFINE row == [req[c] EXCEPT !.stage = "touch"]
  <2>1. row \in S!Request /\ row.stage = "touch" /\ row.user = req[c].user
    BY <1>1 DEF S!Request, S!Stage
  <2>2. req' = [req EXCEPT ![c] = row] /\ UNCHANGED guesses
    BY <1>2 DEF S!CheckPassword, S!Go, SessionsInv, S!TypeOK
  <2> HIDE DEF row
  <2>3. LogsOn(c, row)
    BY <1>1, <2>1, <2>2 DEF LogsOn, LoginStage, SessionsInv, S!TypeOK
  <2>4. KeepsCount(c, row)
    <3>1. guesses[req[c].user] \in Nat /\ req[c].fails \in Nat /\ LockAfter \in Nat
      BY <1>1, SessionsTyped, BackOfficeAssumption DEF S!SessionsAssumption
    <3>. QED  BY <1>1, <2>1, <2>2, <3>1 DEF KeepsCount, Counted, Follows, LoginStage
  <2>. QED  BY <2>1, <2>3, <2>4, LogsOnInv
<1>3. CASE ~correct
  <2> DEFINE row == [req[c] EXCEPT !.stage = "fail"]
  <2>1. row \in S!Request /\ row.stage = "fail" /\ row.user = req[c].user /\ row.fails = req[c].fails
    BY <1>1 DEF S!Request, S!Stage
  <2>2. /\ req' = [req EXCEPT ![c] = row] /\ guesses[req[c].user] < MaxGuesses
        /\ \/ UNCHANGED guesses /\ req[c].user \in overlaps
           \/ guesses' = [guesses EXCEPT ![req[c].user] = @ + 1]
    BY <1>3 DEF S!CheckPassword, S!Go, SessionsInv, S!TypeOK
  <2> HIDE DEF row
  <2>3. /\ guesses' \in [User -> 0..MaxGuesses]
        /\ req[c].user \in overlaps \/ guesses'[req[c].user] = guesses[req[c].user] + 1
        /\ \A v \in User \ {req[c].user} : guesses'[v] = guesses[v]
    <3>1. guesses[req[c].user] + 1 \in 0..MaxGuesses
      BY <1>1, <2>2, SessionsTyped
    <3>. QED  BY <1>1, <2>2, <3>1 DEF SessionsInv, S!TypeOK
  <2>4. LogsOn(c, row)
    BY <1>1, <2>1, <2>2, <2>3 DEF LogsOn, LoginStage, SessionsInv, S!TypeOK
  <2>5. KeepsCount(c, row)
    <3>1. guesses[req[c].user] \in Nat /\ req[c].fails \in Nat
      BY <1>1, SessionsTyped
    <3>. QED  BY <1>1, <2>1, <2>3, <3>1 DEF KeepsCount, Counted, Follows, LoginStage
  <2>. QED  BY <2>1, <2>4, <2>5, LogsOnInv
<1>. QED  BY <1>2, <1>3

\* The count that FailLogin writes is what the only login has read, plus one.
LEMMA FailLoginInv ==
  ASSUME SessionsInv, NEW c \in Client, S!FailLogin(c)
  PROVE  SessionsInv'
<1> DEFINE row == IF req[c].fails + 1 >= LockAfter THEN [req[c] EXCEPT !.stage = "lock"] ELSE S!NoRequest
           new == [users[req[c].user] EXCEPT !.fails = req[c].fails + 1]
<1>1. /\ req[c].stage = "fail" /\ UNCHANGED <<sessions, now, tokens, guesses, overlaps, uses, together>>
      /\ req[c] \in S!Request /\ req[c].user \in User /\ users[req[c].user] # None
      /\ users[req[c].user] \in S!UserRow /\ req[c].fails \in Nat
  BY LoginIs, SessionsTyped DEF S!FailLogin, S!At, S!ghosts, LoginStage
<1>2. new \in S!UserRow /\ new.fails = req[c].fails + 1
  BY <1>1 DEF S!UserRow
<1>3. new # None
  <2>1. None \notin S!UserRow
    BY BackOfficeAssumption DEF S!SessionsAssumption
  <2>. QED  BY <1>2, <2>1
<1>4. users' = [users EXCEPT ![req[c].user] = new]
  BY <1>1 DEF S!FailLogin, S!Fails, SessionsInv, S!TypeOK
<1>5. req' = [req EXCEPT ![c] = row]
  BY DEF S!FailLogin, S!Fails, S!Go, S!Answer, SessionsInv, S!TypeOK
<1>6. /\ row \in S!Request /\ row.stage \in {"idle", "lock"}
      /\ row.stage # "idle" => row.user = req[c].user
  BY <1>1, NoRequestTyped DEF S!Request, S!Stage
<1>7. row.stage = "idle" => ~(req[c].fails + 1 >= LockAfter)
  BY <1>1
<1> HIDE DEF row, new
<1>8. LogsOn(c, row)
  BY <1>1, <1>2, <1>3, <1>4, <1>5, <1>6 DEF LogsOn, LoginStage, SessionsInv, S!TypeOK
<1>9. KeepsCount(c, row)
  <2>1. users'[req[c].user].fails = req[c].fails + 1 /\ guesses[req[c].user] \in Nat
    BY <1>1, <1>2, <1>4, SessionsTyped DEF SessionsInv, S!TypeOK
  <2>2. Follows(c, req[c].user) => guesses[req[c].user] <= req[c].fails + 1 /\ req[c].fails < LockAfter
    BY <1>1 DEF Follows, Counted
  <2>3. LockAfter \in Nat /\ users'[req[c].user] = new
    BY <1>1, <1>4, BackOfficeAssumption DEF S!SessionsAssumption, SessionsInv, S!TypeOK
  <2>4. CASE row.stage = "lock"
    BY <1>1, <2>1, <2>2, <2>3, <2>4 DEF KeepsCount, Counted, LoginStage
  <2>5. CASE row.stage = "idle"
    <3>1. req[c].fails + 1 < LockAfter
      BY <1>1, <1>7, <2>3, <2>5
    <3>. QED  BY <1>1, <2>1, <2>2, <2>3, <2>5, <3>1 DEF KeepsCount, Counted, Settled, LoginStage
  <2>. QED  BY <1>6, <2>4, <2>5
<1>. QED  BY <1>6, <1>8, <1>9, LogsOnInv

\* Both writes that end a login leave its user settled.
Settles(c, row, new) ==
  /\ req[c].stage \in LoginStage /\ req' = [req EXCEPT ![c] = row] /\ row.stage \in {"idle", "issue"}
  /\ row.stage # "idle" => row.user = req[c].user
  /\ users' = [users EXCEPT ![req[c].user] = new]
  /\ guesses' \in [User -> 0..MaxGuesses]
  /\ \A v \in User \ {req[c].user} : guesses'[v] = guesses[v]
  /\ Follows(c, req[c].user) => Settled(new, guesses'[req[c].user])
  /\ UNCHANGED <<sessions, now, tokens, overlaps, uses, together>>

LEMMA SettlesInv ==
  ASSUME SessionsInv, NEW c \in Client, NEW row \in S!Request, NEW new \in S!UserRow, Settles(c, row, new)
  PROVE  SessionsInv'
<1>1. req[c].user \in User /\ None \notin S!UserRow
  BY LoginIs, BackOfficeAssumption DEF S!SessionsAssumption, Settles
<1>2. LogsOn(c, row)
  BY <1>1 DEF LogsOn, Settles, SessionsInv, S!TypeOK
<1>3. users'[req[c].user] = new
  BY <1>1 DEF Settles, SessionsInv, S!TypeOK
<1>4. KeepsCount(c, row)
  BY <1>3 DEF KeepsCount, Counted, Settles, LoginStage
<1>. QED  BY <1>2, <1>4, LogsOnInv

LEMMA LockUserInv ==
  ASSUME SessionsInv, NEW c \in Client, S!LockUser(c)
  PROVE  SessionsInv'
<1> DEFINE new == [fails |-> 0, locked |-> TRUE, until |-> now + LockTime]
<1>1. now + LockTime \in Nat
  BY SessionsTyped, BackOfficeAssumption DEF S!SessionsAssumption
<1>2. new \in S!UserRow /\ new.locked
  BY <1>1 DEF S!UserRow
<1>3. /\ req[c].stage = "lock" /\ req' = [req EXCEPT ![c] = S!NoRequest]
      /\ users' = [users EXCEPT ![req[c].user] = new]
      /\ UNCHANGED <<sessions, now, tokens, guesses, overlaps, uses, together>>
  BY DEF S!LockUser, S!At, S!Answer, S!ghosts
<1> HIDE DEF new
<1>4. Follows(c, req[c].user) => Settled(new, guesses'[req[c].user])
  BY <1>2, <1>3 DEF Follows, Counted, Settled
<1>5. Settles(c, S!NoRequest, new)
  BY <1>3, <1>4, NoRequestTyped DEF Settles, LoginStage, SessionsInv, S!TypeOK
<1>. QED  BY <1>2, <1>5, NoRequestTyped, SettlesInv

LEMMA TouchLoginInv ==
  ASSUME SessionsInv, NEW c \in Client, S!TouchLogin(c)
  PROVE  SessionsInv'
<1> DEFINE new == [fails |-> 0, locked |-> FALSE, until |-> 0]
           row == [req[c] EXCEPT !.stage = "issue"]
<1>1. new \in S!UserRow /\ new.fails = 0
  BY DEF S!UserRow
<1>2. row \in S!Request /\ row.stage = "issue" /\ row.user = req[c].user
  BY SessionsTyped DEF S!Request, S!Stage
<1>3. /\ req[c].stage = "touch" /\ req' = [req EXCEPT ![c] = row]
      /\ users' = [users EXCEPT ![req[c].user] = new]
      /\ guesses' = [guesses EXCEPT ![req[c].user] = 0]
      /\ UNCHANGED <<sessions, now, tokens, overlaps, uses, together>>
  BY DEF S!TouchLogin, S!At, S!Go, SessionsInv, S!TypeOK
<1> HIDE DEF new, row
<1>4. req[c].user \in User /\ LockAfter \in Nat \ {0} /\ MaxGuesses \in Nat
  BY <1>3, LoginIs, BackOfficeAssumption DEF S!SessionsAssumption, LoginStage
<1>5. /\ guesses' \in [User -> 0..MaxGuesses] /\ guesses'[req[c].user] = 0
      /\ \A v \in User \ {req[c].user} : guesses'[v] = guesses[v]
  BY <1>3, <1>4 DEF SessionsInv, S!TypeOK
<1>6. Settled(new, guesses'[req[c].user])
  BY <1>1, <1>4, <1>5 DEF Settled
<1>7. Settles(c, row, new)
  BY <1>2, <1>3, <1>5, <1>6 DEF Settles, LoginStage
<1>. QED  BY <1>1, <1>2, <1>7, SettlesInv

LEMMA AbortInv ==
  ASSUME SessionsInv, NEW c \in Client, S!Abort(c)
  PROVE  SessionsInv'
<1>1. /\ req' = [req EXCEPT ![c] = S!NoRequest] /\ UNCHANGED <<users, sessions, now, tokens, guesses, uses, together>>
      /\ overlaps' = overlaps \cup {u \in User : c \in S!LoggingIn(u)}
  BY DEF S!Abort, S!Answer
<1>2. LoginStep(c, S!NoRequest)
  BY <1>1, NoRequestTyped DEF LoginStep, SessionsInv, S!TypeOK
<1>3. req'[c] = S!NoRequest => Requested(c)'
  BY NoRequestTyped DEF Requested, LoginStage
<1>4. ASSUME NEW u \in User PROVE Guessing(u)'
  <2>1. c \in S!LoggingIn(u) <=> InLogin(c, u)
    BY DEF S!LoggingIn, InLogin, LoginStage
  <2>2. CASE InLogin(c, u)
    <3>1. u \in overlaps' /\ users[u] # None
      BY <1>1, <2>1, <2>2 DEF SessionsInv, Guessing
    <3>. QED  BY <1>1, <3>1 DEF Guessing
  <2>3. CASE ~InLogin(c, u)
    <3>1. req'[c] = S!NoRequest /\ \A d \in Client \ {c} : req'[d] = req[d]
      BY <1>1 DEF SessionsInv, S!TypeOK
    <3>2. ~InLogin(c, u)'
      BY <3>1, NoRequestTyped DEF InLogin, LoginStage
    <3>3. (u \in overlaps') <=> (u \in overlaps)
      BY <1>1, <2>1, <2>3
    <3>4. Aside(u)
      BY <1>1, <2>3, <3>1, <3>2, <3>3 DEF Aside
    <3>. QED  BY <3>4, GuessingKept
  <2>. QED  BY <2>2, <2>3
<1>. QED  BY <1>2, <1>3, <1>4, NoRequestTyped, LoginStepInv

\* A step that writes no user and is of no login.
SessionStep ==
  /\ UNCHANGED <<users, guesses, overlaps>> /\ Grows /\ S!TypeOK'
  /\ \A c \in Client : req'[c] = req[c] \/ (req[c].stage \notin LoginStage /\ req'[c].stage \notin LoginStage)

LEMMA SessionStepInv ==
  ASSUME SessionsInv, SessionStep, \A c \in Client : req'[c] = req[c] \/ Requested(c)',
         \A t \in S!Token : Refreshed(t)'
  PROVE  SessionsInv'
<1>1. ASSUME NEW u \in User PROVE Guessing(u)'
  <2>1. Aside(u)
    BY DEF SessionStep, Aside, InLogin
  <2>. QED  BY <2>1, GuessingKept
<1>2. \A c \in Client : Requested(c)'
  BY RequestedKept DEF SessionStep
<1>3. \A i \in S!SessionId : sessions'[i] # None => sessions'[i].hash <= tokens'
  BY HashesGrow DEF SessionStep
<1>. QED  BY <1>1, <1>2, <1>3 DEF SessionStep, SessionsInv, S!SessionId, S!Token

\* A session is written with a token that no session has had.
LEMMA WritesToken ==
  ASSUME SessionsInv, tokens < MaxTokens, tokens' = tokens + 1, NEW i \in S!SessionId,
         NEW row \in S!SessionRow, row.hash = tokens + 1, sessions' = [sessions EXCEPT ![i] = row],
         UNCHANGED <<users, now, guesses, overlaps, together>>,
         NEW c \in Client, req' = [req EXCEPT ![c] = S!NoRequest], uses' \in [S!Token -> Nat]
  PROVE  Grows /\ S!TypeOK'
<1>1. tokens \in Nat /\ tokens + 1 \in 0..MaxTokens /\ None \notin S!SessionRow
  BY SessionsTyped, BackOfficeAssumption DEF S!SessionsAssumption
<1>2. sessions'[i] = row /\ \A k \in S!SessionId \ {i} : sessions'[k] = sessions[k]
  BY DEF SessionsInv, S!TypeOK
<1>3. Grows
  BY <1>1, <1>2 DEF Grows
<1>4. ASSUME NEW k \in S!SessionId, k # i, sessions[k] # None PROVE sessions[k].hash # tokens + 1
  <2>1. sessions[k].hash <= tokens /\ sessions[k].hash \in Nat
    BY <1>4, SessionsTyped DEF SessionsInv
  <2>. QED  BY <1>1, <2>1
<1>5. \A j, k \in S!SessionId : sessions'[j] # None /\ sessions'[k] # None /\ j # k
                                  => sessions'[j].hash # sessions'[k].hash
  BY <1>2, <1>4 DEF SessionsInv, S!TypeOK
<1>6. S!TypeOK'
  BY <1>1, <1>5, NoRequestTyped DEF SessionsInv, S!TypeOK, S!SessionId
<1>. QED  BY <1>3, <1>6

LEMMA CreateSessionInv ==
  ASSUME SessionsInv, NEW c \in Client, S!CreateSession(c)
  PROVE  SessionsInv'
<1>1. /\ req[c].stage = "issue" /\ tokens < MaxTokens /\ tokens' = tokens + 1
      /\ req' = [req EXCEPT ![c] = S!NoRequest]
      /\ UNCHANGED <<users, now, guesses, overlaps, uses, together>>
  BY DEF S!CreateSession, S!At, S!Answer, S!ghosts
<1>2. PICK i \in S!SessionId :
        sessions' = [sessions EXCEPT ![i] = [user |-> req[c].user, hash |-> tokens + 1,
                                             active |-> TRUE, expires |-> now + RefreshTTL]]
  BY DEF S!CreateSession
<1> DEFINE row == [user |-> req[c].user, hash |-> tokens + 1, active |-> TRUE, expires |-> now + RefreshTTL]
<1>3. row \in S!SessionRow /\ row.hash = tokens + 1
  <2>1. req[c].user \in User
    BY <1>1 DEF SessionsInv, Requested
  <2>2. tokens + 1 \in S!Token /\ now + RefreshTTL \in Nat
    BY <1>1, SessionsTyped, BackOfficeAssumption DEF S!SessionsAssumption, S!Token
  <2>. QED  BY <2>1, <2>2 DEF S!SessionRow
<1>4. sessions' = [sessions EXCEPT ![i] = row] /\ uses' \in [S!Token -> Nat]
  BY <1>1, <1>2 DEF SessionsInv, S!TypeOK
<1> HIDE DEF row
<1>5. Grows /\ S!TypeOK'
  BY <1>1, <1>3, <1>4, WritesToken
<1>6. req'[c] = S!NoRequest /\ \A d \in Client \ {c} : req'[d] = req[d]
  BY <1>1 DEF SessionsInv, S!TypeOK
<1>7. SessionStep
  BY <1>1, <1>5, <1>6, NoRequestTyped DEF SessionStep, LoginStage
<1>8. Requested(c)'
  BY <1>6, NoRequestTyped DEF Requested, LoginStage
<1>9. ASSUME NEW t \in S!Token PROVE Refreshed(t)'
  <2>1. S!Refreshing(t)' \subseteq S!Refreshing(t)
    BY <1>6, NoRequestTyped DEF S!Refreshing
  <2>. QED  BY <1>1, <1>5, <2>1, RefreshedKept
<1>. QED  BY <1>6, <1>7, <1>8, <1>9, SessionStepInv

LEMMA RefreshingCounts ==
  ASSUME SessionsInv, NEW t \in S!Token, NEW c \in Client
  PROVE  /\ Cardinality(S!Refreshing(t)) \in Nat
         /\ Cardinality(S!Refreshing(t) \cup {c}) <= Cardinality(S!Refreshing(t)) + 1
         /\ c \in S!Refreshing(t) => Cardinality(S!Refreshing(t) \ {c}) = Cardinality(S!Refreshing(t)) - 1
         /\ Cardinality(S!Refreshing(t) \cup {c}) \in Nat /\ Cardinality(S!Refreshing(t) \ {c}) \in Nat
<1>1. IsFiniteSet(Client)
  BY BackOfficeAssumption, CountsAgree DEF S!SessionsAssumption
<1>2. S!Refreshing(t) \in SUBSET Client
  BY DEF S!Refreshing
<1>3. IsFiniteSet(S!Refreshing(t))
  BY <1>1, <1>2, FS_Subset
<1>4. /\ IsFiniteSet(S!Refreshing(t) \cup {c})
      /\ Cardinality(S!Refreshing(t) \cup {c}) = Cardinality(S!Refreshing(t))
           \/ Cardinality(S!Refreshing(t) \cup {c}) = Cardinality(S!Refreshing(t)) + 1
  BY <1>3, FS_AddElement
<1>5. /\ IsFiniteSet(S!Refreshing(t) \ {c})
      /\ c \in S!Refreshing(t) => Cardinality(S!Refreshing(t) \ {c}) = Cardinality(S!Refreshing(t)) - 1
  BY <1>3, FS_RemoveElement
<1>6. Cardinality(S!Refreshing(t)) \in Nat /\ Cardinality(S!Refreshing(t) \cup {c}) \in Nat
      /\ Cardinality(S!Refreshing(t) \ {c}) \in Nat
  BY <1>3, <1>4, <1>5, FS_CardinalityType
<1>. QED  BY <1>4, <1>5, <1>6

LEMMA RefreshInv ==
  ASSUME SessionsInv, NEW c \in Client, NEW t \in S!Token, S!Refresh(c, t)
  PROVE  SessionsInv'
<1>1. PICK i \in S!Of(t) :
        req' = [req EXCEPT ![c] = [S!NoRequest EXCEPT !.stage = "rotate", !.session = i, !.token = t]]
  BY DEF S!Refresh
<1> DEFINE row == [S!NoRequest EXCEPT !.stage = "rotate", !.session = i, !.token = t]
           n == Cardinality(S!Refreshing(t))
<1>2. /\ req[c].stage = "idle" /\ t <= tokens /\ UNCHANGED <<users, sessions, now, tokens, guesses, overlaps, uses>>
      /\ together' = [together EXCEPT ![t] = IF @ > n THEN @ ELSE n + 1]
  BY CountsAgree DEF S!Refresh, S!At
<1>3. i \in S!SessionId /\ sessions[i] # None /\ sessions[i].hash = t
  BY DEF S!Of
<1>4. row \in S!Request /\ row.stage = "rotate" /\ row.session = i /\ row.token = t
  BY <1>3 DEF S!NoRequest, S!Request, S!Stage
<1>5. req' = [req EXCEPT ![c] = row]
  BY <1>1
<1> HIDE DEF row, n
<1>6. req'[c] = row /\ \A d \in Client \ {c} : req'[d] = req[d]
  BY <1>5 DEF SessionsInv, S!TypeOK
<1>7. n \in Nat /\ together[t] \in Nat /\ uses[t] \in Nat
  BY RefreshingCounts DEF n, SessionsInv, S!TypeOK
<1>8. /\ together' \in [S!Token -> Nat] /\ together'[t] > n
      /\ \A v \in S!Token \ {t} : together'[v] = together[v]
  BY <1>2, <1>7 DEF SessionsInv, S!TypeOK
<1>9. Grows
  BY <1>2, SessionsTyped DEF Grows
<1>10. S!TypeOK'
  BY <1>2, <1>4, <1>5, <1>8 DEF SessionsInv, S!TypeOK
<1>11. SessionStep
  BY <1>2, <1>4, <1>6, <1>9, <1>10 DEF SessionStep, LoginStage
<1>12. Requested(c)'
  BY <1>2, <1>3, <1>4, <1>6 DEF Requested, LoginStage, SessionsInv, S!TypeOK
<1>13. ASSUME NEW v \in S!Token, v # t PROVE Refreshed(v)'
  <2>1. S!Refreshing(v)' \subseteq S!Refreshing(v)
    BY <1>4, <1>6, <1>13 DEF S!Refreshing
  <2>2. uses'[v] = uses[v] /\ together'[v] = together[v]
    BY <1>2, <1>8, <1>13
  <2>. QED  BY <1>9, <2>1, <2>2, RefreshedKept
<1>14. Refreshed(t)'
  <2>1. uses[t] = 0 /\ uses'[t] = 0
    BY <1>2, <1>3, <1>7 DEF SessionsInv, Refreshed
  <2>2. S!Refreshing(t)' = S!Refreshing(t) \cup {c}
    BY <1>4, <1>6 DEF S!Refreshing
  <2>3. Cardinality(S!Refreshing(t)') <= n + 1 /\ Cardinality(S!Refreshing(t)') \in Nat
    BY <2>2, RefreshingCounts DEF n
  <2>4. uses'[t] + Cardinality(S!Refreshing(t)') <= together'[t]
    BY <1>7, <1>8, <2>1, <2>3
  <2>. QED  BY <2>1, <2>4 DEF Refreshed
<1>. QED  BY <1>6, <1>11, <1>12, <1>13, <1>14, SessionStepInv

\* The session that had the token is the only one, so afterwards none has it.
LEMMA RotateSessionInv ==
  ASSUME SessionsInv, NEW c \in Client, S!RotateSession(c)
  PROVE  SessionsInv'
<1>1. PICK i \in S!SessionId, t \in S!Token :
        /\ i = req[c].session /\ t = req[c].token /\ sessions[i] # None /\ t <= tokens
        /\ \A k \in S!SessionId : sessions[k] # None /\ sessions[k].hash = t => k = i
  <2>1. req[c].stage = "rotate"
    BY DEF S!RotateSession, S!At
  <2>. QED  BY <2>1 DEF SessionsInv, Requested
<1> DEFINE row == [sessions[i] EXCEPT !.hash = tokens + 1, !.expires = now + RefreshTTL]
<1>2. /\ req[c].stage = "rotate" /\ tokens < MaxTokens /\ tokens' = tokens + 1
      /\ req' = [req EXCEPT ![c] = S!NoRequest] /\ uses' = [uses EXCEPT ![t] = @ + 1]
      /\ UNCHANGED <<users, now, guesses, overlaps, together>>
  BY <1>1 DEF S!RotateSession, S!At, S!Answer
<1>3. row \in S!SessionRow /\ row.hash = tokens + 1
  <2>1. sessions[i] \in S!SessionRow
    BY <1>1, SessionsTyped
  <2>2. tokens + 1 \in S!Token /\ now + RefreshTTL \in Nat
    BY <1>2, SessionsTyped, BackOfficeAssumption DEF S!SessionsAssumption, S!Token
  <2>. QED  BY <2>1, <2>2 DEF S!SessionRow
<1>4. sessions' = [sessions EXCEPT ![i] = row]
  BY <1>1 DEF S!RotateSession, SessionsInv, S!TypeOK
<1>5. uses' \in [S!Token -> Nat] /\ uses[t] \in Nat /\ uses'[t] = uses[t] + 1
      /\ \A v \in S!Token \ {t} : uses'[v] = uses[v]
  BY <1>2 DEF SessionsInv, S!TypeOK
<1> HIDE DEF row
<1>6. Grows /\ S!TypeOK'
  BY <1>2, <1>3, <1>4, <1>5, WritesToken
<1>7. req'[c] = S!NoRequest /\ \A d \in Client \ {c} : req'[d] = req[d]
  BY <1>2 DEF SessionsInv, S!TypeOK
<1>8. SessionStep
  BY <1>2, <1>6, <1>7, NoRequestTyped DEF SessionStep, LoginStage
<1>9. Requested(c)'
  BY <1>7, NoRequestTyped DEF Requested, LoginStage
<1>10. ASSUME NEW v \in S!Token, v # t PROVE Refreshed(v)'
  <2>1. S!Refreshing(v)' \subseteq S!Refreshing(v)
    BY <1>7, NoRequestTyped DEF S!Refreshing
  <2>2. uses'[v] = uses[v] /\ together'[v] = together[v]
    BY <1>2, <1>5, <1>10
  <2>. QED  BY <1>6, <2>1, <2>2, RefreshedKept
<1>11. Refreshed(t)'
  <2>1. c \in S!Refreshing(t) /\ S!Refreshing(t)' = S!Refreshing(t) \ {c}
    BY <1>1, <1>2, <1>7, NoRequestTyped DEF S!Refreshing
  <2>2. Cardinality(S!Refreshing(t)') = Cardinality(S!Refreshing(t)) - 1 /\ Cardinality(S!Refreshing(t)) \in Nat
    BY <2>1, RefreshingCounts
  <2>3. uses[t] + Cardinality(S!Refreshing(t)) <= together[t] /\ together[t] \in Nat /\ together'[t] = together[t]
    BY <1>2 DEF SessionsInv, Refreshed, S!TypeOK
  <2>4. uses'[t] + Cardinality(S!Refreshing(t)') <= together'[t]
    BY <1>5, <2>2, <2>3
  <2>5. S!Of(t)' = {}
    <3>1. tokens \in Nat /\ t \in Nat
      BY SessionsTyped DEF S!Token
    <3>2. sessions'[i].hash # t
      BY <1>1, <1>3, <1>4, <3>1 DEF SessionsInv, S!TypeOK
    <3>3. \A k \in S!SessionId \ {i} : sessions'[k] = sessions[k]
      BY <1>4 DEF SessionsInv, S!TypeOK
    <3>. QED  BY <1>1, <3>2, <3>3 DEF S!Of, S!SessionId
  <2>6. t <= tokens'
    BY <1>1, <1>2, SessionsTyped DEF S!Token
  <2>. QED  BY <2>4, <2>5, <2>6 DEF Refreshed
<1>. QED  BY <1>7, <1>8, <1>9, <1>10, <1>11, SessionStepInv

LEMMA LogoutInv ==
  ASSUME SessionsInv, NEW t \in S!Token, S!Logout(t)
  PROVE  SessionsInv'
<1>1. /\ UNCHANGED <<users, now, tokens, req, guesses, overlaps, uses, together>>
      /\ sessions' = [i \in S!SessionId |-> IF i \in S!Of(t) THEN [sessions[i] EXCEPT !.active = FALSE]
                                             ELSE sessions[i]]
  BY DEF S!Logout, S!ghosts
<1>2. ASSUME NEW i \in S!SessionId, i \in S!Of(t)
      PROVE  /\ sessions[i] # None /\ sessions'[i] \in S!SessionRow /\ sessions'[i] # None
             /\ sessions'[i].hash = sessions[i].hash
  <2>1. sessions[i] \in S!SessionRow /\ sessions[i] # None
    BY <1>2, SessionsTyped DEF S!Of
  <2>2. sessions'[i] = [sessions[i] EXCEPT !.active = FALSE]
    BY <1>1, <1>2
  <2>3. sessions'[i] \in S!SessionRow /\ sessions'[i].hash = sessions[i].hash
    BY <2>1, <2>2 DEF S!SessionRow
  <2>4. None \notin S!SessionRow
    BY BackOfficeAssumption DEF S!SessionsAssumption
  <2>. QED  BY <2>1, <2>3, <2>4
<1>3. ASSUME NEW i \in S!SessionId, i \notin S!Of(t) PROVE sessions'[i] = sessions[i]
  BY <1>1, <1>3
<1>4. \A i \in S!SessionId : /\ sessions'[i] \in S!SessionRow \cup {None}
                             /\ (sessions'[i] # None) <=> (sessions[i] # None)
                             /\ sessions[i] # None => sessions'[i].hash = sessions[i].hash
  BY <1>2, <1>3 DEF SessionsInv, S!TypeOK
<1>5. Grows
  BY <1>1, <1>4, SessionsTyped DEF Grows
<1>6. sessions' \in [S!SessionId -> S!SessionRow \cup {None}]
  BY <1>1, <1>4
<1>7. S!TypeOK'
  BY <1>1, <1>4, <1>6 DEF SessionsInv, S!TypeOK, S!SessionId, S!Token
<1>8. SessionStep
  BY <1>1, <1>5, <1>7 DEF SessionStep
<1>9. ASSUME NEW v \in S!Token PROVE Refreshed(v)'
  <2>1. S!Refreshing(v)' \subseteq S!Refreshing(v)
    BY <1>1 DEF S!Refreshing
  <2>. QED  BY <1>1, <1>5, <2>1, RefreshedKept
<1>. QED  BY <1>1, <1>8, <1>9, SessionStepInv

LEMMA InsertUserInv ==
  ASSUME SessionsInv, NEW u \in User, S!InsertUser(u),
         UNCHANGED <<sessions, now, tokens, req, guesses, overlaps, uses, together>>
  PROVE  SessionsInv'
<1> DEFINE new == [fails |-> 0, locked |-> FALSE, until |-> 0]
<1>1. users[u] = None /\ users' = [users EXCEPT ![u] = new]
  BY DEF S!InsertUser
<1>2. new \in S!UserRow /\ new.fails = 0 /\ new # None
  <2>1. new \in S!UserRow /\ new.fails = 0
    BY DEF S!UserRow
  <2>2. None \notin S!UserRow
    BY BackOfficeAssumption DEF S!SessionsAssumption
  <2>. QED  BY <2>1, <2>2
<1> HIDE DEF new
<1>3. users'[u] = new /\ \A v \in User \ {u} : users'[v] = users[v]
  BY <1>1 DEF SessionsInv, S!TypeOK
<1>4. Grows
  BY <1>2, <1>3, SessionsTyped DEF Grows
<1>5. S!TypeOK'
  BY <1>1, <1>2 DEF SessionsInv, S!TypeOK
<1>6. ASSUME NEW v \in User, v # u PROVE Guessing(v)'
  <2>1. Aside(v)
    BY <1>3, <1>6 DEF Aside
  <2>. QED  BY <2>1, GuessingKept
<1>7. Guessing(u)'
  <2>1. guesses[u] = 0 /\ \A c \in Client : ~InLogin(c, u)
    BY <1>1 DEF SessionsInv, Guessing
  <2>2. \A c \in Client : ~InLogin(c, u)'
    BY <2>1 DEF InLogin
  <2>3. LockAfter \in Nat \ {0}
    BY BackOfficeAssumption DEF S!SessionsAssumption
  <2>4. Settled(users'[u], guesses'[u])
    BY <1>2, <1>3, <2>1, <2>3 DEF Settled
  <2>. QED  BY <1>2, <1>3, <2>1, <2>2, <2>4 DEF Guessing
<1>8. ASSUME NEW t \in S!Token PROVE Refreshed(t)'
  <2>1. S!Refreshing(t)' \subseteq S!Refreshing(t)
    BY DEF S!Refreshing
  <2>. QED  BY <1>4, <2>1, RefreshedKept
<1>9. \A c \in Client : Requested(c)'
  BY <1>4, RequestedKept
<1>10. \A i \in S!SessionId : sessions'[i] # None => sessions'[i].hash <= tokens'
  BY <1>4, <1>5, HashesGrow
<1>. QED  BY <1>5, <1>6, <1>7, <1>8, <1>9, <1>10 DEF SessionsInv, S!SessionId, S!Token

LEMMA ClockInv ==
  ASSUME SessionsInv, now' \in 0..MaxTime,
         UNCHANGED <<users, sessions, tokens, req, guesses, overlaps, uses, together>>
  PROVE  SessionsInv'
<1>1. Grows
  BY SessionsTyped DEF Grows
<1>2. S!TypeOK'
  BY DEF SessionsInv, S!TypeOK
<1>3. SessionStep
  BY <1>1, <1>2 DEF SessionStep
<1>4. ASSUME NEW t \in S!Token PROVE Refreshed(t)'
  <2>1. S!Refreshing(t)' \subseteq S!Refreshing(t)
    BY DEF S!Refreshing
  <2>. QED  BY <1>1, <2>1, RefreshedKept
<1>. QED  BY <1>3, <1>4, SessionStepInv

LEMMA SessionsInvStays ==
  ASSUME SessionsInv, S!Next \/ UNCHANGED sessionsVars
  PROVE  SessionsInv'
<1>1. CASE UNCHANGED sessionsVars
  BY <1>1, ClockInv DEF sessionsVars, SessionsInv, S!TypeOK
<1>2. CASE S!Tick
  <2>1. now' \in 0..MaxTime
    BY <1>2, BackOfficeAssumption DEF S!Tick, S!SessionsAssumption, SessionsInv, S!TypeOK
  <2>. QED  BY <1>2, <2>1, ClockInv DEF S!Tick, S!ghosts
<1>3. ASSUME NEW u \in User, S!SeedAdmin(u) \/ S!CreateUser(u) PROVE SessionsInv'
  BY <1>3, InsertUserInv DEF S!SeedAdmin, S!CreateUser, S!ghosts
<1>. QED  BY <1>1, <1>2, <1>3, RegisterInv, LoginInv, CheckPasswordInv, FailLoginInv, LockUserInv, TouchLoginInv,
             CreateSessionInv, RotateSessionInv, RefreshInv, AbortInv, LogoutInv DEF S!Next

LEMMA SessionsInitially == Init => SessionsInv
<1> SUFFICES ASSUME Init PROVE SessionsInv
  OBVIOUS
<1>1. /\ users = [u \in User |-> None] /\ sessions = [i \in S!SessionId |-> None]
      /\ now = 0 /\ tokens = 0 /\ req = [c \in Client |-> S!NoRequest]
      /\ guesses = [u \in User |-> 0] /\ overlaps = {}
      /\ uses = [t \in S!Token |-> 0] /\ together = [t \in S!Token |-> 0]
  BY DEF Init, S!Init
<1>2. MaxTime \in Nat /\ MaxTokens \in Nat /\ MaxGuesses \in Nat
  BY BackOfficeAssumption DEF S!SessionsAssumption
<1>3. S!TypeOK
  BY <1>1, <1>2, NoRequestTyped DEF S!TypeOK
<1>4. \A c \in Client : Requested(c)
  BY <1>1, NoRequestTyped DEF Requested, LoginStage
<1>5. \A u \in User : Guessing(u)
  BY <1>1, NoRequestTyped DEF Guessing, InLogin, LoginStage
<1>6. ASSUME NEW t \in S!Token PROVE Refreshed(t)
  <2>1. S!Refreshing(t) = {}
    BY <1>1, NoRequestTyped DEF S!Refreshing
  <2>2. Cardinality(S!Refreshing(t)) = 0
    BY <2>1, FS_EmptySet
  <2>. QED  BY <1>1, <1>6, <2>2 DEF Refreshed
<1>. QED  BY <1>1, <1>3, <1>4, <1>5, <1>6 DEF SessionsInv

\* While the logins of a user come one by one and none is cut short, the user has
\* not guessed more often than the count says, which locks at LockAfter (Login, FailLogin).
THEOREM GuessesAreBounded == Spec => []GuessesBounded
<1>1. SessionsInv /\ [Next]_vars => SessionsInv'
  BY StepsAre, SessionsInvStays
<1>2. SessionsInv => GuessesBounded
  <2> SUFFICES ASSUME SessionsInv, NEW u \in User, u \notin overlaps, users[u] # None
               PROVE  /\ guesses[u] <= LockAfter
                      /\ guesses[u] = LockAfter /\ S!LoggingIn(u) = {} => S!Locked(u)
    BY DEF GuessesBounded, S!GuessesBounded
  <2>1. LockAfter \in Nat /\ guesses[u] \in Nat /\ users[u].fails \in Nat
    BY SessionsTyped, BackOfficeAssumption DEF S!SessionsAssumption
  <2>2. CASE Settled(users[u], guesses[u])
    BY <2>1, <2>2 DEF Settled, S!Locked
  <2>3. ASSUME NEW c \in Client, Follows(c, u)
        PROVE  guesses[u] <= LockAfter /\ S!LoggingIn(u) # {}
    <3>1. c \in S!LoggingIn(u)
      BY <2>3 DEF S!LoggingIn, Follows, InLogin, LoginStage
    <3>2. req[c].fails \in Nat /\ Counted(req[c], users[u], guesses[u]) /\ req[c].stage \in LoginStage
      BY <2>3, SessionsTyped DEF Follows, InLogin
    <3>3. guesses[u] <= LockAfter
      BY <2>1, <3>2 DEF Counted, LoginStage
    <3>. QED  BY <3>1, <3>3
  <2>4. Settled(users[u], guesses[u]) \/ \E c \in Client : Follows(c, u)
    BY DEF SessionsInv, Guessing
  <2>. QED  BY <2>2, <2>3, <2>4
<1>. QED  BY <1>1, <1>2, SessionsInitially, PTL DEF Spec

\* No two sessions have the same refresh token, and a token refreshes once unless
\* the refreshes with it were in flight together (Refresh, RotateSession).
THEOREM TokensAgreeHolds == Spec => []TokensAgree
<1>1. SessionsInv /\ [Next]_vars => SessionsInv'
  BY StepsAre, SessionsInvStays
<1>2. SessionsInv => TokensAgree
  <2> SUFFICES ASSUME SessionsInv, NEW t \in S!Token PROVE uses[t] <= together[t]
    BY DEF SessionsInv, TokensAgree, S!TokensAgree, S!TokenUsedOnce
  <2>1. Refreshed(t) /\ uses[t] \in Nat /\ together[t] \in Nat
    BY DEF SessionsInv, S!TypeOK
  <2>2. Cardinality(S!Refreshing(t)) \in Nat
    <3>1. IsFiniteSet(Client) /\ S!Refreshing(t) \in SUBSET Client
      BY BackOfficeAssumption, CountsAgree DEF S!SessionsAssumption, S!Refreshing
    <3>. QED  BY <3>1, FS_Subset, FS_CardinalityType
  <2>. QED  BY <2>1, <2>2 DEF Refreshed
<1>. QED  BY <1>1, <1>2, SessionsInitially, PTL DEF Spec

\* A session that was logged out stays logged out, whatever refresh was under way
\* with its token: RotateSession does not write is_active.
THEOREM LogoutStaysFinal == Spec => LogoutIsFinal
<1>1. SessionsInv /\ [Next]_vars => SessionsInv'
  BY StepsAre, SessionsInvStays
<1>2. SessionsInv /\ [Next]_vars =>
        [\A i \in S!SessionId : sessions[i] # None /\ ~sessions[i].active => ~sessions'[i].active]_sessionsVars
  <2> SUFFICES ASSUME SessionsInv, S!Next, NEW i \in S!SessionId, sessions[i] # None, ~sessions[i].active
               PROVE  ~sessions'[i].active
    BY StepsAre
  <2>1. sessions[i] \in S!SessionRow
    BY SessionsTyped
  <2>2. ASSUME sessions'[i] = sessions[i] PROVE ~sessions'[i].active
    BY <2>2
  <2>3. ASSUME NEW c \in Client, S!RotateSession(c) PROVE ~sessions'[i].active
    <3>1. PICK k \in S!SessionId : sessions' = [sessions EXCEPT ![k].hash = tokens + 1,
                                                                ![k].expires = now + RefreshTTL]
      BY <2>3 DEF S!RotateSession, S!At, SessionsInv, Requested
    <3>. QED  BY <2>1, <3>1 DEF SessionsInv, S!TypeOK, S!SessionRow
  <2>4. ASSUME NEW c \in Client, S!CreateSession(c) PROVE ~sessions'[i].active
    BY <2>2, <2>4 DEF S!CreateSession, SessionsInv, S!TypeOK
  <2>5. ASSUME NEW t \in S!Token, S!Logout(t) PROVE ~sessions'[i].active
    <3>1. sessions'[i] = [sessions[i] EXCEPT !.active = FALSE] \/ sessions'[i] = sessions[i]
      BY <2>5 DEF S!Logout
    <3>. QED  BY <2>1, <2>2, <3>1 DEF S!SessionRow
  <2>. QED  BY <2>2, <2>3, <2>4, <2>5 DEF S!Next, S!Register, S!Login, S!CheckPassword, S!FailLogin, S!LockUser,
            S!TouchLogin, S!Refresh, S!Abort, S!SeedAdmin, S!CreateUser, S!Tick
<1>3. Spec => [][\A i \in S!SessionId : sessions[i] # None /\ ~sessions[i].active
                                          => ~sessions'[i].active]_sessionsVars
  BY <1>1, <1>2, SessionsInitially, PTL DEF Spec
<1>. QED  BY <1>3 DEF LogoutIsFinal, S!LogoutIsFinal, sessionsVars, S!vars, S!ghosts, S!SessionId

=============================================================================
