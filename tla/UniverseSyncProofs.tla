------------------------- MODULE UniverseSyncProofs -------------------------
(***************************************************************************)
(* What holds of tickers and instruments for any snapshot files, any       *)
(* universes and any sequence of commands; and, for one universe without   *)
(* commands and for files that are tidy, of the memberships and their log. *)
(*                                                                         *)
(* The second part rests on two things.  The open rows that a transaction  *)
(* read at its start are still the open rows of every instrument that no   *)
(* row of the file has settled, because a tidy file comes to an instrument *)
(* once, unless it has been delisted (ReadsStand, RowsHandled).  And every *)
(* day in a table is the first one or was logged, so a snapshot that comes *)
(* after the latest event of its universe comes after every row            *)
(* (DaysTold, UpTo).  From there, AppliedInv follows what the file asks    *)
(* for from row to row, and finds that a repeat has nothing to do.         *)
(***************************************************************************)
EXTENDS UniverseSync, FiniteSetTheorems, TLAPS

USE SnapshotAssumption

\* The symbol rows are typed, none is empty, and two of one instrument or of one
\* ticker share no date.
Identity(rows) ==
    /\ rows \subseteq SymbolRow
    /\ \A r \in rows : r.to = Forever \/ r.from < r.to
    /\ \A r, s \in rows : r.inst = s.inst \/ r.symbol = s.symbol => ~Overlap(r, s)

LineOf(t) == t.file[t.n]

LEMMA LineType ==
    ASSUME NEW stage, TypeOK, At(stage)
    PROVE  /\ Line \in Row /\ txn \in Txn /\ txn.eff \in Nat /\ txn.inst \in Instruments
           /\ txn.universe \in Universes /\ JoinsOn \in Nat
  <1>1. txn \in Txn
    BY DEF TypeOK, At
  <1>2. txn.file \in Seq(Row) /\ txn.n \in 1..Len(txn.file) /\ txn.eff \in Nat
    BY <1>1 DEF Txn, At
  <1>3. Line \in Row
    BY <1>2 DEF Line
  <1> QED
    BY <1>1, <1>2, <1>3 DEF Txn, JoinsOn, Row

-----------------------------------------------------------------------------
(* Tickers: what the events of instruments.py do to the symbol rows *)

LEMMA RenameKeepsIdentity ==
    ASSUME NEW r \in symbols, NEW new \in Tickers, NEW ex \in Exchanges \union {None},
           NEW d \in Nat, Identity(symbols), Renames(r, new, d), Rename(r, new, ex, d)
    PROVE  Identity(symbols')
  <1> DEFINE old == Ended(r, d)
             row == [inst |-> r.inst, symbol |-> new, from |-> d, to |-> Forever,
                     exchange |-> IF ex = None THEN r.exchange ELSE ex]
  <1>1. r \in SymbolRow /\ symbols \subseteq SymbolRow
    BY DEF Identity
  <1>2. old \in SymbolRow /\ row \in SymbolRow
    BY <1>1 DEF SymbolRow, Ended
  <1>3. /\ old.inst = r.inst /\ old.symbol = r.symbol /\ old.from = r.from /\ old.to = d
        /\ row.inst = r.inst /\ row.symbol = new /\ row.from = d /\ row.to = Forever
    BY <1>1 DEF SymbolRow, Ended
  <1>4. symbols' = (symbols \ {r}) \union {old, row}
    BY DEF Rename
  <1> HIDE DEF old, row
  <1>5. \A s \in symbols \ {r} : s.inst = r.inst => s.to # Forever /\ s.to <= r.from
    BY <1>1 DEF Identity, Overlap, Renames, SymbolRow
  <1>6. \A s \in symbols \ {r} : s.inst = r.inst \/ s.symbol = r.symbol
                                    => ~Overlap(s, old) /\ ~Overlap(old, s)
    BY <1>1, <1>3 DEF Identity, Overlap, Renames, SymbolRow
  <1>7. \A s \in symbols \ {r} : s.inst = r.inst \/ s.symbol = new
                                    => ~Overlap(s, row) /\ ~Overlap(row, s)
    <2> SUFFICES ASSUME NEW s \in symbols \ {r}, s.inst = r.inst \/ s.symbol = new
                 PROVE  s.to # Forever /\ s.to <= d
      BY <1>1, <1>3 DEF Overlap, SymbolRow
    <2> QED
      BY <1>1, <1>5 DEF Renames, OfTicker, SymbolRow
  <1>8. ~Overlap(old, row) /\ ~Overlap(row, old)
    BY <1>3, <1>1 DEF Overlap, Renames, SymbolRow
  <1>9. \A s \in symbols' : s.to = Forever \/ s.from < s.to
    BY <1>3, <1>4 DEF Identity, Renames
  <1>10. \A a, b \in symbols' : a.inst = b.inst \/ a.symbol = b.symbol => ~Overlap(a, b)
    <2> SUFFICES ASSUME NEW a \in symbols', NEW b \in symbols',
                        a.inst = b.inst \/ a.symbol = b.symbol, a # b
                 PROVE  ~Overlap(a, b)
      BY DEF Overlap
    <2>1. CASE a \in symbols \ {r} /\ b \in symbols \ {r}
      BY <2>1 DEF Identity
    <2>2. CASE a \in {old, row} /\ b \in symbols \ {r}
      BY <2>2, <1>3, <1>6, <1>7
    <2>3. CASE b \in {old, row} /\ a \in symbols \ {r}
      BY <2>3, <1>3, <1>6, <1>7
    <2>4. CASE a \in {old, row} /\ b \in {old, row}
      BY <2>4, <1>8
    <2> QED
      BY <1>4, <2>1, <2>2, <2>3, <2>4
  <1> QED
    BY <1>1, <1>2, <1>4, <1>9, <1>10 DEF Identity

LEMMA MoveKeepsIdentity ==
    ASSUME NEW r \in symbols, NEW ex \in Exchanges, NEW d \in Nat, Identity(symbols),
           MovesExchange(r, ex, d), MoveExchange(r, ex, d)
    PROVE  Identity(symbols')
  <1> DEFINE old == Ended(r, d)
             row == [r EXCEPT !.exchange = ex, !.from = d]
  <1>1. r \in SymbolRow /\ symbols \subseteq SymbolRow /\ r.to = Forever /\ r.from < d
    BY DEF Identity, MovesExchange
  <1>2. old \in SymbolRow /\ row \in SymbolRow
    BY <1>1 DEF SymbolRow, Ended
  <1>3. /\ old.inst = r.inst /\ old.symbol = r.symbol /\ old.from = r.from /\ old.to = d
        /\ row.inst = r.inst /\ row.symbol = r.symbol /\ row.from = d /\ row.to = Forever
    BY <1>1 DEF SymbolRow, Ended
  <1>4. symbols' = (symbols \ {r}) \union {old, row}
    BY DEF MoveExchange
  <1> HIDE DEF old, row
  <1>5. \A s \in symbols \ {r} : s.inst = r.inst \/ s.symbol = r.symbol
           => s.to # Forever /\ s.to <= r.from
    BY <1>1 DEF Identity, Overlap, SymbolRow
  <1>6. \A s \in symbols \ {r} : s.inst = r.inst \/ s.symbol = r.symbol
           => /\ ~Overlap(s, old) /\ ~Overlap(old, s)
              /\ ~Overlap(s, row) /\ ~Overlap(row, s)
    BY <1>1, <1>3, <1>5 DEF Overlap, SymbolRow
  <1>7. ~Overlap(old, row) /\ ~Overlap(row, old)
    BY <1>1, <1>3 DEF Overlap, SymbolRow
  <1>8. \A s \in symbols' : s.to = Forever \/ s.from < s.to
    BY <1>1, <1>3, <1>4 DEF Identity
  <1>9. \A a, b \in symbols' : a.inst = b.inst \/ a.symbol = b.symbol => ~Overlap(a, b)
    <2> SUFFICES ASSUME NEW a \in symbols', NEW b \in symbols',
                        a.inst = b.inst \/ a.symbol = b.symbol, a # b
                 PROVE  ~Overlap(a, b)
      BY DEF Overlap
    <2>1. CASE a \in symbols \ {r} /\ b \in symbols \ {r}
      BY <2>1 DEF Identity
    <2>2. CASE a \in {old, row} /\ b \in symbols \ {r}
      BY <2>2, <1>3, <1>6
    <2>3. CASE b \in {old, row} /\ a \in symbols \ {r}
      BY <2>3, <1>3, <1>6
    <2>4. CASE a \in {old, row} /\ b \in {old, row}
      BY <2>4, <1>7
    <2> QED
      BY <1>4, <2>1, <2>2, <2>3, <2>4
  <1> QED
    BY <1>1, <1>2, <1>4, <1>8, <1>9 DEF Identity

LEMMA SetKeepsIdentity ==
    ASSUME NEW r \in symbols, NEW ex \in Exchanges, Identity(symbols), SetExchange(r, ex)
    PROVE  Identity(symbols')
  <1> DEFINE row == [r EXCEPT !.exchange = ex]
  <1>1. r \in SymbolRow /\ symbols \subseteq SymbolRow
    BY DEF Identity
  <1>2. row \in SymbolRow
    BY <1>1 DEF SymbolRow
  <1>3. row.inst = r.inst /\ row.symbol = r.symbol /\ row.from = r.from /\ row.to = r.to
    BY <1>1 DEF SymbolRow
  <1>4. symbols' = (symbols \ {r}) \union {row}
    BY DEF SetExchange
  <1> HIDE DEF row
  <1> QED
    BY <1>1, <1>2, <1>3, <1>4 DEF Identity, Overlap

LEMMA DelistKeepsIdentity ==
    ASSUME NEW i \in Instruments, NEW d \in Nat, Identity(symbols), Delists(i, d), Delist(i, d)
    PROVE  Identity(symbols')
  <1>1. symbols \subseteq SymbolRow
    BY DEF Identity
  <1>2. \A r \in OpenSymbol(i) : /\ Ended(r, d) \in SymbolRow /\ Ended(r, d).inst = r.inst
                                 /\ Ended(r, d).symbol = r.symbol /\ Ended(r, d).from = r.from
                                 /\ Ended(r, d).to = d /\ r.to = Forever /\ r.from < d
                                 /\ r \in symbols
    BY <1>1 DEF OpenSymbol, Ended, SymbolRow, Delists
  <1> DEFINE after(r) == IF r \in OpenSymbol(i) THEN Ended(r, d) ELSE r
  <1>3. \A a \in symbols' : \E r \in symbols : a = after(r)
    <2>1. symbols' = (symbols \ OpenSymbol(i)) \union {Ended(r, d) : r \in OpenSymbol(i)}
      BY DEF Delist
    <2> QED
      BY <1>2, <2>1
  <1>4. \A r \in symbols :
           /\ after(r) \in SymbolRow /\ after(r).inst = r.inst
           /\ after(r).symbol = r.symbol /\ after(r).from = r.from
           /\ after(r).to = r.to \/ (r.to = Forever /\ after(r).to = d /\ r.from < d)
    BY <1>1, <1>2
  <1> HIDE DEF after
  <1>5. \A a, b \in symbols' : a.inst = b.inst \/ a.symbol = b.symbol => ~Overlap(a, b)
    <2> SUFFICES ASSUME NEW a \in symbols', NEW b \in symbols', a # b,
                        a.inst = b.inst \/ a.symbol = b.symbol
                 PROVE  ~Overlap(a, b)
      BY DEF Overlap
    <2>1. PICK r \in symbols : a = after(r)
      BY <1>3
    <2>2. PICK s \in symbols : b = after(s)
      BY <1>3
    <2>3. r # s /\ ~Overlap(r, s)
      BY <2>1, <2>2, <1>4 DEF Identity
    <2> QED
      BY <1>1, <1>4, <2>1, <2>2, <2>3 DEF Overlap, SymbolRow
  <1> QED
    BY <1>1, <1>3, <1>4, <1>5 DEF Identity

LEMMA ListKeepsIdentity ==
    ASSUME NEW i \in Fresh, NEW row \in SymbolRow, Identity(symbols),
           row.inst = i, row.to = Forever, OfTicker(row.symbol) = {},
           symbols' = symbols \union {row}
    PROVE  Identity(symbols')
  BY DEF Identity, Overlap, Fresh, Used, OfTicker

-----------------------------------------------------------------------------
(* Types *)

LEMMA EntryType ==
    ASSUME NEW stage, TypeOK, At(stage), NEW i \in Instruments, NEW action \in Actions, NEW d \in Nat
    PROVE  Entry(i, action, d) \in Change
  BY LineType DEF Entry, Change

LEMMA LogType ==
    ASSUME NEW stage, TypeOK, At(stage), NEW i \in Instruments, NEW action \in Actions,
           Log(i, action)
    PROVE  changes' \subseteq Change
  BY LineType, EntryType DEF Log, TypeOK

LEMMA StatusType ==
    ASSUME TypeOK, NEW i \in Instruments, NEW d \in Nat,
           \/ Resume(i, d) \/ Suspend(i, d) \/ Delist(i, d)
    PROVE  statuses' \subseteq StatusRow
  <1>1. statuses \subseteq StatusRow
    BY DEF TypeOK
  <1>2. \A r \in OpenStatus(i) : Ended(r, d) \in StatusRow
    BY <1>1 DEF OpenStatus, Ended, StatusRow
  <1>3. CASE Resume(i, d)
    BY <1>1, <1>2, <1>3 DEF Resume
  <1>4. CASE Suspend(i, d)
    BY <1>1, <1>4 DEF Suspend, StatusRow
  <1>5. CASE Delist(i, d)
    <2>1. EndSuspension(i, d) \subseteq StatusRow
      BY <1>2 DEF EndSuspension
    <2> QED
      BY <1>1, <1>5, <2>1 DEF Delist, StatusRow
  <1> QED
    BY <1>3, <1>4, <1>5

\* A stage hands the transaction on.
LEMMA IsType ==
    ASSUME NEW stage, TypeOK, At(stage), NEW i \in Instruments, NEW isNew \in BOOLEAN,
           Is(i, isNew)
    PROVE  txn' \in Txn /\ txn'.saved = txn.saved
  <1>1. txn \in Txn
    BY LineType
  <1>2. txn.handled \union {i} \in SUBSET Instruments
    BY <1>1 DEF Txn
  <1> QED
    BY <1>1, <1>2 DEF Is, Txn, Stages

LEMMA NextLineType ==
    ASSUME NEW stage, TypeOK, At(stage), NEW gone, NextLine(gone)
    PROVE  txn' \in Txn /\ txn'.saved = txn.saved
  <1>1. txn \in Txn
    BY LineType
  <1>2. /\ {k \in txn.open : k.inst \notin gone} \in SUBSET [inst : Instruments, from : Nat]
        /\ txn.n + 1 \in Nat \ {0}
    BY <1>1 DEF Txn
  <1> QED
    BY <1>1, <1>2 DEF NextLine, Txn, Stages

LEMMA StageType ==
    ASSUME NEW stage, TypeOK, At(stage), NEW next \in Stages,
           txn' = [txn EXCEPT !.stage = next]
    PROVE  txn' \in Txn /\ txn'.saved = txn.saved
  BY LineType DEF Txn

LEMMA ClosedType ==
    ASSUME TypeOK, txn \in Txn, NEW rows \in SUBSET members
    PROVE  Closed(rows) \subseteq Membership
  BY DEF TypeOK, Closed, Ended, Membership, Txn

-----------------------------------------------------------------------------
(* The inductive invariant *)

Inv == /\ TypeOK /\ Identity(symbols)
       /\ txn # None => Identity(txn.saved.symbols)

LEMMA ResolveStep == ASSUME Inv, Resolve PROVE Inv'
  <1> USE DEF Inv
  <1>1. /\ At("resolve") /\ Line \in Row /\ txn.eff \in Nat /\ txn.inst \in Instruments
        /\ statuses' = statuses /\ members' = members /\ request' = request
        /\ Line.symbol \in Tickers /\ Line.exchange \in Exchanges \union {None}
    BY LineType DEF Resolve, Row
  <1>2. SUFFICES ASSUME NEW i \in Instruments, NEW isNew \in BOOLEAN, Is(i, isNew),
                        changes' \subseteq Change, Identity(symbols')
                 PROVE  Inv'
    <2>1. symbols \subseteq SymbolRow
      BY DEF Identity
    <2>2. CASE \E c \in Current : Is(c.inst, FALSE) /\ UNCHANGED <<symbols, changes>>
      BY <1>2, <2>1, <2>2 DEF Current, Newest, TickerOn, OfTicker, SymbolRow, TypeOK
    <2>3. CASE \E r \in Newest(OfTicker(Line.symbol)) :
                   Is(r.inst, FALSE) /\ UNCHANGED <<symbols, changes>>
      BY <1>2, <2>1, <2>3 DEF Newest, OfTicker, SymbolRow, TypeOK
    <2>4. CASE \E r \in Newest(TickerOn(Line.prev, txn.eff)) :
                 /\ Renames(r, Line.symbol, txn.eff)
                 /\ Rename(r, Line.symbol, Line.exchange, txn.eff)
                 /\ Log(r.inst, "rename") /\ Is(r.inst, FALSE)
      <3>1. PICK r \in symbols :
                 /\ Renames(r, Line.symbol, txn.eff)
                 /\ Rename(r, Line.symbol, Line.exchange, txn.eff)
                 /\ Log(r.inst, "rename") /\ Is(r.inst, FALSE)
        BY <2>4 DEF Newest, TickerOn, OfTicker
      <3>2. Identity(symbols')
        BY <1>1, <3>1, RenameKeepsIdentity
      <3>3. r.inst \in Instruments
        BY <2>1 DEF SymbolRow
      <3>4. changes' \subseteq Change
        BY <1>1, <3>1, <3>3, LogType DEF Actions
      <3> QED
        BY <1>2, <3>1, <3>2, <3>3, <3>4
    <2>5. CASE /\ IsUnknown
               /\ \E i \in Fresh :
                    /\ symbols' = symbols \union {[inst |-> i, symbol |-> Line.symbol, from |-> FirstDay,
                                                   to |-> Forever, exchange |-> Line.exchange]}
                    /\ Is(i, TRUE)
               /\ UNCHANGED changes
      <3>1. PICK i \in Fresh :
                    /\ symbols' = symbols \union {[inst |-> i, symbol |-> Line.symbol, from |-> FirstDay,
                                                   to |-> Forever, exchange |-> Line.exchange]}
                    /\ Is(i, TRUE)
        BY <2>5
      <3> DEFINE row == [inst |-> i, symbol |-> Line.symbol, from |-> FirstDay,
                         to |-> Forever, exchange |-> Line.exchange]
      <3>2. i \in Instruments
        BY DEF Fresh
      <3>3. row \in SymbolRow /\ row.inst = i /\ row.to = Forever /\ row.symbol = Line.symbol
        BY <1>1, <3>2 DEF SymbolRow, FirstDay
      <3>4. Identity(symbols')
        <4> HIDE DEF row
        <4>1. symbols' = symbols \union {row}
          BY <3>1 DEF row
        <4> QED
          BY <2>5, <3>3, <4>1, ListKeepsIdentity DEF IsUnknown
      <3> QED
        BY <1>2, <2>5, <3>1, <3>2, <3>4 DEF TypeOK
    <2> QED
      BY <2>2, <2>3, <2>4, <2>5 DEF Resolve
  <1>3. txn' \in Txn /\ txn'.saved = txn.saved /\ txn # None
    BY <1>1, <1>2, IsType DEF At
  <1> QED
    BY <1>1, <1>2, <1>3 DEF TypeOK, Identity

LEMMA ExchangeStep == ASSUME Inv, Exchange PROVE Inv'
  <1> USE DEF Inv
  <1>1. /\ At("exchange") /\ Line \in Row /\ txn.eff \in Nat /\ txn.inst \in Instruments
        /\ txn # None /\ statuses' = statuses /\ members' = members /\ request' = request
    BY LineType DEF Exchange, At
  <1>2. txn' \in Txn /\ txn'.saved = txn.saved
    BY <1>1, StageType DEF Exchange, Stages
  <1>3. Identity(symbols') /\ changes' \subseteq Change
    <2>1. CASE UNCHANGED <<symbols, changes>>
      BY <2>1 DEF TypeOK
    <2>2. CASE /\ NamesExchange
               /\ \E r \in Listing : SetsExchange(r) /\ SetExchange(r, Line.exchange)
               /\ Log(txn.inst, "exchange_set")
      <3>1. Line.exchange \in Exchanges
        BY <1>1, <2>2 DEF NamesExchange, Row
      <3>2. PICK r \in symbols : SetExchange(r, Line.exchange)
        BY <2>2 DEF Listing, Newest, SymbolOn
      <3> QED
        BY <1>1, <2>2, <3>1, <3>2, SetKeepsIdentity, LogType DEF Actions
    <2>3. CASE /\ NamesExchange
               /\ \E r \in Listing : /\ MovesExchange(r, Line.exchange, txn.eff)
                                     /\ MoveExchange(r, Line.exchange, txn.eff)
               /\ Log(txn.inst, "exchange_change")
      <3>1. Line.exchange \in Exchanges
        BY <1>1, <2>3 DEF NamesExchange, Row
      <3>2. PICK r \in symbols : /\ MovesExchange(r, Line.exchange, txn.eff)
                                 /\ MoveExchange(r, Line.exchange, txn.eff)
        BY <2>3 DEF Listing, Newest, SymbolOn
      <3> QED
        BY <1>1, <2>3, <3>1, <3>2, MoveKeepsIdentity, LogType DEF Actions
    <2> QED
      BY <2>1, <2>2, <2>3 DEF Exchange
  <1> QED
    BY <1>1, <1>2, <1>3 DEF TypeOK, Identity

LEMMA StatusStep == ASSUME Inv, Status PROVE Inv'
  <1> USE DEF Inv
  <1>1. /\ At("status") /\ Line \in Row /\ txn.eff \in Nat /\ txn.inst \in Instruments
        /\ txn # None /\ members' = members /\ request' = request
    BY LineType DEF Status, At
  <1>2. txn' \in Txn /\ txn'.saved = txn.saved
    BY <1>1, StageType DEF Status, Stages
  <1>3. Identity(symbols') /\ changes' \subseteq Change /\ statuses' \subseteq StatusRow
    <2>1. CASE UNCHANGED <<symbols, statuses, changes>>
      BY <2>1 DEF TypeOK
    <2>2. CASE Delists(txn.inst, txn.eff) /\ Delist(txn.inst, txn.eff) /\ Log(txn.inst, "delist")
      BY <1>1, <2>2, DelistKeepsIdentity, StatusType, LogType DEF Actions
    <2>3. CASE Suspend(txn.inst, txn.eff) /\ Log(txn.inst, "suspend") /\ UNCHANGED symbols
      BY <1>1, <2>3, StatusType, LogType DEF Actions
    <2>4. CASE (Resume(txn.inst, txn.eff) \/ UNCHANGED statuses)
               /\ Log(txn.inst, "resume") /\ UNCHANGED symbols
      BY <1>1, <2>4, StatusType, LogType DEF Actions, TypeOK
    <2> QED
      BY <2>1, <2>2, <2>3, <2>4 DEF Status
  <1> QED
    BY <1>1, <1>2, <1>3 DEF TypeOK, Identity

LEMMA MemberStep == ASSUME Inv, Member PROVE Inv'
  <1> USE DEF Inv
  <1>1. /\ At("member") /\ Line \in Row /\ txn.eff \in Nat /\ txn.inst \in Instruments
        /\ txn \in Txn /\ txn.universe \in Universes /\ JoinsOn \in Nat
        /\ txn # None /\ symbols' = symbols /\ statuses' = statuses /\ request' = request
    BY LineType DEF Member, At
  <1>2. txn' \in Txn /\ txn'.saved = txn.saved
    BY <1>1, NextLineType DEF Member
  <1>3. Mine \subseteq members /\ Closed(Mine) \subseteq Membership /\ members \subseteq Membership
    BY <1>1, ClosedType DEF Mine, Members, TypeOK
  <1>4. \A d \in Nat : Joined(d) \in Membership
    BY <1>1 DEF Joined, Membership, Row
  <1>5. {[m EXCEPT !.weight = Line.weight] : m \in Mine} \subseteq Membership
    BY <1>1, <1>3 DEF Membership, Row
  <1>6. members' \subseteq Membership /\ changes' \subseteq Change
    <2>1. CASE UNCHANGED <<members, changes>>
      BY <2>1 DEF TypeOK
    <2>2. CASE members' = (members \ Mine) \union Closed(Mine) /\ Log(txn.inst, "remove")
      BY <1>1, <1>3, <2>2, LogType DEF Actions
    <2>3. CASE /\ members' = members \union {Joined(JoinsOn)}
               /\ changes' = changes \union {Entry(txn.inst, "add", JoinsOn)}
      BY <1>1, <1>3, <1>4, <2>3, EntryType DEF Actions, TypeOK
    <2>4. CASE /\ members' = (members \ Mine) \union {[m EXCEPT !.weight = Line.weight] : m \in Mine}
               /\ Log(txn.inst, "weight_change")
      BY <1>1, <1>3, <1>5, <2>4, LogType DEF Actions
    <2>5. CASE /\ members' = (members \ Mine) \union Closed(Mine) \union {Joined(txn.eff)}
               /\ Log(txn.inst, "weight_change")
      BY <1>1, <1>3, <1>4, <2>5, LogType DEF Actions
    <2> QED
      BY <2>1, <2>2, <2>3, <2>4, <2>5 DEF Member
  <1> QED
    BY <1>1, <1>2, <1>6 DEF TypeOK, Identity

LEMMA EndStep == ASSUME Inv, Commit \/ Abort PROVE Inv'
  <1> USE DEF Inv
  <1>1. txn \in Txn /\ txn # None
    BY DEF TypeOK, Commit, Abort, Fails, AtEnd, At
  <1>2. CASE Commit
    <2>1. Absent \subseteq members /\ Closed(Absent) \subseteq Membership
      BY <1>1, ClosedType DEF Absent, Members
    <2>2. members' \subseteq Membership
      BY <1>2, <2>1 DEF Commit, TypeOK
    <2>3. \A m \in Absent : Entry(m.inst, "remove", txn.eff) \in Change
      BY <1>1, <2>1 DEF Entry, Change, Actions, TypeOK, Membership, Txn
    <2>4. changes' \subseteq Change
      BY <1>2, <2>3 DEF Commit, TypeOK
    <2>5. request' \in [universe: Universes, file: Seq(Row), eff: Nat] /\ txn' = None
      BY <1>1, <1>2 DEF Commit, Txn
    <2> QED
      BY <1>2, <2>2, <2>4, <2>5 DEF Commit, TypeOK, Identity
  <1>3. CASE Abort
    <2>1. txn.saved \in Saved
      BY <1>1 DEF Txn
    <2> QED
      BY <1>1, <1>3, <2>1 DEF Abort, TypeOK, Saved, Identity
  <1> QED
    BY <1>2, <1>3

LEMMA BeginType ==
    ASSUME TypeOK, NEW u \in Universes, NEW f \in Files, NEW d \in Dates, Begin(u, f, d)
    PROVE  txn' \in Txn /\ txn'.saved.symbols = symbols
  <1> DEFINE opened == {[inst |-> m.inst, from |-> m.from] :
                           m \in {x \in members : x.universe = u /\ x.to = Forever}}
             saved == [symbols |-> symbols, statuses |-> statuses,
                       members |-> members, changes |-> changes]
  <1>1. f \in Seq(Row) /\ d \in Nat
    BY DEF Dates
  <1>2. opened \in SUBSET [inst : Instruments, from : Nat]
    BY DEF TypeOK, Membership
  <1>3. saved \in Saved /\ saved.symbols = symbols
    BY DEF TypeOK, Saved
  <1>4. 1 \in Instruments
    BY DEF Instruments
  <1> HIDE DEF opened, saved
  <1>5. txn' \in Txn /\ txn'.saved = saved
    <2>1. txn' = [stage |-> "resolve", universe |-> u, file |-> f, n |-> 1, eff |-> d,
                  inst |-> 1, isNew |-> FALSE, empty |-> Events(u) = {}, handled |-> {},
                  open |-> opened, saved |-> saved]
      BY DEF Begin, opened, saved
    <2>2. (Events(u) = {}) \in BOOLEAN
      OBVIOUS
    <2> HIDE DEF Events
    <2> QED
      BY <1>1, <1>2, <1>3, <1>4, <2>1, <2>2 DEF Txn, Stages
  <1> QED
    BY <1>3, <1>5

LEMMA BeginStep ==
    ASSUME Inv, NEW u \in Universes, NEW f \in Files, NEW d \in Dates, Begin(u, f, d)
    PROVE  Inv'
  <1> USE DEF Inv
  <1>1. txn' \in Txn /\ txn'.saved.symbols = symbols
    BY BeginType
  <1>2. UNCHANGED <<symbols, statuses, members, changes, request>>
    BY DEF Begin, tables
  <1>3. Identity(symbols') /\ Identity(txn'.saved.symbols)
    BY <1>1, <1>2
  <1> QED
    BY <1>1, <1>2, <1>3 DEF TypeOK

\* A command is one event of one instrument.
LEMMA CommandStep ==
    ASSUME Inv, NEW c, Command(c), Identity(symbols'), statuses' \subseteq StatusRow
    PROVE  Inv'
  BY DEF Inv, Command, TypeOK, Identity

LEMMA RenameCommandStep ==
    ASSUME Inv, NEW t \in Tickers, NEW new \in Tickers, NEW d \in Dates,
           InstrumentRename(t, new, d)
    PROVE  Inv'
  <1>1. PICK r \in symbols : Renames(r, new, d) /\ Rename(r, new, None, d)
    BY DEF InstrumentRename, Newest, TickerOn, OfTicker
  <1>2. Identity(symbols')
    BY <1>1, RenameKeepsIdentity DEF Dates, Inv
  <1> QED
    BY <1>2, CommandStep DEF InstrumentRename, Inv, TypeOK

LEMMA ExchangeCommandStep ==
    ASSUME Inv, NEW t \in Tickers, NEW ex \in Exchanges, NEW d \in Dates,
           InstrumentExchange(t, ex, d)
    PROVE  Inv'
  <1>1. PICK s \in symbols : \/ SetsExchange(s) /\ SetExchange(s, ex)
                             \/ MovesExchange(s, ex, d) /\ MoveExchange(s, ex, d)
    BY DEF InstrumentExchange, Newest, SymbolOn
  <1>2. Identity(symbols')
    BY <1>1, SetKeepsIdentity, MoveKeepsIdentity DEF Dates, Inv
  <1> QED
    BY <1>2, CommandStep DEF InstrumentExchange, Inv, TypeOK

LEMMA StatusCommandStep ==
    ASSUME Inv, NEW t \in Tickers, NEW want \in STATUSES, NEW d \in Dates,
           InstrumentStatus(t, want, d)
    PROVE  Inv'
  <1>1. PICK r \in symbols : \/ Resume(r.inst, d) /\ UNCHANGED symbols
                             \/ Suspend(r.inst, d) /\ UNCHANGED symbols
                             \/ Delists(r.inst, d) /\ Delist(r.inst, d)
    <2>1. Named(t, d) \subseteq symbols
      BY DEF Named, Newest, TickerOn, OfTicker
    <2> QED
      BY <2>1 DEF InstrumentStatus
  <1>2. r.inst \in Instruments /\ d \in Nat
    BY DEF Inv, Identity, SymbolRow, Dates
  <1>3. Identity(symbols') /\ statuses' \subseteq StatusRow
    BY <1>1, <1>2, DelistKeepsIdentity, StatusType DEF Inv
  <1> QED
    BY <1>3, CommandStep DEF InstrumentStatus

LEMMA InvHolds == Spec => []Inv
  <1>1. Init => Inv
    BY DEF Init, Inv, TypeOK, Identity
  <1>2. Inv /\ [Next]_vars => Inv'
    <2> SUFFICES ASSUME Inv, [Next]_vars PROVE Inv'
      OBVIOUS
    <2>1. CASE UNCHANGED vars
      BY <2>1 DEF Inv, TypeOK, Identity, vars, tables
    <2>2. CASE \E u \in Universes, f \in Files, d \in Dates : Begin(u, f, d)
      BY <2>2, BeginStep
    <2>3. CASE Resolve \/ Exchange \/ Status \/ Member \/ Commit \/ Abort
      BY <2>3, ResolveStep, ExchangeStep, StatusStep, MemberStep, EndStep
    <2>4. CASE \E old, new \in Tickers, d \in Dates : InstrumentRename(old, new, d)
      BY <2>4, RenameCommandStep
    <2>5. CASE \E t \in Tickers, ex \in Exchanges, d \in Dates : InstrumentExchange(t, ex, d)
      BY <2>5, ExchangeCommandStep
    <2>6. CASE \E t \in Tickers, want \in STATUSES, d \in Dates : InstrumentStatus(t, want, d)
      BY <2>6, StatusCommandStep
    <2> QED
      BY <2>1, <2>2, <2>3, <2>4, <2>5, <2>6 DEF Next
  <1> QED
    BY <1>1, <1>2, PTL DEF Spec

\* Every reachable state is well typed.
THEOREM TypeCorrect == Spec => []TypeOK
  BY InvHolds, PTL DEF Inv

\* Through any renames, swaps, delistings and rolled-back snapshots a ticker names
\* one instrument on any date (check_integrity).
THEOREM TickersAreUniqueAlways == Spec => []TickersAreUnique
  <1>1. Inv => TickersAreUnique
    BY DEF Inv, Identity, TickersAreUnique
  <1> QED
    BY <1>1, InvHolds, PTL

\* ... and an instrument has one ticker (check_integrity).
THEOREM SymbolsAreDisjointAlways == Spec => []SymbolsAreDisjoint
  <1>1. Inv => SymbolsAreDisjoint
    BY DEF Inv, Identity, SymbolsAreDisjoint
  <1> QED
    BY <1>1, InvHolds, PTL

\* Together: tickers and instruments stay one to one on every date.
THEOREM IdentitiesAreSoundAlways == Spec => []IdentitiesAreSound
  BY TypeCorrect, TickersAreUniqueAlways, SymbolsAreDisjointAlways, PTL DEF IdentitiesAreSound

-----------------------------------------------------------------------------
(* Delisting is terminal *)

\* What set_status leaves behind: a delisting stands open and alone, it comes after every
\* ticker of its instrument, and only a delisted instrument has no open ticker.
DelistedIn(sts, i) == \E r \in sts : r.inst = i /\ r.status = "delisted"
Terminal(syms, sts) ==
    /\ \A r \in sts : r.status = "delisted" =>
          /\ r.to = Forever
          /\ \A q \in sts : q.inst = r.inst /\ q.to = Forever => q.status = "delisted"
          /\ \A s \in syms : s.inst = r.inst => s.to # Forever /\ s.to <= r.from
          /\ \E s \in syms : s.inst = r.inst
    /\ \A s \in syms : \/ \E o \in syms : o.inst = s.inst /\ o.to = Forever
                       \/ DelistedIn(sts, s.inst)

TerminalInv ==
    /\ Terminal(symbols, statuses)
    /\ txn # None => /\ Terminal(txn.saved.symbols, txn.saved.statuses)
                     /\ txn.stage # "resolve" => txn.inst \in Used

\* An instrument with an open ticker is not delisted: its rows may change.
LEMMA OpenStaysOpen ==
    ASSUME Terminal(symbols, statuses), NEW r \in symbols, r.to = Forever, NEW rows,
           symbols' = (symbols \ {r}) \union rows, UNCHANGED statuses,
           \A x \in rows : x.inst = r.inst, \E x \in rows : x.to = Forever
    PROVE  Terminal(symbols', statuses')
  <1>1. ~DelistedIn(statuses, r.inst)
    BY DEF Terminal, DelistedIn
  <1>2. PICK x \in rows : x.to = Forever
    OBVIOUS
  <1>3. ASSUME NEW q \in statuses', q.status = "delisted"
        PROVE  /\ q.to = Forever
               /\ \A t \in statuses' : t.inst = q.inst /\ t.to = Forever => t.status = "delisted"
               /\ \A s \in symbols' : s.inst = q.inst => s.to # Forever /\ s.to <= q.from
               /\ \E s \in symbols' : s.inst = q.inst
    <2>1. q.inst # r.inst
      BY <1>1, <1>3 DEF DelistedIn
    <2> QED
      BY <1>3, <2>1 DEF Terminal
  <1>4. ASSUME NEW s \in symbols'
        PROVE  \/ \E o \in symbols' : o.inst = s.inst /\ o.to = Forever
               \/ DelistedIn(statuses', s.inst)
    <2>1. CASE s.inst = r.inst
      BY <2>1, <1>2
    <2>2. CASE s.inst # r.inst
      BY <2>2 DEF Terminal, DelistedIn
    <2> QED
      BY <2>1, <2>2
  <1> QED
    BY <1>3, <1>4 DEF Terminal

LEMMA RenameIsTerminal ==
    ASSUME TypeOK, Terminal(symbols, statuses), NEW r \in symbols, NEW new, NEW ex, NEW d,
           Renames(r, new, d), Rename(r, new, ex, d), UNCHANGED statuses
    PROVE  Terminal(symbols', statuses') /\ Used' = Used
  <1> DEFINE row == [inst |-> r.inst, symbol |-> new, from |-> d, to |-> Forever,
                     exchange |-> IF ex = None THEN r.exchange ELSE ex]
  <1>1. symbols' = (symbols \ {r}) \union {Ended(r, d), row}
    BY DEF Rename
  <1>2. Ended(r, d).inst = r.inst /\ row.inst = r.inst /\ row.to = Forever
    BY DEF Ended, TypeOK, SymbolRow
  <1> HIDE DEF row
  <1>3. Used' = Used
    BY <1>1, <1>2 DEF Used
  <1>4. PICK rows : rows = {Ended(r, d), row}
    OBVIOUS
  <1>5. /\ r.to = Forever /\ symbols' = (symbols \ {r}) \union rows
        /\ (\A x \in rows : x.inst = r.inst) /\ \E x \in rows : x.to = Forever
    BY <1>1, <1>2, <1>4 DEF Renames
  <1>6. Terminal(symbols', statuses')
    BY <1>5, OpenStaysOpen
  <1> QED
    BY <1>3, <1>6

LEMMA MoveIsTerminal ==
    ASSUME TypeOK, Terminal(symbols, statuses), NEW r \in symbols, NEW ex, NEW d,
           \/ SetsExchange(r) /\ SetExchange(r, ex)
           \/ MovesExchange(r, ex, d) /\ MoveExchange(r, ex, d),
           UNCHANGED statuses
    PROVE  Terminal(symbols', statuses') /\ Used' = Used
  <1>1. r \in SymbolRow
    BY DEF TypeOK
  <1>2. CASE SetsExchange(r) /\ SetExchange(r, ex)
    <2>1. PICK row : row = [r EXCEPT !.exchange = ex]
      OBVIOUS
    <2>2. row.inst = r.inst /\ row.to = r.to
      BY <1>1, <2>1 DEF SymbolRow
    <2>3. symbols' = (symbols \ {r}) \union {row} /\ r.to = Forever
      BY <1>2, <2>1 DEF SetExchange, SetsExchange
    <2>4. Used' = Used
      BY <2>2, <2>3 DEF Used
    <2>5. PICK rows : rows = {row}
      OBVIOUS
    <2> QED
      BY <2>2, <2>3, <2>4, <2>5, OpenStaysOpen
  <1>3. CASE MovesExchange(r, ex, d) /\ MoveExchange(r, ex, d)
    <2>1. PICK row : row = [r EXCEPT !.exchange = ex, !.from = d]
      OBVIOUS
    <2>2. row.inst = r.inst /\ row.to = r.to /\ Ended(r, d).inst = r.inst
      BY <1>1, <2>1 DEF SymbolRow, Ended
    <2>3. symbols' = (symbols \ {r}) \union {Ended(r, d), row} /\ r.to = Forever
      BY <1>3, <2>1 DEF MoveExchange, MovesExchange
    <2>4. Used' = Used
      BY <2>2, <2>3 DEF Used
    <2>5. PICK rows : rows = {Ended(r, d), row}
      OBVIOUS
    <2>6. /\ symbols' = (symbols \ {r}) \union rows
          /\ (\A x \in rows : x.inst = r.inst) /\ \E x \in rows : x.to = Forever
      BY <2>2, <2>3, <2>5
    <2>7. Terminal(symbols', statuses')
      BY <2>3, <2>6, OpenStaysOpen
    <2> QED
      BY <2>4, <2>7
  <1> QED
    BY <1>2, <1>3

LEMMA ListIsTerminal ==
    ASSUME Terminal(symbols, statuses), NEW i \in Fresh, NEW row, row.inst = i, row.to = Forever,
           symbols' = symbols \union {row}, UNCHANGED statuses
    PROVE  Terminal(symbols', statuses') /\ i \in Used'
  <1>1. \A s \in symbols : s.inst # i
    BY DEF Fresh, Used
  <1>2. ~DelistedIn(statuses, i)
    BY <1>1 DEF Terminal, DelistedIn
  <1>3. i \in Used'
    BY DEF Used
  <1>4. ASSUME NEW q \in statuses', q.status = "delisted"
        PROVE  /\ q.to = Forever
               /\ \A t \in statuses' : t.inst = q.inst /\ t.to = Forever => t.status = "delisted"
               /\ \A s \in symbols' : s.inst = q.inst => s.to # Forever /\ s.to <= q.from
               /\ \E s \in symbols' : s.inst = q.inst
    <2>1. q.inst # i
      BY <1>2, <1>4 DEF DelistedIn
    <2> QED
      BY <1>4, <2>1 DEF Terminal
  <1>5. ASSUME NEW s \in symbols'
        PROVE  \/ \E o \in symbols' : o.inst = s.inst /\ o.to = Forever
               \/ DelistedIn(statuses', s.inst)
    BY DEF Terminal, DelistedIn
  <1> QED
    BY <1>3, <1>4, <1>5 DEF Terminal

\* What resume does to a row.
LEMMA EndedStatus ==
    ASSUME NEW r \in StatusRow, NEW d
    PROVE  /\ Ended(r, d).inst = r.inst /\ Ended(r, d).status = r.status
           /\ Ended(r, d).from = r.from /\ Ended(r, d).to = d
  BY DEF Ended, StatusRow

LEMMA ResumeIsTerminal ==
    ASSUME TypeOK, Terminal(symbols, statuses), NEW i, NEW d, Resumes(i, d), Resume(i, d), d # Forever,
           UNCHANGED symbols
    PROVE  Terminal(symbols', statuses')
  <1>1. statuses \subseteq StatusRow
    BY DEF TypeOK
  <1>2. \A r \in statuses : r.inst = i => r.status # "delisted"
    BY DEF Resumes, OpenStatus, Terminal
  <1>3. /\ \A r \in statuses : r.inst # i => r \in statuses'
        /\ \A r \in statuses' : r.inst # i => r \in statuses
        /\ \A r \in statuses' : r.inst = i => r.status # "delisted"
    BY <1>1, <1>2, EndedStatus DEF Resume, OpenStatus
  <1>4. \A q \in statuses' : q.status = "delisted" => q \in statuses /\ q.inst # i
    BY <1>3
  <1>5. ASSUME NEW q \in statuses', q.status = "delisted"
        PROVE  /\ q.to = Forever
               /\ \A t \in statuses' : t.inst = q.inst /\ t.to = Forever => t.status = "delisted"
               /\ \A s \in symbols' : s.inst = q.inst => s.to # Forever /\ s.to <= q.from
               /\ \E s \in symbols' : s.inst = q.inst
    BY <1>3, <1>4, <1>5 DEF Terminal
  <1>6. ASSUME NEW s \in symbols'
        PROVE  \/ \E o \in symbols' : o.inst = s.inst /\ o.to = Forever
               \/ DelistedIn(statuses', s.inst)
    BY <1>2, <1>3 DEF Terminal, DelistedIn
  <1> QED
    BY <1>5, <1>6 DEF Terminal

LEMMA SuspendIsTerminal ==
    ASSUME TypeOK, Terminal(symbols, statuses), NEW i, NEW d, Suspends(i, d), Suspend(i, d),
           UNCHANGED symbols
    PROVE  Terminal(symbols', statuses')
  <1>1. PICK row : row = [inst |-> i, status |-> "suspended", from |-> d, to |-> Forever]
    OBVIOUS
  <1>2. row.inst = i /\ row.status = "suspended" /\ row.status # "delisted"
    BY <1>1
  <1>3. statuses' = statuses \union {row}
    BY <1>1 DEF Suspend
  <1>4. \A r \in statuses : r.inst = i => r.status # "delisted"
    BY DEF Suspends, OpenStatus, Terminal
  <1>5. ASSUME NEW q \in statuses', q.status = "delisted"
        PROVE  /\ q.to = Forever
               /\ \A t \in statuses' : t.inst = q.inst /\ t.to = Forever => t.status = "delisted"
               /\ \A s \in symbols' : s.inst = q.inst => s.to # Forever /\ s.to <= q.from
               /\ \E s \in symbols' : s.inst = q.inst
    BY <1>2, <1>3, <1>4, <1>5 DEF Terminal
  <1>6. ASSUME NEW s \in symbols'
        PROVE  \/ \E o \in symbols' : o.inst = s.inst /\ o.to = Forever
               \/ DelistedIn(statuses', s.inst)
    BY <1>3 DEF Terminal, DelistedIn
  <1> QED
    BY <1>5, <1>6 DEF Terminal

LEMMA DelistIsTerminal ==
    ASSUME TypeOK, Identity(symbols), Terminal(symbols, statuses), NEW i \in Used, NEW d \in Nat,
           Delists(i, d), Delist(i, d)
    PROVE  Terminal(symbols', statuses') /\ Used' = Used
  <1>1. statuses \subseteq StatusRow /\ symbols \subseteq SymbolRow /\ d # Forever
    BY DEF TypeOK
  <1>2. \A r \in statuses : r.inst = i => r.status # "delisted"
    BY DEF Delists, OpenStatus, Terminal
  <1>3. PICK row : row = [inst |-> i, status |-> "delisted", from |-> d, to |-> Forever]
    OBVIOUS
  <1>4. row.inst = i /\ row.status = "delisted" /\ row.from = d /\ row.to = Forever
    BY <1>3
  <1>5. statuses' = (statuses \ OpenStatus(i)) \union EndSuspension(i, d) \union {row}
    BY <1>3 DEF Delist
  <1>6. /\ \A r \in statuses : r.inst # i => r \in statuses'
        /\ \A r \in statuses' : r.inst # i => r \in statuses
        /\ \A r \in statuses' : r.inst = i => r = row \/ (r.status # "delisted" /\ r.to # Forever)
    BY <1>1, <1>2, <1>4, <1>5, EndedStatus DEF OpenStatus, EndSuspension
  <1>7. \A r \in OpenSymbol(i) : /\ Ended(r, d).inst = i /\ Ended(r, d).to = d /\ r \in symbols
                                 /\ r.inst = i /\ r.to = Forever /\ r.from < d
    BY <1>1 DEF OpenSymbol, Ended, SymbolRow, Delists
  <1>8. symbols' = (symbols \ OpenSymbol(i)) \union {Ended(r, d) : r \in OpenSymbol(i)}
    BY DEF Delist
  <1>9. /\ \A s \in symbols : s.inst # i => s \in symbols'
        /\ \A s \in symbols' : s.inst # i => s \in symbols
    BY <1>7, <1>8 DEF OpenSymbol
  <1>10. \A s \in symbols' : s.inst = i => s.to # Forever /\ s.to <= d
    <2> SUFFICES ASSUME NEW s \in symbols', s.inst = i
                 PROVE  s.to # Forever /\ s.to <= d
      OBVIOUS
    <2>1. CASE \E r \in OpenSymbol(i) : s = Ended(r, d)
      BY <2>1, <1>1, <1>7
    <2>2. CASE s \in symbols \ OpenSymbol(i)
      <3>1. s.to # Forever /\ s \in symbols /\ s \in SymbolRow
        BY <2>2, <1>1 DEF OpenSymbol
      <3>2. PICK o \in symbols : o.inst = i /\ o.to = Forever
        BY <3>1, <1>2 DEF Terminal, DelistedIn
      <3>3. o \in OpenSymbol(i) /\ o \in SymbolRow
        BY <3>2, <1>1 DEF OpenSymbol
      <3>4. s.to <= o.from
        <4>1. ~Overlap(s, o) /\ s # o
          BY <3>1, <3>2 DEF Identity
        <4> QED
          BY <3>1, <3>2, <3>3, <4>1 DEF Overlap, SymbolRow
      <3>5. s.to \in Nat /\ o.from \in Nat
        BY <3>1, <3>3 DEF SymbolRow
      <3> QED
        BY <3>1, <3>3, <3>4, <3>5, <1>7
    <2> QED
      BY <2>1, <2>2, <1>8
  <1>11. Used' = Used
    <2>1. \A s \in symbols : \E x \in symbols' : x.inst = s.inst
      BY <1>7, <1>8
    <2>2. \A x \in symbols' : \E s \in symbols : x.inst = s.inst
      BY <1>7, <1>8
    <2> QED
      BY <2>1, <2>2 DEF Used
  <1>12. ASSUME NEW q \in statuses', q.status = "delisted"
         PROVE  /\ q.to = Forever
                /\ \A t \in statuses' : t.inst = q.inst /\ t.to = Forever => t.status = "delisted"
                /\ \A s \in symbols' : s.inst = q.inst => s.to # Forever /\ s.to <= q.from
                /\ \E s \in symbols' : s.inst = q.inst
    <2>1. CASE q.inst = i
      <3>1. q = row
        BY <2>1, <1>6, <1>12
      <3>2. \E s \in symbols' : s.inst = i
        BY <1>11 DEF Used
      <3> QED
        BY <3>1, <3>2, <1>4, <1>6, <1>10
    <2>2. CASE q.inst # i
      BY <2>2, <1>6, <1>9, <1>12 DEF Terminal
    <2> QED
      BY <2>1, <2>2
  <1>13. ASSUME NEW s \in symbols'
         PROVE  \/ \E o \in symbols' : o.inst = s.inst /\ o.to = Forever
                \/ DelistedIn(statuses', s.inst)
    <2>1. CASE s.inst = i
      BY <2>1, <1>4, <1>5 DEF DelistedIn
    <2>2. CASE s.inst # i
      BY <2>2, <1>6, <1>9 DEF Terminal, DelistedIn
    <2> QED
      BY <2>1, <2>2
  <1> QED
    BY <1>11, <1>12, <1>13 DEF Terminal

\* One stage of a row.
LEMMA StageIsTerminal ==
    ASSUME TerminalInv, txn # None, Terminal(symbols', statuses'), Used \subseteq Used',
           txn'.saved = txn.saved,
           \/ txn'.stage = "resolve" \/ txn'.inst \in Used'
    PROVE  TerminalInv'
  BY DEF TerminalInv

LEMMA TerminalResolve ==
    ASSUME Inv, TerminalInv, Resolve
    PROVE  TerminalInv'
  <1>1. /\ At("resolve") /\ txn \in Txn /\ txn # None /\ TypeOK /\ Terminal(symbols, statuses)
        /\ UNCHANGED statuses
    BY LineType DEF Resolve, At, Inv, TerminalInv
  <1>2. SUFFICES ASSUME NEW i, NEW isNew \in BOOLEAN, Is(i, isNew), i \in Used',
                        Terminal(symbols', statuses'), Used \subseteq Used'
                 PROVE  TerminalInv'
    <2>1. CASE \E c \in Current : Is(c.inst, FALSE) /\ UNCHANGED <<symbols, changes>>
      <3>1. PICK c \in symbols : Is(c.inst, FALSE) /\ UNCHANGED symbols
        BY <2>1 DEF Current, Newest, TickerOn, OfTicker
      <3>2. c.inst \in Used' /\ Used' = Used /\ Terminal(symbols', statuses')
        BY <1>1, <3>1 DEF Used
      <3> QED
        BY <1>2, <3>1, <3>2
    <2>2. CASE \E r \in Newest(OfTicker(Line.symbol)) :
                   Is(r.inst, FALSE) /\ UNCHANGED <<symbols, changes>>
      <3>1. PICK c \in symbols : Is(c.inst, FALSE) /\ UNCHANGED symbols
        BY <2>2 DEF Newest, OfTicker
      <3>2. c.inst \in Used' /\ Used' = Used /\ Terminal(symbols', statuses')
        BY <1>1, <3>1 DEF Used
      <3> QED
        BY <1>2, <3>1, <3>2
    <2>3. CASE \E r \in Newest(TickerOn(Line.prev, txn.eff)) :
                 /\ Renames(r, Line.symbol, txn.eff)
                 /\ Rename(r, Line.symbol, Line.exchange, txn.eff)
                 /\ Log(r.inst, "rename") /\ Is(r.inst, FALSE)
      <3>1. PICK r \in symbols : /\ Renames(r, Line.symbol, txn.eff)
                                 /\ Rename(r, Line.symbol, Line.exchange, txn.eff)
                                 /\ Is(r.inst, FALSE)
        BY <2>3 DEF Newest, TickerOn, OfTicker
      <3>2. Terminal(symbols', statuses') /\ Used' = Used
        BY <1>1, <3>1, RenameIsTerminal
      <3>3. r.inst \in Used'
        BY <3>1, <3>2 DEF Used
      <3> QED
        BY <1>2, <3>1, <3>2, <3>3
    <2>4. CASE \E i \in Fresh :
                    /\ symbols' = symbols \union {[inst |-> i, symbol |-> Line.symbol, from |-> FirstDay,
                                                   to |-> Forever, exchange |-> Line.exchange]}
                    /\ Is(i, TRUE)
      <3>1. PICK i \in Fresh :
                    /\ symbols' = symbols \union {[inst |-> i, symbol |-> Line.symbol, from |-> FirstDay,
                                                   to |-> Forever, exchange |-> Line.exchange]}
                    /\ Is(i, TRUE)
        BY <2>4
      <3>2. PICK row : row = [inst |-> i, symbol |-> Line.symbol, from |-> FirstDay,
                              to |-> Forever, exchange |-> Line.exchange]
        OBVIOUS
      <3>3. row.inst = i /\ row.to = Forever /\ symbols' = symbols \union {row}
        BY <3>1, <3>2
      <3>4. Terminal(symbols', statuses') /\ i \in Used'
        BY <1>1, <3>3, ListIsTerminal
      <3>5. Used \subseteq Used'
        BY <3>3 DEF Used
      <3> QED
        BY <1>2, <3>1, <3>4, <3>5
    <2> QED
      BY <2>1, <2>2, <2>3, <2>4 DEF Resolve
  <1>3. txn'.saved = txn.saved /\ txn'.inst = i
    BY <1>1, <1>2 DEF Is, Txn
  <1> QED
    BY <1>1, <1>2, <1>3, StageIsTerminal

LEMMA TerminalExchange ==
    ASSUME Inv, TerminalInv, Exchange
    PROVE  TerminalInv'
  <1>1. /\ At("exchange") /\ txn \in Txn /\ txn # None /\ TypeOK /\ Terminal(symbols, statuses)
        /\ UNCHANGED statuses /\ txn.inst \in Used /\ txn.eff \in Nat
    BY LineType DEF Exchange, At, Inv, TerminalInv
  <1>2. txn'.saved = txn.saved /\ txn'.inst = txn.inst
    BY <1>1 DEF Exchange, Txn
  <1>3. Terminal(symbols', statuses') /\ Used' = Used
    <2>1. CASE UNCHANGED symbols
      BY <1>1, <2>1 DEF Used
    <2>2. CASE \E r \in Listing : SetsExchange(r) /\ SetExchange(r, Line.exchange)
      <3>1. PICK r \in symbols : SetsExchange(r) /\ SetExchange(r, Line.exchange)
        BY <2>2 DEF Listing, Newest, SymbolOn
      <3> QED
        BY <1>1, <3>1, MoveIsTerminal
    <2>3. CASE \E r \in Listing : /\ MovesExchange(r, Line.exchange, txn.eff)
                                  /\ MoveExchange(r, Line.exchange, txn.eff)
      <3>1. PICK r \in symbols : /\ MovesExchange(r, Line.exchange, txn.eff)
                                 /\ MoveExchange(r, Line.exchange, txn.eff)
        BY <2>3 DEF Listing, Newest, SymbolOn
      <3> QED
        BY <1>1, <3>1, MoveIsTerminal
    <2> QED
      BY <2>1, <2>2, <2>3 DEF Exchange
  <1> QED
    BY <1>1, <1>2, <1>3, StageIsTerminal

LEMMA TerminalStatus ==
    ASSUME Inv, TerminalInv, Status
    PROVE  TerminalInv'
  <1>1. /\ At("status") /\ txn \in Txn /\ txn # None /\ TypeOK /\ Terminal(symbols, statuses)
        /\ txn.inst \in Used /\ txn.eff \in Nat /\ txn.eff # Forever /\ Identity(symbols)
    BY LineType DEF Status, At, Inv, TerminalInv
  <1>2. txn'.saved = txn.saved /\ txn'.inst = txn.inst
    BY <1>1 DEF Status, Txn
  <1>3. Terminal(symbols', statuses') /\ Used' = Used
    <2>1. CASE UNCHANGED <<symbols, statuses>>
      BY <1>1, <2>1 DEF Used
    <2>2. CASE Delists(txn.inst, txn.eff) /\ Delist(txn.inst, txn.eff)
      BY <1>1, <2>2, DelistIsTerminal
    <2>3. CASE Suspends(txn.inst, txn.eff) /\ Suspend(txn.inst, txn.eff) /\ UNCHANGED symbols
      BY <1>1, <2>3, SuspendIsTerminal DEF Used
    <2>4. CASE Resumes(txn.inst, txn.eff) /\ Resume(txn.inst, txn.eff) /\ UNCHANGED symbols
      BY <1>1, <2>4, ResumeIsTerminal DEF Used
    <2> QED
      BY <2>1, <2>2, <2>3, <2>4 DEF Status
  <1> QED
    BY <1>1, <1>2, <1>3, StageIsTerminal

LEMMA TerminalMember ==
    ASSUME Inv, TerminalInv, Member
    PROVE  TerminalInv'
  <1>1. /\ At("member") /\ txn \in Txn /\ txn # None /\ Terminal(symbols, statuses)
        /\ UNCHANGED <<symbols, statuses>>
    BY LineType DEF Member, At, Inv, TerminalInv
  <1>2. \E gone : NextLine(gone)
    BY DEF Member
  <1>3. txn'.saved = txn.saved /\ txn'.stage = "resolve"
    BY <1>1, <1>2 DEF NextLine, Txn
  <1>4. Used' = Used /\ Terminal(symbols', statuses')
    BY <1>1 DEF Used
  <1> QED
    BY <1>1, <1>3, <1>4, StageIsTerminal

LEMMA TerminalBegin ==
    ASSUME Inv, TerminalInv, NEW u, NEW f, NEW eff, Begin(u, f, eff)
    PROVE  TerminalInv'
  <1>1. UNCHANGED <<symbols, statuses>> /\ txn'.saved.symbols = symbols /\ txn'.saved.statuses = statuses
        /\ txn'.stage = "resolve"
    BY DEF Begin, tables
  <1> QED
    BY <1>1 DEF TerminalInv

LEMMA TerminalEnd ==
    ASSUME Inv, TerminalInv, Commit \/ Abort
    PROVE  TerminalInv'
  <1>1. CASE Commit
    BY <1>1 DEF Commit, TerminalInv
  <1>2. CASE Abort
    <2>1. txn # None
      BY <1>2 DEF Abort, Fails, At, AtEnd
    <2> QED
      BY <1>2, <2>1 DEF Abort, TerminalInv
  <1> QED
    BY <1>1, <1>2

LEMMA TerminalRename ==
    ASSUME Inv, TerminalInv, NEW t \in Tickers, NEW new \in Tickers, NEW d \in Dates,
           InstrumentRename(t, new, d)
    PROVE  TerminalInv'
  <1>1. PICK r \in symbols : Renames(r, new, d) /\ Rename(r, new, None, d)
    BY DEF InstrumentRename, Newest, TickerOn, OfTicker
  <1>2. UNCHANGED statuses /\ txn' = None
    BY DEF InstrumentRename, Command
  <1>3. Terminal(symbols', statuses')
    BY <1>1, <1>2, RenameIsTerminal DEF Inv, TerminalInv
  <1> QED
    BY <1>2, <1>3 DEF TerminalInv

LEMMA TerminalMove ==
    ASSUME Inv, TerminalInv, NEW t \in Tickers, NEW ex \in Exchanges, NEW d \in Dates,
           InstrumentExchange(t, ex, d)
    PROVE  TerminalInv'
  <1>1. PICK s \in symbols : \/ SetsExchange(s) /\ SetExchange(s, ex)
                             \/ MovesExchange(s, ex, d) /\ MoveExchange(s, ex, d)
    BY DEF InstrumentExchange, Newest, SymbolOn
  <1>2. UNCHANGED statuses /\ txn' = None
    BY DEF InstrumentExchange, Command
  <1>3. Terminal(symbols', statuses')
    BY <1>1, <1>2, MoveIsTerminal DEF Inv, TerminalInv
  <1> QED
    BY <1>2, <1>3 DEF TerminalInv

LEMMA TerminalSetStatus ==
    ASSUME Inv, TerminalInv, NEW t \in Tickers, NEW want \in STATUSES, NEW d \in Dates,
           InstrumentStatus(t, want, d)
    PROVE  TerminalInv'
  <1>1. /\ TypeOK /\ Terminal(symbols, statuses) /\ Identity(symbols)
        /\ d \in Nat /\ d # Forever /\ txn' = None
    BY DEF Inv, TerminalInv, InstrumentStatus, Command, Dates
  <1>2. Named(t, d) \subseteq symbols
    BY DEF Named, Newest, TickerOn, OfTicker
  <1>3. PICK r \in symbols :
           \/ Resumes(r.inst, d) /\ Resume(r.inst, d) /\ UNCHANGED symbols
           \/ Suspends(r.inst, d) /\ Suspend(r.inst, d) /\ UNCHANGED symbols
           \/ Delists(r.inst, d) /\ Delist(r.inst, d)
    BY <1>2 DEF InstrumentStatus
  <1>4. r.inst \in Used
    BY DEF Used
  <1>5. Terminal(symbols', statuses')
    BY <1>1, <1>3, <1>4, ResumeIsTerminal, SuspendIsTerminal, DelistIsTerminal
  <1> QED
    BY <1>1, <1>5 DEF TerminalInv

LEMMA TerminalHolds == Spec => []TerminalInv
  <1>1. Init => TerminalInv
    BY DEF Init, TerminalInv, Terminal
  <1>2. Inv /\ TerminalInv /\ [Next]_vars => TerminalInv'
    <2> SUFFICES ASSUME Inv, TerminalInv, [Next]_vars PROVE TerminalInv'
      OBVIOUS
    <2>1. CASE UNCHANGED vars
      BY <2>1 DEF TerminalInv, Used, vars, tables
    <2>2. CASE \E u \in Universes, f \in Files, d \in Dates : Begin(u, f, d)
      BY <2>2, TerminalBegin
    <2>3. CASE Resolve \/ Exchange \/ Status \/ Member \/ Commit \/ Abort
      BY <2>3, TerminalResolve, TerminalExchange, TerminalStatus, TerminalMember, TerminalEnd
    <2>4. CASE \E old, new \in Tickers, d \in Dates : InstrumentRename(old, new, d)
      BY <2>4, TerminalRename
    <2>5. CASE \E t \in Tickers, ex \in Exchanges, d \in Dates : InstrumentExchange(t, ex, d)
      BY <2>5, TerminalMove
    <2>6. CASE \E t \in Tickers, want \in STATUSES, d \in Dates : InstrumentStatus(t, want, d)
      BY <2>6, TerminalSetStatus
    <2> QED
      BY <2>1, <2>2, <2>3, <2>4, <2>5, <2>6 DEF Next
  <1> QED
    BY <1>1, <1>2, InvHolds, PTL DEF Spec

\* Delisting is terminal: from that date on the instrument has no ticker, through any
\* renames, exchange moves, snapshots and commands (set_status closes the open ticker).
THEOREM DelistedHasNoTickerAlways == Spec => []DelistedHasNoTicker
  <1>1. TerminalInv => DelistedHasNoTicker
    BY DEF TerminalInv, Terminal, DelistedHasNoTicker
  <1> QED
    BY <1>1, TerminalHolds, PTL

-----------------------------------------------------------------------------
(* History is not rewritten *)

\* What the tables say of an instrument on a day.
NamesIn(rows, i, d) == {r.symbol : r \in {s \in rows : s.inst = i /\ Valid(s, d)}}
StatusesIn(rows, i, d) == {r.status : r \in {s \in rows : s.inst = i /\ Valid(s, d)}}
UniversesIn(rows, i, d) ==
    {u \in Universes : \E m \in rows : m.universe = u /\ m.inst = i /\ Valid(m, d)}

SameDay(t, i, d) ==
    /\ NamesIn(symbols, i, d) = NamesIn(t.symbols, i, d)
    /\ StatusesIn(statuses, i, d) = StatusesIn(t.statuses, i, d)
    /\ UniversesIn(members, i, d) = UniversesIn(t.members, i, d)

\* uq_membership: one row for a universe, an instrument and a first day.
OneKey(rows) == \A m, n \in rows : m.universe = n.universe /\ m.inst = n.inst /\ m.from = n.from => m = n

\* During a transaction: a row read as open is open or closed by this very snapshot, no
\* instrument is lost, and the days before the effective date read as they did at the start.
Standing ==
    /\ \A m \in Members(txn.open) : m.to \in {Forever, txn.eff}
    /\ \A s \in txn.saved.symbols : s.inst \in Used
    /\ OneKey(txn.saved.members)
    /\ ~txn.empty => \A s \in txn.saved.symbols : \A d \in Floor..(txn.eff - 1) :
                        SameDay(txn.saved, s.inst, d)
HistoryInv == OneKey(members) /\ (txn # None => Standing)

\* Rows that can be cut on day D.
Dateable(rows, D) ==
    \A r \in rows : /\ r.from \in Nat /\ r.to \in Nat \union {Forever}
                    /\ Ended(r, D).from = r.from /\ Ended(r, D).to = D

\* Some open rows are ended on day D, kept or not, and rows are opened from D on.
CutsOff(rows, after, cut, kept, new, D) ==
    /\ cut \subseteq rows /\ kept \subseteq cut
    /\ \A r \in cut : r.to \in {Forever, D} /\ (r \notin kept => r.from >= D)
    /\ \A x \in new : x.from \in Nat /\ x.from >= D
    /\ after = (rows \ cut) \union {Ended(r, D) : r \in kept} \union new

\* A row of one is a row of the other, ended on D or not.
Stands(rows, after, D, d) ==
    /\ \A s \in rows : Valid(s, d) => \E x \in after : Valid(x, d) /\ (x = s \/ x = Ended(s, D))
    /\ \A x \in after : Valid(x, d) => \E s \in rows : Valid(s, d) /\ (x = s \/ x = Ended(s, D))

\* That leaves the days before as they were.
LEMMA CutStands ==
    ASSUME NEW rows, NEW after, NEW cut, NEW kept, NEW new, NEW D \in Nat, NEW d \in Nat, d < D,
           Dateable(rows, D), CutsOff(rows, after, cut, kept, new, D)
    PROVE  Stands(rows, after, D, d)
  <1>1. \A r \in cut : Valid(Ended(r, D), d) <=> Valid(r, d)
    <2> SUFFICES ASSUME NEW r \in cut
                 PROVE  Valid(Ended(r, D), d) <=> Valid(r, d)
      OBVIOUS
    <2>1. /\ r.from \in Nat /\ r.to \in {Forever, D}
          /\ Ended(r, D).from = r.from /\ Ended(r, D).to = D
      BY DEF Dateable, CutsOff
    <2> QED
      BY <2>1 DEF Valid
  <1>2. \A x \in new : ~Valid(x, d)
    BY DEF Valid, CutsOff
  <1>3. \A r \in cut : r \notin kept => ~Valid(r, d)
    BY DEF Valid, Dateable, CutsOff
  <1>4. ASSUME NEW s \in rows, Valid(s, d)
        PROVE  \E x \in after : Valid(x, d) /\ (x = s \/ x = Ended(s, D))
    <2>1. CASE s \notin cut
      BY <1>4, <2>1 DEF CutsOff
    <2>2. CASE s \in cut
      <3>1. s \in kept
        BY <1>3, <1>4, <2>2
      <3>2. Ended(s, D) \in after /\ Valid(Ended(s, D), d)
        BY <1>1, <1>4, <2>2, <3>1 DEF CutsOff
      <3> QED
        BY <3>2
    <2> QED
      BY <2>1, <2>2
  <1>5. ASSUME NEW x \in after, Valid(x, d)
        PROVE  \E s \in rows : Valid(s, d) /\ (x = s \/ x = Ended(s, D))
    BY <1>1, <1>2, <1>5 DEF CutsOff
  <1> QED
    BY <1>4, <1>5 DEF Stands

LEMMA NamesStand ==
    ASSUME NEW rows, NEW after, NEW D, NEW d, NEW i, rows \subseteq SymbolRow,
           Stands(rows, after, D, d)
    PROVE  NamesIn(after, i, d) = NamesIn(rows, i, d)
  <1>1. \A s \in rows : Ended(s, D).inst = s.inst /\ Ended(s, D).symbol = s.symbol
    BY DEF Ended, SymbolRow
  <1> QED
    BY <1>1 DEF NamesIn, Stands

LEMMA StatusesStand ==
    ASSUME NEW rows, NEW after, NEW D, NEW d, NEW i, rows \subseteq StatusRow,
           Stands(rows, after, D, d)
    PROVE  StatusesIn(after, i, d) = StatusesIn(rows, i, d)
  <1>1. \A s \in rows : Ended(s, D).inst = s.inst /\ Ended(s, D).status = s.status
    BY DEF Ended, StatusRow
  <1> QED
    BY <1>1 DEF StatusesIn, Stands

LEMMA UniversesStand ==
    ASSUME NEW rows, NEW after, NEW D, NEW d, NEW i, rows \subseteq Membership,
           Stands(rows, after, D, d)
    PROVE  UniversesIn(after, i, d) = UniversesIn(rows, i, d)
  <1>1. \A s \in rows : Ended(s, D).inst = s.inst /\ Ended(s, D).universe = s.universe
    BY DEF Ended, Membership
  <1> QED
    BY <1>1 DEF UniversesIn, Stands

LEMMA RowsAreDateable ==
    ASSUME TypeOK, NEW D
    PROVE  Dateable(symbols, D) /\ Dateable(statuses, D) /\ Dateable(members, D)
  BY DEF TypeOK, Dateable, Ended, SymbolRow, StatusRow, Membership

\* ... for each of the three tables.
LEMMA SymbolsCut ==
    ASSUME TypeOK, NEW cut, NEW kept, NEW new, NEW D \in Nat, NEW d \in Nat, d < D, NEW i,
           CutsOff(symbols, symbols', cut, kept, new, D)
    PROVE  NamesIn(symbols', i, d) = NamesIn(symbols, i, d)
  <1>1. PICK after : after = symbols'
    OBVIOUS
  <1>2. CutsOff(symbols, after, cut, kept, new, D)
    BY <1>1
  <1>3. Stands(symbols, after, D, d)
    BY <1>2, CutStands, RowsAreDateable
  <1>4. symbols \subseteq SymbolRow
    BY DEF TypeOK
  <1>5. NamesIn(after, i, d) = NamesIn(symbols, i, d)
    BY <1>3, <1>4, NamesStand
  <1> QED
    BY <1>1, <1>5

LEMMA StatusesCut ==
    ASSUME TypeOK, NEW cut, NEW kept, NEW new, NEW D \in Nat, NEW d \in Nat, d < D, NEW i,
           CutsOff(statuses, statuses', cut, kept, new, D)
    PROVE  StatusesIn(statuses', i, d) = StatusesIn(statuses, i, d)
  <1>1. PICK after : after = statuses'
    OBVIOUS
  <1>2. CutsOff(statuses, after, cut, kept, new, D)
    BY <1>1
  <1>3. Stands(statuses, after, D, d)
    BY <1>2, CutStands, RowsAreDateable
  <1>4. statuses \subseteq StatusRow
    BY DEF TypeOK
  <1>5. StatusesIn(after, i, d) = StatusesIn(statuses, i, d)
    BY <1>3, <1>4, StatusesStand
  <1> QED
    BY <1>1, <1>5

LEMMA MembersCut ==
    ASSUME TypeOK, NEW cut, NEW kept, NEW new, NEW D \in Nat, NEW d \in Nat, d < D, NEW i,
           CutsOff(members, members', cut, kept, new, D)
    PROVE  UniversesIn(members', i, d) = UniversesIn(members, i, d)
  <1>1. PICK after : after = members'
    OBVIOUS
  <1>2. CutsOff(members, after, cut, kept, new, D)
    BY <1>1
  <1>3. Stands(members, after, D, d)
    BY <1>2, CutStands, RowsAreDateable
  <1>4. members \subseteq Membership
    BY DEF TypeOK
  <1>5. UniversesIn(after, i, d) = UniversesIn(members, i, d)
    BY <1>3, <1>4, UniversesStand
  <1> QED
    BY <1>1, <1>5

-----------------------------------------------------------------------------
(* ... event by event: the day d before the date D of the event *)

LEMMA RenameStands ==
    ASSUME TypeOK, NEW r \in symbols, NEW new, NEW ex, NEW D \in Nat, NEW d \in Nat, d < D, NEW i,
           Renames(r, new, D), Rename(r, new, ex, D)
    PROVE  NamesIn(symbols', i, d) = NamesIn(symbols, i, d)
  <1>1. PICK row : row = [inst |-> r.inst, symbol |-> new, from |-> D, to |-> Forever,
                          exchange |-> IF ex = None THEN r.exchange ELSE ex]
    OBVIOUS
  <1>2. symbols' = (symbols \ {r}) \union {Ended(r, D), row}
    BY <1>1 DEF Rename
  <1>3. r.to = Forever /\ row.from = D
    BY <1>1 DEF Renames
  <1>4. CutsOff(symbols, symbols', {r}, {r}, {row}, D)
    BY <1>2, <1>3 DEF CutsOff
  <1> QED
    BY <1>4, SymbolsCut

LEMMA MoveStands ==
    ASSUME TypeOK, NEW r \in symbols, NEW ex, NEW D \in Nat, NEW d \in Nat, d < D, NEW i,
           MovesExchange(r, ex, D), MoveExchange(r, ex, D)
    PROVE  NamesIn(symbols', i, d) = NamesIn(symbols, i, d)
  <1>1. PICK row : row = [r EXCEPT !.exchange = ex, !.from = D]
    OBVIOUS
  <1>2. symbols' = (symbols \ {r}) \union {Ended(r, D), row}
    BY <1>1 DEF MoveExchange
  <1>3. r.to = Forever /\ row.from = D
    BY <1>1 DEF MovesExchange, TypeOK, SymbolRow
  <1>4. CutsOff(symbols, symbols', {r}, {r}, {row}, D)
    BY <1>2, <1>3 DEF CutsOff
  <1> QED
    BY <1>4, SymbolsCut

LEMMA SetStands ==
    ASSUME TypeOK, NEW r \in symbols, NEW ex, NEW d, NEW i, SetExchange(r, ex)
    PROVE  NamesIn(symbols', i, d) = NamesIn(symbols, i, d)
  <1>1. PICK row : row = [r EXCEPT !.exchange = ex]
    OBVIOUS
  <1>2. symbols' = (symbols \ {r}) \union {row}
    BY <1>1 DEF SetExchange
  <1>3. row.inst = r.inst /\ row.symbol = r.symbol /\ row.from = r.from /\ row.to = r.to
    BY <1>1 DEF TypeOK, SymbolRow
  <1> QED
    BY <1>2, <1>3 DEF NamesIn, Valid

LEMMA ListStands ==
    ASSUME NEW row, NEW i, row.inst # i, NEW d, symbols' = symbols \union {row}
    PROVE  NamesIn(symbols', i, d) = NamesIn(symbols, i, d)
  BY DEF NamesIn

LEMMA DelistStands ==
    ASSUME TypeOK, NEW j, NEW D \in Nat, NEW d \in Nat, d < D, NEW i,
           Delists(j, D), Delist(j, D)
    PROVE  /\ NamesIn(symbols', i, d) = NamesIn(symbols, i, d)
           /\ StatusesIn(statuses', i, d) = StatusesIn(statuses, i, d)
  <1>1. CutsOff(symbols, symbols', OpenSymbol(j), OpenSymbol(j), {}, D)
    BY DEF CutsOff, Delist, OpenSymbol
  <1>2. PICK row : row = [inst |-> j, status |-> "delisted", from |-> D, to |-> Forever]
    OBVIOUS
  <1>3. row.from = D
    BY <1>2
  <1>4. PICK kept : kept = {s \in OpenStatus(j) : s.from < D}
    OBVIOUS
  <1>5. statuses' = (statuses \ OpenStatus(j)) \union {Ended(r, D) : r \in kept} \union {row}
    BY <1>2, <1>4 DEF Delist, EndSuspension
  <1>6. \A r \in OpenStatus(j) : r.to = Forever /\ r \in statuses /\ r.from \in Nat
    BY DEF OpenStatus, TypeOK, StatusRow
  <1>7. CutsOff(statuses, statuses', OpenStatus(j), kept, {row}, D)
    BY <1>3, <1>4, <1>5, <1>6 DEF CutsOff
  <1> QED
    BY <1>1, <1>7, SymbolsCut, StatusesCut

LEMMA SuspendStands ==
    ASSUME TypeOK, NEW j, NEW D \in Nat, NEW d \in Nat, d < D, NEW i, Suspend(j, D)
    PROVE  StatusesIn(statuses', i, d) = StatusesIn(statuses, i, d)
  <1>1. PICK row : row = [inst |-> j, status |-> "suspended", from |-> D, to |-> Forever]
    OBVIOUS
  <1>2. row.from = D /\ statuses' = statuses \union {row}
    BY <1>1 DEF Suspend
  <1>3. CutsOff(statuses, statuses', {}, {}, {row}, D)
    BY <1>2 DEF CutsOff
  <1> QED
    BY <1>3, StatusesCut

LEMMA ResumeStands ==
    ASSUME TypeOK, NEW j, NEW D \in Nat, NEW d \in Nat, d < D, NEW i, Resume(j, D)
    PROVE  StatusesIn(statuses', i, d) = StatusesIn(statuses, i, d)
  <1>1. CutsOff(statuses, statuses', OpenStatus(j), OpenStatus(j), {}, D)
    BY DEF CutsOff, Resume, OpenStatus
  <1> QED
    BY <1>1, StatusesCut

-----------------------------------------------------------------------------
(* ... stage by stage *)

DayKept(i, d) ==
    /\ NamesIn(symbols', i, d) = NamesIn(symbols, i, d)
    /\ StatusesIn(statuses', i, d) = StatusesIn(statuses, i, d)
    /\ UniversesIn(members', i, d) = UniversesIn(members, i, d)
KeepsDays == \A i \in Used : \A d \in Nat : d < txn.eff => DayKept(i, d)

LEMMA ResolveKeeps ==
    ASSUME Inv, Resolve
    PROVE  KeepsDays /\ Used \subseteq Used'
  <1>1. TypeOK /\ txn.eff \in Nat /\ UNCHANGED <<statuses, members>>
    BY LineType DEF Resolve, Inv
  <1>2. SUFFICES ASSUME Used \subseteq Used',
                        \A i \in Used : \A d \in Nat : d < txn.eff =>
                            NamesIn(symbols', i, d) = NamesIn(symbols, i, d)
                 PROVE  KeepsDays /\ Used \subseteq Used'
    <2>1. CASE UNCHANGED symbols
      BY <1>2, <2>1 DEF Used
    <2>2. CASE \E r \in Newest(TickerOn(Line.prev, txn.eff)) :
                 /\ Renames(r, Line.symbol, txn.eff)
                 /\ Rename(r, Line.symbol, Line.exchange, txn.eff)
      <3>1. PICK r \in symbols : /\ Renames(r, Line.symbol, txn.eff)
                                 /\ Rename(r, Line.symbol, Line.exchange, txn.eff)
        BY <2>2 DEF Newest, TickerOn, OfTicker
      <3>2. \A i \in Used : \A d \in Nat : d < txn.eff =>
                            NamesIn(symbols', i, d) = NamesIn(symbols, i, d)
        BY <1>1, <3>1, RenameStands
      <3>3. Ended(r, txn.eff).inst = r.inst
        BY <1>1 DEF Ended, TypeOK, SymbolRow
      <3>4. Used \subseteq Used'
        BY <3>1, <3>3 DEF Rename, Used
      <3> QED
        BY <1>2, <3>2, <3>4
    <2>3. CASE \E i \in Fresh :
                 symbols' = symbols \union {[inst |-> i, symbol |-> Line.symbol, from |-> FirstDay,
                                             to |-> Forever, exchange |-> Line.exchange]}
      <3>1. PICK i \in Fresh :
                 symbols' = symbols \union {[inst |-> i, symbol |-> Line.symbol, from |-> FirstDay,
                                             to |-> Forever, exchange |-> Line.exchange]}
        BY <2>3
      <3>2. PICK row : row = [inst |-> i, symbol |-> Line.symbol, from |-> FirstDay,
                              to |-> Forever, exchange |-> Line.exchange]
        OBVIOUS
      <3>3. row.inst \notin Used /\ symbols' = symbols \union {row}
        BY <3>1, <3>2 DEF Fresh
      <3>4. \A j \in Used : \A d \in Nat : NamesIn(symbols', j, d) = NamesIn(symbols, j, d)
        BY <3>3, ListStands
      <3>5. Used \subseteq Used'
        BY <3>3 DEF Used
      <3> QED
        BY <1>2, <3>4, <3>5
    <2> QED
      BY <2>1, <2>2, <2>3 DEF Resolve
  <1> QED
    BY <1>1, <1>2 DEF KeepsDays, DayKept

LEMMA ExchangeKeeps ==
    ASSUME Inv, Exchange
    PROVE  KeepsDays /\ Used \subseteq Used'
  <1>1. TypeOK /\ txn.eff \in Nat /\ UNCHANGED <<statuses, members>>
    BY LineType DEF Exchange, Inv
  <1>2. /\ Used \subseteq Used'
        /\ \A i \in Used : \A d \in Nat : d < txn.eff =>
               NamesIn(symbols', i, d) = NamesIn(symbols, i, d)
    <2>1. CASE UNCHANGED symbols
      BY <2>1 DEF Used
    <2>2. CASE \E r \in Listing : SetExchange(r, Line.exchange)
      <3>1. PICK r \in symbols : SetExchange(r, Line.exchange)
        BY <2>2 DEF Listing, Newest, SymbolOn
      <3>2. PICK row : row = [r EXCEPT !.exchange = Line.exchange]
        OBVIOUS
      <3>3. row.inst = r.inst
        BY <1>1, <3>2 DEF TypeOK, SymbolRow
      <3>4. Used \subseteq Used'
        BY <3>1, <3>2, <3>3 DEF SetExchange, Used
      <3> QED
        BY <1>1, <3>1, <3>4, SetStands
    <2>3. CASE \E r \in Listing : /\ MovesExchange(r, Line.exchange, txn.eff)
                                  /\ MoveExchange(r, Line.exchange, txn.eff)
      <3>1. PICK r \in symbols : /\ MovesExchange(r, Line.exchange, txn.eff)
                                 /\ MoveExchange(r, Line.exchange, txn.eff)
        BY <2>3 DEF Listing, Newest, SymbolOn
      <3>2. Ended(r, txn.eff).inst = r.inst
        BY <1>1 DEF Ended, TypeOK, SymbolRow
      <3>3. Used \subseteq Used'
        BY <3>1, <3>2 DEF MoveExchange, Used
      <3> QED
        BY <1>1, <3>1, <3>3, MoveStands
    <2> QED
      BY <2>1, <2>2, <2>3 DEF Exchange
  <1> QED
    BY <1>1, <1>2 DEF KeepsDays, DayKept

LEMMA StatusKeeps ==
    ASSUME Inv, Status
    PROVE  KeepsDays /\ Used \subseteq Used'
  <1>1. TypeOK /\ txn.eff \in Nat /\ UNCHANGED members
    BY LineType DEF Status, Inv
  <1>2. /\ Used \subseteq Used'
        /\ \A i \in Used : \A d \in Nat : d < txn.eff =>
               /\ NamesIn(symbols', i, d) = NamesIn(symbols, i, d)
               /\ StatusesIn(statuses', i, d) = StatusesIn(statuses, i, d)
    <2>1. CASE UNCHANGED <<symbols, statuses>>
      BY <2>1 DEF Used
    <2>2. CASE Delists(txn.inst, txn.eff) /\ Delist(txn.inst, txn.eff)
      <3>1. \A r \in symbols : Ended(r, txn.eff).inst = r.inst
        BY <1>1 DEF Ended, TypeOK, SymbolRow
      <3>2. \A s \in symbols : \E x \in symbols' : x.inst = s.inst
        BY <2>2, <3>1 DEF Delist
      <3>3. Used \subseteq Used'
        BY <3>2 DEF Used
      <3> QED
        BY <1>1, <2>2, <3>3, DelistStands
    <2>3. CASE Suspend(txn.inst, txn.eff) /\ UNCHANGED symbols
      BY <1>1, <2>3, SuspendStands DEF Used
    <2>4. CASE Resume(txn.inst, txn.eff) /\ UNCHANGED symbols
      BY <1>1, <2>4, ResumeStands DEF Used
    <2> QED
      BY <2>1, <2>2, <2>3, <2>4 DEF Status
  <1> QED
    BY <1>1, <1>2 DEF KeepsDays, DayKept

\* The rows of this transaction: open, or closed by it.
OpenOrClosed == \A m \in Members(txn.open) : m.to \in {Forever, txn.eff}

\* A weight that changes in place keeps the period.
Reweighed(rows, w) ==
    members' = (members \ rows) \union {[m EXCEPT !.weight = w] : m \in rows}

LEMMA WeightStands ==
    ASSUME TypeOK, NEW rows \in SUBSET members, NEW w, Reweighed(rows, w), NEW d, NEW i
    PROVE  UniversesIn(members', i, d) = UniversesIn(members, i, d)
  <1>1. \A m \in rows : /\ [m EXCEPT !.weight = w].universe = m.universe
                        /\ [m EXCEPT !.weight = w].inst = m.inst
                        /\ [m EXCEPT !.weight = w].from = m.from
                        /\ [m EXCEPT !.weight = w].to = m.to
    BY DEF TypeOK, Membership
  <1>2. \A m \in members : \E x \in members' : /\ x.universe = m.universe /\ x.inst = m.inst
                                               /\ x.from = m.from /\ x.to = m.to
    BY <1>1 DEF Reweighed
  <1>3. \A x \in members' : \E m \in members : /\ x.universe = m.universe /\ x.inst = m.inst
                                               /\ x.from = m.from /\ x.to = m.to
    <2> SUFFICES ASSUME NEW x \in members'
                 PROVE  \E m \in members : /\ x.universe = m.universe /\ x.inst = m.inst
                                           /\ x.from = m.from /\ x.to = m.to
      OBVIOUS
    <2>1. CASE x \in members \ rows
      BY <2>1
    <2>2. CASE \E m \in rows : x = [m EXCEPT !.weight = w]
      <3>1. PICK m \in rows : x = [m EXCEPT !.weight = w]
        BY <2>2
      <3> QED
        BY <1>1, <3>1
    <2> QED
      BY <2>1, <2>2 DEF Reweighed
  <1>4. ASSUME NEW u \in Universes
        PROVE  (\E m \in members' : m.universe = u /\ m.inst = i /\ Valid(m, d))
               <=> \E m \in members : m.universe = u /\ m.inst = i /\ Valid(m, d)
    <2>1. ASSUME NEW x \in members', x.universe = u, x.inst = i, Valid(x, d)
          PROVE  \E m \in members : m.universe = u /\ m.inst = i /\ Valid(m, d)
      <3>1. PICK m \in members : /\ x.universe = m.universe /\ x.inst = m.inst
                                /\ x.from = m.from /\ x.to = m.to
        BY <1>3
      <3>2. Valid(m, d)
        BY <2>1, <3>1 DEF Valid
      <3> QED
        BY <2>1, <3>1, <3>2
    <2>2. ASSUME NEW m \in members, m.universe = u, m.inst = i, Valid(m, d)
          PROVE  \E x \in members' : x.universe = u /\ x.inst = i /\ Valid(x, d)
      <3>1. PICK x \in members' : /\ x.universe = m.universe /\ x.inst = m.inst
                                 /\ x.from = m.from /\ x.to = m.to
        BY <1>2
      <3>2. Valid(x, d)
        BY <2>2, <3>1 DEF Valid
      <3> QED
        BY <2>2, <3>1, <3>2
    <2> QED
      BY <2>1, <2>2
  <1> QED
    BY <1>4 DEF UniversesIn

LEMMA MemberKeeps ==
    ASSUME Inv, OpenOrClosed, Member, ~txn.empty
    PROVE  KeepsDays /\ Used \subseteq Used'
  <1>1. TypeOK /\ txn.eff \in Nat /\ UNCHANGED <<symbols, statuses>>
    BY LineType DEF Member, Inv
  <1>2. Mine \subseteq members /\ \A m \in Mine : m.to \in {Forever, txn.eff}
    BY DEF Mine, Members, OpenOrClosed
  <1>3. \A i \in Used : \A d \in Nat : d < txn.eff =>
               UniversesIn(members', i, d) = UniversesIn(members, i, d)
    <2>1. CASE UNCHANGED members
      BY <2>1
    <2>2. CASE members' = (members \ Mine) \union Closed(Mine)
      <3>1. CutsOff(members, members', Mine, Mine, {}, txn.eff)
        BY <1>2, <2>2 DEF CutsOff, Closed
      <3> QED
        BY <1>1, <3>1, MembersCut
    <2>3. CASE members' = members \union {Joined(JoinsOn)} /\ Joins
      <3>1. JoinsOn = txn.eff
        BY <2>3 DEF Joins, Backfillable
      <3>2. Joined(JoinsOn).from = txn.eff
        BY <3>1 DEF Joined
      <3>3. CutsOff(members, members', {}, {}, {Joined(JoinsOn)}, txn.eff)
        BY <1>1, <2>3, <3>2 DEF CutsOff
      <3> QED
        BY <1>1, <3>3, MembersCut
    <2>4. CASE members' = (members \ Mine) \union {[m EXCEPT !.weight = Line.weight] : m \in Mine}
      <3>1. PICK w : w = Line.weight
        OBVIOUS
      <3>2. PICK rows \in SUBSET members : rows = Mine
        BY <1>2
      <3>3. Reweighed(rows, w)
        BY <2>4, <3>1, <3>2 DEF Reweighed
      <3> QED
        BY <1>1, <3>3, WeightStands
    <2>5. CASE members' = (members \ Mine) \union Closed(Mine) \union {Joined(txn.eff)}
      <3>1. Joined(txn.eff).from = txn.eff
        BY DEF Joined
      <3>2. CutsOff(members, members', Mine, Mine, {Joined(txn.eff)}, txn.eff)
        BY <1>1, <1>2, <2>5, <3>1 DEF CutsOff, Closed
      <3> QED
        BY <1>1, <3>2, MembersCut
    <2> QED
      BY <2>1, <2>2, <2>3, <2>4, <2>5 DEF Member
  <1> QED
    BY <1>1, <1>3 DEF KeepsDays, DayKept, Used

LEMMA CommitKeeps ==
    ASSUME Inv, OpenOrClosed, Commit
    PROVE  KeepsDays /\ Used \subseteq Used'
  <1>1. TypeOK /\ txn.eff \in Nat /\ UNCHANGED <<symbols, statuses>>
    <2>1. txn \in Txn
      BY DEF Inv, TypeOK, Commit, AtEnd
    <2> QED
      BY <2>1 DEF Commit, Inv, Txn
  <1>2. Absent \subseteq members /\ \A m \in Absent : m.to \in {Forever, txn.eff}
    BY DEF Absent, Gone, Members, OpenOrClosed
  <1>3. CutsOff(members, members', Absent, Absent, {}, txn.eff)
    BY <1>2 DEF CutsOff, Closed, Commit
  <1>4. \A i \in Used : \A d \in Nat : d < txn.eff =>
               UniversesIn(members', i, d) = UniversesIn(members, i, d)
    BY <1>1, <1>3, MembersCut
  <1> QED
    BY <1>1, <1>4 DEF KeepsDays, DayKept, Used

-----------------------------------------------------------------------------
(* ... one row for a universe, an instrument and a first day *)

SameKey(m, n) == m.universe = n.universe /\ m.inst = n.inst /\ m.from = n.from

\* Rows changed one for one, their keys kept.
LEMMA ChangedKeepKeys ==
    ASSUME NEW before, NEW after, OneKey(before),
           \A x \in after : \E m \in before : SameKey(x, m),
           \A x, y \in after : \A m \in before : SameKey(x, m) /\ SameKey(y, m) => x = y
    PROVE  OneKey(after)
  <1> SUFFICES ASSUME NEW x \in after, NEW y \in after, SameKey(x, y)
               PROVE  x = y
    BY DEF OneKey, SameKey
  <1>1. PICK m \in before : SameKey(x, m)
    OBVIOUS
  <1>2. SameKey(y, m)
    BY <1>1 DEF SameKey
  <1> QED
    BY <1>1, <1>2

LEMMA ClosedKeepKeys ==
    ASSUME TypeOK, OneKey(members), NEW rows \in SUBSET members
    PROVE  /\ OneKey((members \ rows) \union Closed(rows))
           /\ \A x \in (members \ rows) \union Closed(rows) : \E m \in members : SameKey(x, m)
  <1>1. PICK D : D = txn.eff
    OBVIOUS
  <1>2. \A m \in members : Ended(m, D).universe = m.universe /\ Ended(m, D).inst = m.inst
                           /\ Ended(m, D).from = m.from
    BY DEF TypeOK, Membership, Ended
  <1>3. PICK after : after = (members \ rows) \union {Ended(m, D) : m \in rows}
    OBVIOUS
  <1>4. ASSUME NEW x \in after
        PROVE  \/ x \in members \ rows
               \/ \E m \in rows : x = Ended(m, D)
    BY <1>3
  <1>5. \A x \in after : \E m \in members : SameKey(x, m)
    BY <1>2, <1>4 DEF SameKey
  <1>6. ASSUME NEW x \in after, NEW y \in after, NEW m \in members, SameKey(x, m), SameKey(y, m)
        PROVE  x = y
    <2>1. ASSUME NEW z \in after, SameKey(z, m)
          PROVE  z = IF m \in rows THEN Ended(m, D) ELSE m
      <3>1. CASE z \in members \ rows
        <4>1. z = m
          BY <2>1, <3>1 DEF OneKey, SameKey
        <4> QED
          BY <3>1, <4>1
      <3>2. CASE \E n \in rows : z = Ended(n, D)
        <4>1. PICK n \in rows : z = Ended(n, D)
          BY <3>2
        <4>2. SameKey(n, m)
          BY <1>2, <2>1, <4>1 DEF SameKey
        <4>3. n = m
          BY <4>2 DEF OneKey, SameKey
        <4> QED
          BY <4>1, <4>3
      <3> QED
        BY <1>4, <3>1, <3>2
    <2> QED
      BY <1>6, <2>1
  <1>7. OneKey(after)
    BY <1>5, <1>6, ChangedKeepKeys
  <1> QED
    BY <1>1, <1>3, <1>5, <1>7 DEF Closed

LEMMA JoinedKeepsKeys ==
    ASSUME NEW rows, OneKey(rows), NEW row, \A m \in rows : ~SameKey(m, row)
    PROVE  OneKey(rows \union {row})
  BY DEF OneKey, SameKey

LEMMA ReweighedKeepsKeys ==
    ASSUME TypeOK, OneKey(members), NEW rows \in SUBSET members, NEW w, Reweighed(rows, w)
    PROVE  OneKey(members')
  <1>1. \A m \in members : /\ [m EXCEPT !.weight = w].universe = m.universe
                           /\ [m EXCEPT !.weight = w].inst = m.inst
                           /\ [m EXCEPT !.weight = w].from = m.from
    BY DEF TypeOK, Membership
  <1>2. PICK after : after = members'
    OBVIOUS
  <1>3. ASSUME NEW x \in after
        PROVE  \/ x \in members \ rows
               \/ \E m \in rows : x = [m EXCEPT !.weight = w]
    BY <1>2 DEF Reweighed
  <1>4. \A x \in after : \E m \in members : SameKey(x, m)
    <2> SUFFICES ASSUME NEW x \in after
                 PROVE  \E m \in members : SameKey(x, m)
      OBVIOUS
    <2>1. CASE x \in members \ rows
      BY <2>1 DEF SameKey
    <2>2. CASE \E m \in rows : x = [m EXCEPT !.weight = w]
      BY <1>1, <2>2 DEF SameKey
    <2> QED
      BY <1>3, <2>1, <2>2
  <1>5. ASSUME NEW x \in after, NEW y \in after, NEW m \in members, SameKey(x, m), SameKey(y, m)
        PROVE  x = y
    <2>1. ASSUME NEW z \in after, SameKey(z, m)
          PROVE  z = IF m \in rows THEN [m EXCEPT !.weight = w] ELSE m
      <3>1. CASE z \in members \ rows
        <4>1. z = m
          BY <2>1, <3>1 DEF OneKey, SameKey
        <4> QED
          BY <3>1, <4>1
      <3>2. CASE \E n \in rows : z = [n EXCEPT !.weight = w]
        <4>1. PICK n \in rows : z = [n EXCEPT !.weight = w]
          BY <3>2
        <4>2. SameKey(n, m)
          BY <1>1, <2>1, <4>1 DEF SameKey
        <4>3. n = m
          BY <4>2 DEF OneKey, SameKey
        <4> QED
          BY <4>1, <4>3
      <3> QED
        BY <1>3, <3>1, <3>2
    <2> QED
      BY <1>5, <2>1
  <1>6. OneKey(after)
    BY <1>4, <1>5, ChangedKeepKeys
  <1> QED
    BY <1>2, <1>6

LEMMA MemberKeepsKeys ==
    ASSUME Inv, OneKey(members), OpenOrClosed, Member
    PROVE  OneKey(members') /\ OpenOrClosed'
  <1>1. TypeOK /\ txn \in Txn /\ txn.eff \in Nat /\ members \subseteq Membership
    BY LineType DEF Member, Inv, TypeOK
  <1>2. PICK gone : NextLine(gone)
    BY DEF Member
  <1>3. txn'.universe = txn.universe /\ txn'.eff = txn.eff /\ txn'.open \subseteq txn.open
    BY <1>1, <1>2 DEF NextLine, Txn
  <1>4. PICK D : D = txn.eff
    OBVIOUS
  <1>5. Mine \in SUBSET members /\ \A m \in Mine : m.to \in {Forever, D}
    BY <1>4 DEF Mine, Members, OpenOrClosed
  <1>6. \A m \in Mine : Ended(m, D).to = D
    BY <1>1, <1>5 DEF Ended, Membership
  <1>7. /\ \A m \in members : m \in Members(txn.open) => m.to \in {Forever, D}
        /\ \A x : Joined(x).to = Forever /\ Joined(x).from = x
                  /\ Joined(x).universe = txn.universe /\ Joined(x).inst = txn.inst
    BY <1>4 DEF OpenOrClosed, Joined
  <1>8. SUFFICES ASSUME OneKey(members'),
                        \A x \in members' : x \in members \/ x.to \in {Forever, D}
                 PROVE  OneKey(members') /\ OpenOrClosed'
    <2>1. CASE UNCHANGED members
      BY <1>8, <2>1
    <2>2. CASE members' = (members \ Mine) \union Closed(Mine)
      <3>1. OneKey(members')
        BY <1>1, <1>5, <2>2, ClosedKeepKeys
      <3> QED
        BY <1>4, <1>6, <1>8, <2>2, <3>1 DEF Closed
    <2>3. CASE members' = members \union {Joined(JoinsOn)} /\ CanJoin(JoinsOn)
      <3>1. \A m \in members : ~SameKey(m, Joined(JoinsOn))
        BY <1>7, <2>3 DEF CanJoin, SameKey
      <3>2. PICK row : row = Joined(JoinsOn)
        OBVIOUS
      <3>3. OneKey(members')
        BY <2>3, <3>1, <3>2, JoinedKeepsKeys
      <3> QED
        BY <1>7, <1>8, <2>3, <3>3
    <2>4. CASE members' = (members \ Mine) \union {[m EXCEPT !.weight = Line.weight] : m \in Mine}
      <3>1. PICK w : w = Line.weight
        OBVIOUS
      <3>2. PICK rows \in SUBSET members : rows = Mine
        BY <1>5
      <3>3. Reweighed(rows, w)
        BY <2>4, <3>1, <3>2 DEF Reweighed
      <3>4. OneKey(members')
        BY <1>1, <3>3, ReweighedKeepsKeys
      <3>5. \A m \in rows : [m EXCEPT !.weight = w].to = m.to
        BY <1>1 DEF Membership
      <3>6. \A x \in members' : x \in members \/ x.to \in {Forever, D}
        BY <1>5, <3>2, <3>3, <3>5 DEF Reweighed
      <3> QED
        BY <1>8, <3>4, <3>6
    <2>5. CASE /\ members' = (members \ Mine) \union Closed(Mine) \union {Joined(txn.eff)}
               /\ CanJoin(txn.eff)
      <3>1. PICK rows : rows = (members \ Mine) \union Closed(Mine)
        OBVIOUS
      <3>2. OneKey(rows) /\ \A x \in rows : \E m \in members : SameKey(x, m)
        BY <1>1, <1>5, <3>1, ClosedKeepKeys
      <3>3. \A m \in members : ~SameKey(m, Joined(txn.eff))
        BY <1>7, <2>5 DEF CanJoin, SameKey
      <3>4. \A m \in rows : ~SameKey(m, Joined(txn.eff))
        BY <3>2, <3>3 DEF SameKey
      <3>5. PICK row : row = Joined(txn.eff)
        OBVIOUS
      <3>6. OneKey(members')
        BY <2>5, <3>1, <3>2, <3>4, <3>5, JoinedKeepsKeys
      <3> QED
        BY <1>4, <1>6, <1>7, <1>8, <2>5, <3>6 DEF Closed
    <2> QED
      BY <2>1, <2>2, <2>3, <2>4, <2>5 DEF Member, Rolls
  <1>9. \A m \in members' : m.universe = txn'.universe
            /\ (\E k \in txn'.open : k.inst = m.inst /\ k.from = m.from)
            => m.to \in {Forever, txn'.eff}
    BY <1>3, <1>4, <1>7, <1>8 DEF Members
  <1> QED
    BY <1>8, <1>9 DEF OpenOrClosed, Members

LEMMA CommitKeepsKeys ==
    ASSUME Inv, OneKey(members), Commit
    PROVE  OneKey(members')
  BY ClosedKeepKeys DEF Inv, Commit, Absent, Members

\* One stage of a row.
LEMMA StageIsStanding ==
    ASSUME Inv, HistoryInv, txn # None, Used \subseteq Used', ~txn.empty => KeepsDays,
           OneKey(members'), OpenOrClosed',
           txn'.saved = txn.saved, txn'.eff = txn.eff, txn'.empty = txn.empty
    PROVE  HistoryInv'
  <1>1. Standing /\ txn.eff \in Nat
    BY DEF HistoryInv, Inv, TypeOK, Txn
  <1>2. ASSUME ~txn.empty, NEW s \in txn.saved.symbols, NEW d \in Floor..(txn.eff - 1)
        PROVE  SameDay(txn.saved, s.inst, d)'
    <2>1. s.inst \in Used /\ d \in Nat /\ d < txn.eff /\ SameDay(txn.saved, s.inst, d)
      BY <1>1, <1>2 DEF Standing
    <2>2. DayKept(s.inst, d)
      BY <1>2, <2>1 DEF KeepsDays
    <2> QED
      BY <2>1, <2>2 DEF SameDay, DayKept
  <1>3. Standing'
    BY <1>1, <1>2 DEF Standing, OpenOrClosed
  <1> QED
    BY <1>3 DEF HistoryInv

LEMMA HistoryStage ==
    ASSUME Inv, HistoryInv, Resolve \/ Exchange \/ Status \/ Member
    PROVE  HistoryInv'
  <1>1. txn # None /\ txn \in Txn /\ Standing /\ OneKey(members) /\ OpenOrClosed
    BY LineType DEF Resolve, Exchange, Status, Member, At, Inv, HistoryInv, Standing, OpenOrClosed
  <1>2. CASE Resolve \/ Exchange \/ Status
    <2>1. UNCHANGED members
      BY <1>2 DEF Resolve, Exchange, Status
    <2>2. /\ txn'.saved = txn.saved /\ txn'.eff = txn.eff /\ txn'.empty = txn.empty
          /\ txn'.open = txn.open /\ txn'.universe = txn.universe
      <3>1. CASE Resolve
        <4>1. \E i, isNew : Is(i, isNew)
          BY <3>1 DEF Resolve
        <4> QED
          BY <1>1, <4>1 DEF Is, Txn
      <3>2. CASE Exchange
        BY <1>1, <3>2 DEF Exchange, Txn
      <3>3. CASE Status
        BY <1>1, <3>3 DEF Status, Txn
      <3> QED
        BY <1>2, <3>1, <3>2, <3>3
    <2>3. OneKey(members') /\ OpenOrClosed'
      BY <1>1, <2>1, <2>2 DEF OpenOrClosed, Members
    <2>4. KeepsDays /\ Used \subseteq Used'
      BY <1>2, ResolveKeeps, ExchangeKeeps, StatusKeeps
    <2> QED
      BY <1>1, <2>2, <2>3, <2>4, StageIsStanding
  <1>3. CASE Member
    <2>1. \E gone : NextLine(gone)
      BY <1>3 DEF Member
    <2>2. txn'.saved = txn.saved /\ txn'.eff = txn.eff /\ txn'.empty = txn.empty
      BY <1>1, <2>1 DEF NextLine, Txn
    <2>3. OneKey(members') /\ OpenOrClosed'
      BY <1>1, <1>3, MemberKeepsKeys
    <2>4. UNCHANGED symbols
      BY <1>3 DEF Member
    <2>5. Used \subseteq Used' /\ (~txn.empty => KeepsDays)
      BY <1>1, <1>3, <2>4, MemberKeeps DEF Used
    <2> QED
      BY <1>1, <2>2, <2>3, <2>5, StageIsStanding
  <1> QED
    BY <1>2, <1>3

LEMMA HistoryEnd ==
    ASSUME Inv, HistoryInv, Commit \/ Abort
    PROVE  HistoryInv'
  <1>1. CASE Commit
    BY <1>1, CommitKeepsKeys DEF Commit, HistoryInv
  <1>2. CASE Abort
    <2>1. txn # None
      BY <1>2 DEF Abort, Fails, At, AtEnd
    <2> QED
      BY <1>2, <2>1 DEF Abort, HistoryInv, Standing
  <1> QED
    BY <1>1, <1>2

LEMMA HistoryBegin ==
    ASSUME Inv, HistoryInv, NEW u \in Universes, NEW f \in Files, NEW d \in Dates, Begin(u, f, d)
    PROVE  HistoryInv'
  <1>1. /\ UNCHANGED <<symbols, statuses, members>> /\ txn'.universe = u /\ txn'.eff = d
        /\ txn'.saved.symbols = symbols /\ txn'.saved.statuses = statuses
        /\ txn'.saved.members = members
        /\ txn'.open = {[inst |-> m.inst, from |-> m.from] :
                            m \in {x \in members : x.universe = u /\ x.to = Forever}}
    BY DEF Begin, tables
  <1>2. OneKey(members)
    BY DEF HistoryInv
  <1>3. ASSUME NEW m \in members, m.universe = u,
               NEW k \in txn'.open, k.inst = m.inst, k.from = m.from
        PROVE  m.to = Forever
    <2>1. PICK n \in members : n.universe = u /\ n.to = Forever /\ k.inst = n.inst /\ k.from = n.from
      BY <1>1
    <2> QED
      BY <1>2, <1>3, <2>1 DEF OneKey
  <1>4. OpenOrClosed'
    BY <1>1, <1>3 DEF OpenOrClosed, Members
  <1>5. \A s \in txn'.saved.symbols : s.inst \in Used'
    BY <1>1 DEF Used
  <1>6. \A i, e : SameDay(txn.saved, i, e)'
    BY <1>1 DEF SameDay
  <1>7. Standing'
    BY <1>1, <1>2, <1>4, <1>5, <1>6 DEF Standing, OpenOrClosed
  <1> QED
    BY <1>1, <1>2, <1>7 DEF HistoryInv

LEMMA HistoryHolds == Spec => []HistoryInv
  <1>1. Init => HistoryInv
    BY DEF Init, HistoryInv, OneKey
  <1>2. Inv /\ HistoryInv /\ [Next]_vars => HistoryInv'
    <2> SUFFICES ASSUME Inv, HistoryInv, [Next]_vars PROVE HistoryInv'
      OBVIOUS
    <2>1. CASE UNCHANGED vars
      BY <2>1 DEF HistoryInv, Standing, Members, Used, SameDay, vars, tables
    <2>2. CASE \E u \in Universes, f \in Files, d \in Dates : Begin(u, f, d)
      BY <2>2, HistoryBegin
    <2>3. CASE Resolve \/ Exchange \/ Status \/ Member \/ Commit \/ Abort
      BY <2>3, HistoryStage, HistoryEnd
    <2>4. CASE \/ \E old, new \in Tickers, d \in Dates : InstrumentRename(old, new, d)
               \/ \E t \in Tickers, ex \in Exchanges, d \in Dates : InstrumentExchange(t, ex, d)
               \/ \E t \in Tickers, want \in STATUSES, d \in Dates : InstrumentStatus(t, want, d)
      <3>1. txn' = None /\ UNCHANGED members
        BY <2>4 DEF InstrumentRename, InstrumentExchange, InstrumentStatus, Command
      <3> QED
        BY <3>1 DEF HistoryInv
    <2> QED
      BY <2>1, <2>2, <2>3, <2>4 DEF Next
  <1> QED
    BY <1>1, <1>2, InvHolds, PTL DEF Spec

\* The lookups of a day tell what its rows tell.
LEMMA KeptIsSame ==
    ASSUME NEW i \in Instruments, NEW d, DayKept(i, d)
    PROVE  Same(i, d)
  <1>1. {r.symbol : r \in SymbolOn(i, d)}' = {r.symbol : r \in SymbolOn(i, d)}
    BY DEF DayKept, NamesIn, SymbolOn
  <1>2. StatusOn(i, d)' = StatusOn(i, d)
    <2>1. PICK old : old = {r \in statuses : r.inst = i /\ Valid(r, d)}
      OBVIOUS
    <2>2. PICK new : new = {r \in statuses' : r.inst = i /\ Valid(r, d)}
      OBVIOUS
    <2>3. {r.status : r \in new} = {r.status : r \in old}
      BY <2>1, <2>2 DEF DayKept, StatusesIn
    <2>4. StatusOn(i, d) = IF old = {} THEN {"active"} ELSE {r.status : r \in old}
      BY <2>1 DEF StatusOn
    <2>5. StatusOn(i, d)' = IF new = {} THEN {"active"} ELSE {r.status : r \in new}
      BY <2>2 DEF StatusOn
    <2>6. new = {} <=> old = {}
      <3>1. ASSUME NEW r \in new PROVE old # {}
        <4>1. r.status \in {x.status : x \in old}
          BY <2>3
        <4> QED
          BY <4>1
      <3>2. ASSUME NEW r \in old PROVE new # {}
        <4>1. r.status \in {x.status : x \in new}
          BY <2>3
        <4> QED
          BY <4>1
      <3> QED
        BY <3>1, <3>2
    <2> QED
      BY <2>3, <2>4, <2>5, <2>6
  <1>3. \A u \in Universes : (i \in MembersOn(u, d))' <=> i \in MembersOn(u, d)
    <2>1. (SymbolOn(i, d) # {})' <=> SymbolOn(i, d) # {}
      <3>1. PICK old : old = SymbolOn(i, d)
        OBVIOUS
      <3>2. PICK new : new = SymbolOn(i, d)'
        OBVIOUS
      <3>3. {r.symbol : r \in new} = {r.symbol : r \in old}
        BY <1>1, <3>1, <3>2
      <3>4. new # {} <=> old # {}
        <4>1. ASSUME NEW r \in new PROVE old # {}
          <5>1. r.symbol \in {x.symbol : x \in old}
            BY <3>3
          <5> QED
            BY <5>1
        <4>2. ASSUME NEW r \in old PROVE new # {}
          <5>1. r.symbol \in {x.symbol : x \in new}
            BY <3>3
          <5> QED
            BY <5>1
        <4> QED
          BY <4>1, <4>2
      <3> QED
        BY <3>1, <3>2, <3>4
    <2> QED
      BY <2>1 DEF DayKept, UniversesIn, MembersOn
  <1> QED
    BY <1>1, <1>2, <1>3 DEF Same

LEMMA HistoryStep ==
    ASSUME Inv, HistoryInv, [Next]_vars
    PROVE  [HistoryStands]_vars
  <1> SUFFICES ASSUME Next, txn # None, ~txn.empty, NEW i \in Used \cap Used',
                      NEW d \in Floor..(txn.eff - 1)
               PROVE  Same(i, d)
    BY DEF HistoryStands
  <1>1. Standing /\ OpenOrClosed /\ d \in Nat /\ d < txn.eff
    BY DEF HistoryInv, Standing, OpenOrClosed, Inv, TypeOK, Txn
  <1>2. i \in Instruments
    BY DEF Used, Inv, TypeOK, SymbolRow
  <1>3. CASE Resolve \/ Exchange \/ Status \/ Member \/ Commit
    <2>1. KeepsDays
      BY <1>1, <1>3, ResolveKeeps, ExchangeKeeps, StatusKeeps, MemberKeeps, CommitKeeps
    <2>2. DayKept(i, d)
      BY <1>1, <2>1 DEF KeepsDays
    <2> QED
      BY <1>2, <2>2, KeptIsSame
  <1>4. CASE Abort
    <2>1. \E s \in txn.saved.symbols : s.inst = i
      BY <1>4 DEF Abort, Used
    <2>2. SameDay(txn.saved, i, d)
      BY <1>1, <2>1 DEF Standing
    <2>3. DayKept(i, d)
      BY <1>4, <2>2 DEF Abort, SameDay, DayKept
    <2> QED
      BY <1>2, <2>3, KeptIsSame
  <1> QED
    BY <1>3, <1>4 DEF Next, Begin, InstrumentRename, InstrumentExchange, InstrumentStatus, Command

\* History is not rewritten: no stage of a snapshot, nor its rollback, changes what the days
\* before the effective date tell of an instrument that was known, its ticker, its status
\* and its memberships, once the universe has a history.
THEOREM HistoryIsNotRewrittenAlways == Spec => HistoryIsNotRewritten
  BY InvHolds, HistoryHolds, HistoryStep, PTL DEF Spec, HistoryIsNotRewritten

-----------------------------------------------------------------------------
(* Natural numbers *)

\* A non-empty set of natural numbers has a least element: the order is
\* well-founded (in the form the provers can use, without a second-order <).
LessThan == {ss \in Nat \X Nat : ss[1] < ss[2]}

LEMMA LeastOfNaturals ==
    ASSUME NEW S, S \subseteq Nat, S # {}
    PROVE  \E n \in S : \A m \in S : n <= m
  <1>1. OpToRel(<, Nat) = LessThan
    BY Zenon DEF OpToRel, LessThan
  <1>2. IsWellFoundedOn(LessThan, Nat)
    BY <1>1, NatLessThanWellFounded
  <1>3. PICK n \in S : \A m \in S : <<m, n>> \notin LessThan
    BY <1>2, WFMin, Zenon
  <1>4. ASSUME NEW m \in S PROVE n <= m
    <2>1. m \in Nat /\ n \in Nat /\ <<m, n>> \notin LessThan
      BY <1>3
    <2>2. <<m, n>> \in Nat \X Nat /\ <<m, n>>[1] = m /\ <<m, n>>[2] = n
      BY <2>1
    <2>3. ~ (m < n)
      BY <2>1, <2>2, Zenon DEF LessThan
    <2> QED
      BY <2>1, <2>3
  <1> QED
    BY <1>4

-----------------------------------------------------------------------------
(* One universe, snapshots only, tidy files: the record is consistent.     *)

\* A step of this part that needs the assumption on the constants cites it.
HIDE SnapshotAssumption

OneRecord ==
    /\ \A u, v \in Universes : u = v
    /\ Commands = {}
    /\ \A f \in Files : Tidy(f)

-----------------------------------------------------------------------------
(* A table whose rows are cut on day D *)

Proper(rows) == \A r \in rows : r.to = Forever \/ r.from < r.to
Apart(rows) == \A r, s \in rows : r.inst = s.inst => ~Overlap(r, s)
UpTo(rows, D) == \A r \in rows : r.from <= D /\ (r.to = Forever \/ r.to <= D)
Fits(rows, D) == Proper(rows) /\ Apart(rows) /\ UpTo(rows, D)

\* Rows of one instrument, each with its days.
HasDays(rows) == \A r \in rows : r.from \in Nat /\ r.to \in Nat \union {Forever}
EndsOn(rows, D) ==
    \A r \in rows : /\ Ended(r, D).inst = r.inst /\ Ended(r, D).from = r.from
                    /\ Ended(r, D).to = D

LEMMA TablesAreDated ==
    ASSUME TypeOK
    PROVE  /\ HasDays(symbols) /\ HasDays(statuses) /\ HasDays(members)
           /\ \A D : EndsOn(symbols, D) /\ EndsOn(statuses, D) /\ EndsOn(members, D)
  BY DEF TypeOK, HasDays, EndsOn, Ended, SymbolRow, StatusRow, Membership

\* On the last day of a table the rows that hold are the open ones.
LEMMA LastDay ==
    ASSUME NEW rows, NEW D \in Nat, HasDays(rows), UpTo(rows, D), NEW r \in rows
    PROVE  Valid(r, D) <=> r.to = Forever
  BY SnapshotAssumption DEF HasDays, UpTo, Valid

\* An instrument has one open row.
LEMMA OneOpen ==
    ASSUME NEW rows, Apart(rows), NEW r \in rows, NEW s \in rows, r.inst = s.inst,
           r.to = Forever, s.to = Forever
    PROVE  r = s
  BY DEF Apart, Overlap

\* Some open rows are ended or dropped on day D, and at most one is opened, of an
\* instrument that keeps no other.
CutsTo(rows, after, cut, kept, new, D) ==
    /\ cut \subseteq rows /\ kept \subseteq cut
    /\ \A r \in cut : r.to \in {Forever, D}
    /\ \A r \in kept : r.from < D
    /\ \A x, y \in new : x = y
    /\ \A x \in new : /\ x.from = D /\ x.to = Forever
                      /\ \A r \in rows \ cut : r.inst = x.inst => r.to # Forever
    /\ after = (rows \ cut) \union {Ended(r, D) : r \in kept} \union new

LEMMA CutFits ==
    ASSUME NEW rows, NEW after, NEW cut, NEW kept, NEW new, NEW D \in Nat,
           HasDays(rows), EndsOn(rows, D), Fits(rows, D), CutsTo(rows, after, cut, kept, new, D)
    PROVE  Fits(after, D)
  <1>1. D # Forever
    BY SnapshotAssumption
  <1>2. ASSUME NEW a \in after
        PROVE  \/ a \in rows \ cut
               \/ \E r \in kept : a = Ended(r, D)
               \/ a \in new
    BY DEF CutsTo
  <1>3. \A r \in kept : /\ r \in rows /\ r \in cut /\ r.to \in {Forever, D} /\ r.from \in Nat /\ r.from < D
                        /\ Ended(r, D).inst = r.inst /\ Ended(r, D).from = r.from /\ Ended(r, D).to = D
    BY DEF CutsTo, EndsOn, HasDays
  <1>4. Proper(after) /\ UpTo(after, D)
    <2> SUFFICES ASSUME NEW a \in after
                 PROVE  (a.to = Forever \/ a.from < a.to) /\ a.from <= D /\ (a.to = Forever \/ a.to <= D)
      BY DEF Proper, UpTo
    <2>1. CASE a \in rows \ cut
      BY <2>1 DEF Fits, Proper, UpTo
    <2>2. CASE \E r \in kept : a = Ended(r, D)
      BY <1>3, <2>2
    <2>3. CASE a \in new
      BY <2>3 DEF CutsTo
    <2> QED
      BY <1>2, <2>1, <2>2, <2>3
  <1>5. ASSUME NEW r \in kept, NEW s \in rows, r.inst = s.inst, Overlap(Ended(r, D), s)
        PROVE  r = s
    <2>1. SUFFICES ASSUME r # s PROVE FALSE
      OBVIOUS
    <2>2. ~Overlap(r, s)
      BY <1>3, <1>5, <2>1 DEF Fits, Apart
    <2> QED
      BY <1>1, <1>3, <1>5, <2>1, <2>2 DEF Overlap, HasDays
  <1>6. ASSUME NEW r \in kept, NEW s \in kept, r.inst = s.inst, Overlap(Ended(r, D), Ended(s, D))
        PROVE  FALSE
    <2>1. r # s /\ s \in rows
      BY <1>3, <1>6 DEF Overlap
    <2>2. ~Overlap(Ended(r, D), s)
      BY <1>5, <1>6, <2>1
    <2>3. Ended(r, D) # s
      BY <1>1, <1>3, <1>6, <2>1, <2>2 DEF Overlap, Fits, Apart
    <2> QED
      BY <1>1, <1>3, <1>6, <2>1, <2>2, <2>3 DEF Overlap, HasDays
  <1>7. ASSUME NEW x \in new, NEW a \in after, x.inst = a.inst
        PROVE  ~Overlap(x, a) /\ ~Overlap(a, x)
    <2>1. x.from = D /\ x.to = Forever
      BY DEF CutsTo
    <2>2. CASE a \in rows \ cut
      <3>1. a.to # Forever /\ a.to <= D /\ a.to \in Nat
        BY <1>7, <2>2 DEF CutsTo, Fits, UpTo, HasDays
      <3> QED
        BY <2>1, <3>1 DEF Overlap
    <2>3. CASE \E r \in kept : a = Ended(r, D)
      BY <1>1, <1>3, <2>1, <2>3 DEF Overlap
    <2>4. CASE a \in new
      BY <2>4 DEF Overlap, CutsTo
    <2> QED
      BY <1>2, <2>2, <2>3, <2>4
  <1>8. Apart(after)
    <2> SUFFICES ASSUME NEW a \in after, NEW b \in after, a.inst = b.inst
                 PROVE  ~Overlap(a, b)
      BY DEF Apart
    <2>1. CASE a \in new \/ b \in new
      BY <1>7, <2>1
    <2>2. CASE a \in rows \ cut /\ b \in rows \ cut
      BY <2>2 DEF Fits, Apart
    <2>3. CASE (\E r \in kept : a = Ended(r, D)) /\ b \in rows \ cut
      BY <1>3, <1>5, <2>3
    <2>4. CASE a \in rows \ cut /\ \E r \in kept : b = Ended(r, D)
      <3>1. ~Overlap(b, a)
        BY <1>3, <1>5, <2>4
      <3> QED
        BY <3>1 DEF Overlap
    <2>5. CASE (\E r \in kept : a = Ended(r, D)) /\ \E r \in kept : b = Ended(r, D)
      BY <1>3, <1>6, <2>5
    <2> QED
      BY <1>2, <2>1, <2>2, <2>3, <2>4, <2>5
  <1> QED
    BY <1>4, <1>8 DEF Fits

\* What a cut leaves open, and the days it writes.
LEMMA CutOpens ==
    ASSUME NEW rows, NEW after, NEW cut, NEW kept, NEW new, NEW D \in Nat,
           EndsOn(rows, D), CutsTo(rows, after, cut, kept, new, D)
    PROVE  {x \in after : x.to = Forever} = {x \in rows \ cut : x.to = Forever} \union new
  <1>1. \A r \in kept : Ended(r, D).to # Forever
    BY SnapshotAssumption DEF CutsTo, EndsOn
  <1> QED
    BY <1>1 DEF CutsTo

\* The days of a table are those it had, the first day and some new ones.
NewDays(rows, after, days) ==
    \A x \in after : /\ x.from \in days \union {Floor} \/ \E r \in rows : r.from = x.from
                     /\ x.to \in days \union {Forever} \/ \E r \in rows : r.to = x.to

LEMMA CutDays ==
    ASSUME NEW rows, NEW after, NEW cut, NEW kept, NEW new, NEW D \in Nat,
           EndsOn(rows, D), CutsTo(rows, after, cut, kept, new, D)
    PROVE  NewDays(rows, after, {D})
  <1> SUFFICES ASSUME NEW x \in after
               PROVE  /\ x.from \in {D} \union {Floor} \/ \E r \in rows : r.from = x.from
                      /\ x.to \in {D} \union {Forever} \/ \E r \in rows : r.to = x.to
    BY DEF NewDays
  <1>1. CASE x \in rows \ cut
    BY <1>1
  <1>2. CASE \E r \in kept : x = Ended(r, D)
    <2>1. PICK r \in rows : x = Ended(r, D)
      BY <1>2 DEF CutsTo
    <2> QED
      BY <2>1 DEF EndsOn
  <1>3. CASE x \in new
    BY <1>3 DEF CutsTo
  <1> QED
    BY <1>1, <1>2, <1>3 DEF CutsTo

-----------------------------------------------------------------------------
(* Who holds which ticker, as the events change it *)

HoldsIn(rows, i, t) == \E r \in rows : r.inst = i /\ r.symbol = t /\ r.to = Forever
Holds(i, t) == HoldsIn(symbols, i, t)

\* Inv and the day of the transaction, as the events need them.
OnDay(D) == D \in Nat /\ TypeOK /\ Identity(symbols) /\ UpTo(symbols, D)

LEMMA SymbolsFit ==
    ASSUME NEW D, OnDay(D)
    PROVE  /\ Fits(symbols, D) /\ HasDays(symbols) /\ EndsOn(symbols, D)
           /\ \A r, s \in symbols : (r.to = Forever /\ s.to = Forever
                                    /\ (r.inst = s.inst \/ r.symbol = s.symbol)) => r = s
  <1>1. TypeOK /\ Identity(symbols) /\ UpTo(symbols, D)
    BY DEF OnDay
  <1>2. HasDays(symbols) /\ EndsOn(symbols, D)
    BY <1>1, TablesAreDated
  <1>3. Fits(symbols, D)
    BY <1>1 DEF Fits, Proper, Apart, Identity
  <1> QED
    BY <1>1, <1>2, <1>3 DEF Identity, Overlap

LEMMA RenameHolds ==
    ASSUME NEW D, OnDay(D), NEW r \in symbols, NEW new \in Tickers, NEW ex,
           Renames(r, new, D), Rename(r, new, ex, D)
    PROVE  /\ UpTo(symbols', D) /\ NewDays(symbols, symbols', {D})
           /\ \A i, t : Holds(i, t)' <=> IF i = r.inst THEN t = new ELSE Holds(i, t)
  <1>1. PICK row : row = [inst |-> r.inst, symbol |-> new, from |-> D, to |-> Forever,
                          exchange |-> IF ex = None THEN r.exchange ELSE ex]
    OBVIOUS
  <1>2. /\ row.inst = r.inst /\ row.symbol = new /\ row.from = D /\ row.to = Forever
        /\ r.to = Forever /\ r.from < D /\ D \in Nat
    BY <1>1 DEF Renames, OnDay
  <1>3. PICK after : after = symbols'
    OBVIOUS
  <1>4. after = (symbols \ {r}) \union {Ended(r, D), row}
    BY <1>1, <1>3 DEF Rename
  <1>5. CutsTo(symbols, after, {r}, {r}, {row}, D)
    BY <1>2, <1>4, SymbolsFit DEF CutsTo
  <1>6. Fits(after, D) /\ NewDays(symbols, after, {D})
    BY <1>2, <1>5, CutFits, CutDays, SymbolsFit
  <1>7. {x \in after : x.to = Forever} = {x \in symbols \ {r} : x.to = Forever} \union {row}
    BY <1>2, <1>5, CutOpens, SymbolsFit
  <1>8. ASSUME NEW i, NEW t PROVE HoldsIn(after, i, t) <=> IF i = r.inst THEN t = new ELSE Holds(i, t)
    <2>1. \A x \in symbols \ {r} : x.to = Forever => x.inst # r.inst
      BY <1>2, SymbolsFit
    <2> QED
      BY <1>2, <1>7, <2>1 DEF HoldsIn, Holds
  <1> QED
    BY <1>3, <1>6, <1>8 DEF Holds, Fits

LEMMA MoveHolds ==
    ASSUME NEW D, OnDay(D), NEW r \in symbols, NEW ex,
           MovesExchange(r, ex, D), MoveExchange(r, ex, D)
    PROVE  /\ UpTo(symbols', D) /\ NewDays(symbols, symbols', {D})
           /\ \A i, t : Holds(i, t)' <=> Holds(i, t)
  <1>1. PICK row : row = [r EXCEPT !.exchange = ex, !.from = D]
    OBVIOUS
  <1>2. /\ row.inst = r.inst /\ row.symbol = r.symbol /\ row.from = D /\ row.to = Forever
        /\ r.to = Forever /\ r.from < D /\ D \in Nat
    BY <1>1 DEF MovesExchange, OnDay, TypeOK, SymbolRow
  <1>3. PICK after : after = symbols'
    OBVIOUS
  <1>4. after = (symbols \ {r}) \union {Ended(r, D), row}
    BY <1>1, <1>3 DEF MoveExchange
  <1>5. CutsTo(symbols, after, {r}, {r}, {row}, D)
    BY <1>2, <1>4, SymbolsFit DEF CutsTo
  <1>6. Fits(after, D) /\ NewDays(symbols, after, {D})
    BY <1>2, <1>5, CutFits, CutDays, SymbolsFit
  <1>7. {x \in after : x.to = Forever} = {x \in symbols \ {r} : x.to = Forever} \union {row}
    BY <1>2, <1>5, CutOpens, SymbolsFit
  <1>8. ASSUME NEW i, NEW t PROVE HoldsIn(after, i, t) <=> Holds(i, t)
    BY <1>2, <1>7 DEF HoldsIn, Holds
  <1> QED
    BY <1>3, <1>6, <1>8 DEF Holds, Fits

LEMMA SetHolds ==
    ASSUME NEW D, OnDay(D), NEW r \in symbols, NEW ex, SetExchange(r, ex)
    PROVE  /\ UpTo(symbols', D) /\ NewDays(symbols, symbols', {})
           /\ \A i, t : Holds(i, t)' <=> Holds(i, t)
  <1>1. PICK row : row = [r EXCEPT !.exchange = ex]
    OBVIOUS
  <1>2. /\ row.inst = r.inst /\ row.symbol = r.symbol /\ row.from = r.from /\ row.to = r.to
    BY <1>1 DEF OnDay, TypeOK, SymbolRow
  <1>3. PICK after : after = symbols'
    OBVIOUS
  <1>4. after = (symbols \ {r}) \union {row}
    BY <1>1, <1>3 DEF SetExchange
  <1>5. UpTo(after, D)
    BY <1>2, <1>4 DEF OnDay, UpTo
  <1>6. NewDays(symbols, after, {})
    BY <1>2, <1>4 DEF NewDays
  <1>7. ASSUME NEW i, NEW t PROVE HoldsIn(after, i, t) <=> Holds(i, t)
    BY <1>2, <1>4 DEF HoldsIn, Holds
  <1> QED
    BY <1>3, <1>5, <1>6, <1>7 DEF Holds

LEMMA ListHolds ==
    ASSUME NEW D, OnDay(D), Floor <= D, NEW row, row.from = Floor, row.to = Forever,
           symbols' = symbols \union {row}
    PROVE  /\ UpTo(symbols', D) /\ NewDays(symbols, symbols', {})
           /\ \A i, t : Holds(i, t)' <=> Holds(i, t) \/ (i = row.inst /\ t = row.symbol)
  <1>1. UpTo(symbols', D)
    BY DEF OnDay, UpTo
  <1>2. NewDays(symbols, symbols', {})
    BY DEF NewDays
  <1> QED
    BY <1>1, <1>2 DEF HoldsIn, Holds

LEMMA DelistHolds ==
    ASSUME NEW D, OnDay(D), NEW i, Delists(i, D), Delist(i, D)
    PROVE  /\ UpTo(symbols', D) /\ NewDays(symbols, symbols', {D})
           /\ \A j, t : Holds(j, t)' <=> j # i /\ Holds(j, t)
  <1>1. PICK after : after = symbols'
    OBVIOUS
  <1>2. PICK cut : cut = OpenSymbol(i)
    OBVIOUS
  <1>3. after = (symbols \ cut) \union {Ended(r, D) : r \in cut} \union {}
    BY <1>1, <1>2 DEF Delist
  <1>4. CutsTo(symbols, after, cut, cut, {}, D)
    BY <1>2, <1>3 DEF CutsTo, OpenSymbol, Delists
  <1>5. D \in Nat
    BY DEF OnDay
  <1>6. Fits(after, D) /\ NewDays(symbols, after, {D})
    BY <1>4, <1>5, CutFits, CutDays, SymbolsFit
  <1>7. {x \in after : x.to = Forever} = {x \in symbols \ cut : x.to = Forever} \union {}
    BY <1>4, <1>5, CutOpens, SymbolsFit
  <1>8. ASSUME NEW j, NEW t PROVE HoldsIn(after, j, t) <=> j # i /\ Holds(j, t)
    BY <1>2, <1>7 DEF HoldsIn, Holds, OpenSymbol
  <1> QED
    BY <1>1, <1>6, <1>8 DEF Holds, Fits

-----------------------------------------------------------------------------
(* The statuses, as the events change them *)

OpenIn(rows) == {x \in rows : x.to = Forever}
StatusDay(D) == D \in Nat /\ TypeOK /\ Fits(statuses, D)

LEMMA StatusesFit ==
    ASSUME NEW D, StatusDay(D)
    PROVE  /\ HasDays(statuses) /\ EndsOn(statuses, D)
           /\ \A r, s \in OpenIn(statuses) : r.inst = s.inst => r = s
  <1>1. HasDays(statuses) /\ EndsOn(statuses, D)
    BY TablesAreDated DEF StatusDay
  <1>2. \A r, s \in OpenIn(statuses) : r.inst = s.inst => r = s
    BY OneOpen DEF StatusDay, Fits, OpenIn
  <1> QED
    BY <1>1, <1>2

LEMMA ResumeFits ==
    ASSUME NEW D, StatusDay(D), NEW i, Resumes(i, D), Resume(i, D)
    PROVE  /\ Fits(statuses', D) /\ NewDays(statuses, statuses', {D})
           /\ OpenIn(statuses') = OpenIn(statuses) \ OpenStatus(i)
  <1>1. PICK after : after = statuses'
    OBVIOUS
  <1>2. PICK cut : cut = OpenStatus(i)
    OBVIOUS
  <1>3. after = (statuses \ cut) \union {Ended(r, D) : r \in cut} \union {}
    BY <1>1, <1>2 DEF Resume
  <1>4. \A r \in cut : r.from < D
    BY <1>2, StatusesFit DEF Resumes, OpenStatus, OpenIn
  <1>5. CutsTo(statuses, after, cut, cut, {}, D)
    BY <1>2, <1>3, <1>4 DEF CutsTo, OpenStatus
  <1>6. D \in Nat /\ Fits(statuses, D)
    BY DEF StatusDay
  <1>7. Fits(after, D) /\ NewDays(statuses, after, {D})
    BY <1>5, <1>6, CutFits, CutDays, StatusesFit
  <1>8. {x \in after : x.to = Forever} = {x \in statuses \ cut : x.to = Forever} \union {}
    BY <1>5, <1>6, CutOpens, StatusesFit
  <1> QED
    BY <1>1, <1>2, <1>7, <1>8 DEF OpenIn

LEMMA SuspendFits ==
    ASSUME NEW D, StatusDay(D), NEW i, Suspends(i, D), Suspend(i, D),
           NEW row, row = [inst |-> i, status |-> "suspended", from |-> D, to |-> Forever]
    PROVE  /\ Fits(statuses', D) /\ NewDays(statuses, statuses', {D})
           /\ OpenIn(statuses') = OpenIn(statuses) \union {row}
  <1>1. PICK after : after = statuses'
    OBVIOUS
  <1>2. after = (statuses \ {}) \union {Ended(r, D) : r \in {}} \union {row}
    BY <1>1 DEF Suspend
  <1>3. row.inst = i /\ row.from = D /\ row.to = Forever
    OBVIOUS
  <1>4. CutsTo(statuses, after, {}, {}, {row}, D)
    BY <1>2, <1>3 DEF CutsTo, Suspends, OpenStatus
  <1>5. D \in Nat /\ Fits(statuses, D)
    BY DEF StatusDay
  <1>6. Fits(after, D) /\ NewDays(statuses, after, {D})
    BY <1>4, <1>5, CutFits, CutDays, StatusesFit
  <1>7. {x \in after : x.to = Forever} = {x \in statuses \ {} : x.to = Forever} \union {row}
    BY <1>4, <1>5, CutOpens, StatusesFit
  <1> QED
    BY <1>1, <1>6, <1>7 DEF OpenIn

LEMMA DelistFits ==
    ASSUME NEW D, StatusDay(D), NEW i, Delists(i, D), Delist(i, D),
           NEW row, row = [inst |-> i, status |-> "delisted", from |-> D, to |-> Forever]
    PROVE  /\ Fits(statuses', D) /\ NewDays(statuses, statuses', {D})
           /\ OpenIn(statuses') = (OpenIn(statuses) \ OpenStatus(i)) \union {row}
  <1>1. PICK after : after = statuses'
    OBVIOUS
  <1>2. PICK cut : cut = OpenStatus(i)
    OBVIOUS
  <1>3. PICK kept : kept = {s \in cut : s.from < D}
    OBVIOUS
  <1>4. after = (statuses \ cut) \union {Ended(r, D) : r \in kept} \union {row}
    BY <1>1, <1>2, <1>3 DEF Delist, EndSuspension
  <1>5. row.inst = i /\ row.from = D /\ row.to = Forever
    OBVIOUS
  <1>6. CutsTo(statuses, after, cut, kept, {row}, D)
    BY <1>2, <1>3, <1>4, <1>5 DEF CutsTo, OpenStatus
  <1>7. D \in Nat /\ Fits(statuses, D)
    BY DEF StatusDay
  <1>8. Fits(after, D) /\ NewDays(statuses, after, {D})
    BY <1>6, <1>7, CutFits, CutDays, StatusesFit
  <1>9. {x \in after : x.to = Forever} = {x \in statuses \ cut : x.to = Forever} \union {row}
    BY <1>6, <1>7, CutOpens, StatusesFit
  <1> QED
    BY <1>1, <1>2, <1>8, <1>9 DEF OpenIn

\* Under Terminal a delisted instrument has one open status row, and no ticker.
LEMMA DelistedIs ==
    ASSUME NEW syms, NEW sts, Terminal(syms, sts), NEW i
    PROVE  /\ DelistedIn(sts, i) <=> \E r \in OpenIn(sts) : r.inst = i /\ r.status = "delisted"
           /\ DelistedIn(sts, i) => \A t : ~HoldsIn(syms, i, t)
           /\ DelistedIn(sts, i) => \A r \in OpenIn(sts) : r.inst = i => r.status = "delisted"
           /\ (\E r \in syms : r.inst = i) => DelistedIn(sts, i) \/ \E t : HoldsIn(syms, i, t)
  BY DEF Terminal, DelistedIn, OpenIn, HoldsIn

-----------------------------------------------------------------------------
(* What a transaction finds and leaves                                     *)

HasTicker(syms, i, d) == \E r \in syms : r.inst = i /\ Valid(r, d)
Covered(syms, mems) == \A m \in mems : \A d \in Nat : Valid(m, d) => HasTicker(syms, m.inst, d)
DaysWithin(after, mems) ==
    \A x \in after : \A d \in Nat : Valid(x, d) => \E m \in mems : m.inst = x.inst /\ Valid(m, d)
IsMember(mems, i) == \E m \in mems : m.inst = i /\ m.to = Forever

\* A day the change log has reached, or the first.
Told(chs, d) == d = Floor \/ \E c \in chs : d <= c.at
DaysTold(rows, chs) == \A r \in rows : Told(chs, r.from) /\ (r.to = Forever \/ Told(chs, r.to))

SinceOf(chs, i, action) == {c.since : c \in {x \in chs : x.inst = i /\ x.action = action}}
Audited(mems, chs) ==
    \A i \in Instruments : IsMember(mems, i) <=> \E a \in SinceOf(chs, i, "add") :
                                                    \A r \in SinceOf(chs, i, "remove") : r <= a
Logged(mems, chs) ==
    \A c \in chs : /\ c.since <= c.at
                   /\ c.action = "add" => \E m \in mems : m.inst = c.inst /\ m.from = c.since

Consistent(syms, sts, mems, chs) ==
    /\ Proper(sts) /\ Apart(sts) /\ Proper(mems) /\ Apart(mems)
    /\ DaysTold(syms, chs) /\ DaysTold(sts, chs)
    /\ Audited(mems, chs) /\ Logged(mems, chs)
Recorded(syms, sts, mems, chs) ==
    /\ Consistent(syms, sts, mems, chs)
    /\ Covered(syms, mems)

LEMMA DaysStayTold ==
    ASSUME NEW rows, NEW after, NEW days, NEW chs, NEW after_chs, chs \subseteq after_chs,
           DaysTold(rows, chs), NewDays(rows, after, days), \A d \in days : Told(after_chs, d)
    PROVE  DaysTold(after, after_chs)
  <1>1. \A d : Told(chs, d) => Told(after_chs, d)
    BY DEF Told
  <1>2. Told(after_chs, Floor)
    BY DEF Told
  <1>3. ASSUME NEW x \in after PROVE Told(after_chs, x.from)
    <2>1. CASE x.from \in days \union {Floor}
      BY <1>2, <2>1
    <2>2. CASE \E r \in rows : r.from = x.from
      BY <1>1, <2>2 DEF DaysTold
    <2> QED
      BY <2>1, <2>2 DEF NewDays
  <1>4. ASSUME NEW x \in after PROVE x.to = Forever \/ Told(after_chs, x.to)
    <2>1. CASE x.to \in days \union {Forever}
      BY <2>1
    <2>2. CASE \E r \in rows : r.to = x.to
      BY <1>1, <2>2 DEF DaysTold
    <2> QED
      BY <2>1, <2>2 DEF NewDays
  <1> QED
    BY <1>3, <1>4 DEF DaysTold

\* An event that is neither an addition nor a removal leaves the members' log as it is.
LEMMA EventIsLogged ==
    ASSUME NEW mems, NEW chs, Audited(mems, chs), Logged(mems, chs), NEW e,
           e.action \notin {"add", "remove"}, e.since <= e.at
    PROVE  Audited(mems, chs \union {e}) /\ Logged(mems, chs \union {e})
  <1>1. ASSUME NEW i, NEW action \in {"add", "remove"}
        PROVE  SinceOf(chs \union {e}, i, action) = SinceOf(chs, i, action)
    BY DEF SinceOf
  <1>2. Audited(mems, chs \union {e})
    BY <1>1 DEF Audited
  <1>3. Logged(mems, chs \union {e})
    BY DEF Logged
  <1> QED
    BY <1>2, <1>3

-----------------------------------------------------------------------------
(* ... and what holds while it works *)

\* The instrument of the row at hand, and whose membership no row has settled.
InHand == IF txn.stage = "resolve" THEN {} ELSE {txn.inst}
Unsettled(i) == i \notin txn.handled \/ i \in InHand \/ DelistedIn(statuses, i)
OpenAsRead(i) ==
    \A m \in members : m.inst = i => (m.to = Forever <=> [inst |-> i, from |-> m.from] \in txn.open)

\* The open membership of what was just delisted, which the row is about to end.
Doomed(m) ==
    /\ txn.stage = "member" /\ Line.status = "delisted"
    /\ m.inst = txn.inst /\ m.to = Forever

TablesFit ==
    /\ Consistent(symbols, statuses, members, changes)
    /\ UpTo(symbols, txn.eff) /\ UpTo(statuses, txn.eff) /\ UpTo(members, txn.eff)
    /\ \A c \in changes : c.at <= txn.eff
TickersStand ==
    \A m \in members : \A d \in Nat :
        Valid(m, d) => HasTicker(symbols, m.inst, d) \/ (Doomed(m) /\ d >= txn.eff)
ReadsStand == \A i \in Instruments : Unsettled(i) => OpenAsRead(i)
RowsHandled ==
    /\ txn.handled \subseteq Used
    /\ \A i \in txn.handled \ InHand :
           \/ DelistedIn(statuses, i)
           \/ \E k \in 1..(txn.n - 1) : txn.file[k].status # "delisted" /\ Holds(i, txn.file[k].symbol)
RowInHand ==
    txn.stage # "resolve" =>
        /\ txn.n <= Len(txn.file) /\ txn.inst \in txn.handled
        /\ Line.status # "delisted" => Holds(txn.inst, Line.symbol)
        /\ Line.status = "delisted" /\ txn.stage = "member" => DelistedIn(statuses, txn.inst)
FirstSnapshot ==
    txn.empty =>
        /\ txn.open = {}
        /\ \A m \in members : m.to = Forever
        /\ \A c \in changes : c.action # "remove"
        /\ \A i \in Instruments : (\E t : Holds(i, t)) => \A d \in Floor..txn.eff : HasTicker(symbols, i, d)

Working ==
    /\ txn.file \in Files /\ txn.eff \in Dates
    /\ TablesFit /\ TickersStand /\ ReadsStand /\ RowsHandled /\ RowInHand /\ FirstSnapshot
SyncInv ==
    /\ txn = None => Recorded(symbols, statuses, members, changes)
    /\ txn # None => /\ Working
                     /\ Recorded(txn.saved.symbols, txn.saved.statuses,
                                 txn.saved.members, txn.saved.changes)

\* What the other invariants give to a stage.
Underway == OneRecord /\ Inv /\ TerminalInv /\ txn # None /\ Working

LEMMA WorkingDay ==
    ASSUME Underway
    PROVE  /\ txn \in Txn /\ txn.eff \in Nat /\ txn.eff # Forever /\ Floor \in Nat /\ Floor <= txn.eff
           /\ OnDay(txn.eff) /\ StatusDay(txn.eff)
           /\ HasDays(members) /\ EndsOn(members, txn.eff) /\ Fits(members, txn.eff)
           /\ Terminal(symbols, statuses)
  <1>1. txn \in Txn /\ txn.eff \in Nat /\ txn.eff # Forever /\ Floor \in Nat /\ Floor <= txn.eff
    BY SnapshotAssumption DEF Underway, Inv, TypeOK, Txn, Working, Dates
  <1>2. TypeOK /\ Identity(symbols) /\ Terminal(symbols, statuses)
    BY DEF Underway, Inv, TerminalInv
  <1>3. OnDay(txn.eff) /\ StatusDay(txn.eff) /\ Fits(members, txn.eff)
    BY <1>1, <1>2 DEF OnDay, StatusDay, Underway, Working, TablesFit, Consistent, Fits
  <1> QED
    BY <1>1, <1>2, <1>3, TablesAreDated

LEMMA RowDay ==
    ASSUME Underway, NEW stage, At(stage)
    PROVE  /\ Line \in Row /\ txn.n \in 1..Len(txn.file) /\ Len(txn.file) \in Nat
           /\ txn.stage = stage /\ txn.inst \in Instruments
           /\ Tidy(txn.file) /\ txn.file \in Seq(Row) /\ txn.file \in Files
  <1>1. txn \in Txn
    BY WorkingDay
  <1>2. txn.file \in Seq(Row) /\ txn.n \in Nat \ {0} /\ txn.n <= Len(txn.file) /\ txn.stage = stage
    BY <1>1 DEF Txn, At
  <1>3. txn.file \in Files /\ Tidy(txn.file)
    BY DEF Underway, Working, OneRecord
  <1> QED
    BY <1>1, <1>2, <1>3, LineType DEF Underway, Inv

-----------------------------------------------------------------------------
(* A stage that leaves the memberships alone, part by part *)

SameTxn == /\ members' = members /\ txn' # None /\ txn'.eff = txn.eff /\ txn'.open = txn.open
           /\ txn'.empty = txn.empty /\ txn'.file = txn.file /\ txn'.saved = txn.saved
           /\ txn'.n = txn.n /\ txn'.universe = txn.universe

\* Nothing is logged and no day is new, or the event of the day is.
Logs(days) ==
    \/ days = {} /\ changes' = changes
    \/ \E e : /\ changes' = changes \union {e} /\ e.at = txn.eff /\ e.since = txn.eff
              /\ e.action \notin {"add", "remove"}

LEMMA TablesStage ==
    ASSUME Underway, SameTxn, UpTo(symbols', txn.eff), Fits(statuses', txn.eff),
           NEW days \in SUBSET {txn.eff}, NewDays(symbols, symbols', days),
           NewDays(statuses, statuses', days), Logs(days)
    PROVE  TablesFit' /\ \A c \in changes' : c \in changes \/ c.action # "remove"
  <1>1. PICK D : D = txn.eff
    OBVIOUS
  <1>2. /\ Consistent(symbols, statuses, members, changes) /\ UpTo(members, D)
        /\ \A c \in changes : c.at <= D
    BY <1>1 DEF Underway, Working, TablesFit
  <1>3. D \in Nat /\ days \subseteq {D}
    BY <1>1, WorkingDay
  <1>4. PICK syms, sts, chs : syms = symbols' /\ sts = statuses' /\ chs = changes'
    OBVIOUS
  <1>5. /\ changes \subseteq chs /\ (\A c \in chs : c.at <= D) /\ (\A d \in days : Told(chs, d))
        /\ Audited(members, chs) /\ Logged(members, chs)
        /\ \A c \in chs : c \in changes \/ c.action # "remove"
    <2>1. CASE days = {} /\ changes' = changes
      BY <1>2, <1>4, <2>1 DEF Consistent
    <2>2. ASSUME NEW e, changes' = changes \union {e}, e.at = txn.eff, e.since = txn.eff,
                 e.action \notin {"add", "remove"}
          PROVE  /\ changes \subseteq chs /\ (\A c \in chs : c.at <= D) /\ (\A d \in days : Told(chs, d))
                 /\ Audited(members, chs) /\ Logged(members, chs)
                 /\ \A c \in chs : c \in changes \/ c.action # "remove"
      <3>1. Audited(members, chs) /\ Logged(members, chs)
        BY <1>2, <1>3, <1>4, <1>1, <2>2, EventIsLogged DEF Consistent
      <3>2. \A d \in days : Told(chs, d)
        BY <1>1, <1>3, <1>4, <2>2 DEF Told
      <3> QED
        BY <1>1, <1>2, <1>3, <1>4, <2>2, <3>1, <3>2
    <2> QED
      BY <2>1, <2>2 DEF Logs
  <1>6. DaysTold(syms, chs) /\ DaysTold(sts, chs)
    BY <1>2, <1>4, <1>5, DaysStayTold DEF Consistent
  <1>7. Proper(sts) /\ Apart(sts) /\ UpTo(sts, D) /\ UpTo(syms, D)
    BY <1>1, <1>4 DEF Fits
  <1>8. Consistent(syms, sts, members, chs)
    BY <1>2, <1>5, <1>6, <1>7 DEF Consistent
  <1> QED
    BY <1>1, <1>2, <1>4, <1>5, <1>7, <1>8 DEF SameTxn, TablesFit

\* The days before stand, and from the day itself on who has an open ticker has one.
LEMMA TickerStays ==
    ASSUME Underway, KeepsDays, UpTo(symbols', txn.eff), Inv', NEW i \in Used, NEW d \in Nat,
           HasTicker(symbols, i, d), d >= txn.eff => \E t : Holds(i, t)'
    PROVE  HasTicker(symbols, i, d)'
  <1>1. txn.eff \in Nat
    BY WorkingDay
  <1>2. CASE d < txn.eff
    <2>1. NamesIn(symbols', i, d) = NamesIn(symbols, i, d)
      BY <1>2 DEF KeepsDays, DayKept
    <2> QED
      BY <2>1 DEF NamesIn, HasTicker
  <1>3. CASE d >= txn.eff
    <2>1. PICK rows : rows = symbols'
      OBVIOUS
    <2>2. HasDays(rows)
      BY <2>1, TablesAreDated DEF Inv, TypeOK, HasDays, SymbolRow
    <2>3. PICK r \in rows : r.inst = i /\ r.to = Forever
      BY <1>3, <2>1 DEF Holds, HoldsIn
    <2>4. Valid(r, d)
      BY <1>1, <1>3, <2>1, <2>2, <2>3 DEF UpTo, HasDays, Valid
    <2> QED
      BY <2>1, <2>3, <2>4 DEF HasTicker
  <1> QED
    BY <1>1, <1>2, <1>3

LEMMA TickersStage ==
    ASSUME Underway, SameTxn, KeepsDays, UpTo(symbols', txn.eff), Inv',
           Covered(symbols, members),
           \A i : (\E t : Holds(i, t)) =>
                    \/ \E t : Holds(i, t)'
                    \/ txn'.stage = "member" /\ Line'.status = "delisted" /\ i = txn'.inst
    PROVE  TickersStand'
  <1>1. /\ txn.eff \in Nat /\ txn.eff # Forever /\ HasDays(members) /\ Fits(members, txn.eff) /\ OnDay(txn.eff)
    BY WorkingDay
  <1>2. ASSUME NEW m \in members, NEW d \in Nat, Valid(m, d), ~HasTicker(symbols, m.inst, d)'
        PROVE  Doomed(m)' /\ d >= txn.eff
    <2>1. HasTicker(symbols, m.inst, d) /\ m.inst \in Used
      BY <1>2 DEF Covered, HasTicker, Used
    <2>2. d >= txn.eff /\ ~\E t : Holds(m.inst, t)'
      BY <1>2, <2>1, TickerStays
    <2>3. \E t : Holds(m.inst, t)
      <3>1. PICK r \in symbols : r.inst = m.inst /\ Valid(r, d)
        BY <2>1 DEF HasTicker
      <3>2. HasDays(symbols) /\ UpTo(symbols, txn.eff)
        BY <1>1, SymbolsFit DEF OnDay
      <3>3. r.to = Forever
        BY <1>1, <2>2, <3>1, <3>2 DEF UpTo, HasDays, Valid
      <3> QED
        BY <3>1, <3>3 DEF Holds, HoldsIn
    <2>4. m.to = Forever
      BY <1>1, <1>2, <2>2 DEF Fits, UpTo, HasDays, Valid
    <2> QED
      BY <2>2, <2>3, <2>4 DEF Doomed, SameTxn
  <1> QED
    BY <1>2 DEF TickersStand, SameTxn

LEMMA ReadsStage ==
    ASSUME Underway, SameTxn, \A i \in Instruments : Unsettled(i)' => Unsettled(i)
    PROVE  ReadsStand'
  BY DEF Underway, Working, ReadsStand, OpenAsRead, SameTxn

LEMMA FirstStage ==
    ASSUME Underway, SameTxn, KeepsDays, UpTo(symbols', txn.eff), Inv',
           \A c \in changes' : c \in changes \/ c.action # "remove",
           \A i : (\E t : Holds(i, t)') =>
                    \/ \E t : Holds(i, t)
                    \/ \E r \in symbols' : r.inst = i /\ r.from = Floor /\ r.to = Forever
    PROVE  FirstSnapshot'
  <1> SUFFICES ASSUME txn.empty PROVE FirstSnapshot'
    BY DEF FirstSnapshot, SameTxn
  <1>1. txn.eff \in Nat /\ Floor \in Nat /\ FirstSnapshot
    BY WorkingDay DEF Underway, Working
  <1>2. ASSUME NEW i \in Instruments, NEW t, Holds(i, t)', NEW d \in Floor..txn.eff
        PROVE  HasTicker(symbols, i, d)'
    <2>1. CASE \E u : Holds(i, u)
      <3>1. HasTicker(symbols, i, d) /\ i \in Used /\ d \in Nat /\ d <= txn.eff
        BY <1>1, <1>2, <2>1 DEF FirstSnapshot, Holds, HoldsIn, Used
      <3> QED
        BY <1>2, <3>1, TickerStays
    <2>2. CASE \E r \in symbols' : r.inst = i /\ r.from = Floor /\ r.to = Forever
      BY <1>1, <2>2 DEF HasTicker, Valid
    <2> QED
      BY <1>2, <2>1, <2>2
  <1> QED
    BY <1>1, <1>2 DEF FirstSnapshot, SameTxn

-----------------------------------------------------------------------------
(* Who the row is about *)

\* An instrument that was handled and is listed is under the ticker of an earlier row.
LEMMA HandledBefore ==
    ASSUME Underway, At("resolve"), NEW i \in txn.handled, ~DelistedIn(statuses, i)
    PROVE  \E k \in 1..Len(txn.file) : /\ k < txn.n /\ txn.file[k].status # "delisted"
                                       /\ Holds(i, txn.file[k].symbol)
  <1>1. txn.n \in 1..Len(txn.file) /\ Len(txn.file) \in Nat /\ txn.stage = "resolve"
    BY RowDay
  <1>2. PICK k \in 1..(txn.n - 1) : txn.file[k].status # "delisted" /\ Holds(i, txn.file[k].symbol)
    BY <1>1 DEF Underway, Working, RowsHandled, InHand
  <1> QED
    BY <1>1, <1>2

LEMMA ResolvedWorks ==
    ASSUME Underway, At("resolve"), Inv', KeepsDays, Used \subseteq Used', statuses' = statuses,
           members' = members, NEW i \in Instruments, NEW isNew \in BOOLEAN, Is(i, isNew), i \in Used',
           UpTo(symbols', txn.eff), NEW days \in SUBSET {txn.eff},
           NewDays(symbols, symbols', days), Logs(days),
           i \in txn.handled => DelistedIn(statuses, i),
           Line.status # "delisted" => HoldsIn(symbols', i, Line.symbol),
           \A j, t : j # i => (Holds(j, t)' <=> Holds(j, t)),
           (\E t : Holds(i, t)) => \E t : Holds(i, t)',
           (\E t : Holds(i, t)') => \/ \E t : Holds(i, t)
                                    \/ \E r \in symbols' : r.inst = i /\ r.from = Floor /\ r.to = Forever
    PROVE  Working' /\ txn' # None /\ txn'.saved = txn.saved
  <1>1. /\ txn \in Txn /\ txn.stage = "resolve" /\ txn.n \in 1..Len(txn.file) /\ StatusDay(txn.eff)
        /\ txn.file \in Files /\ Terminal(symbols, statuses)
    BY RowDay, WorkingDay
  <1>2. /\ txn' = [txn EXCEPT !.stage = "exchange", !.inst = i, !.isNew = isNew,
                              !.handled = txn.handled \union {i}]
    BY DEF Is
  <1>3. /\ SameTxn /\ txn'.stage = "exchange" /\ txn'.inst = i
        /\ txn'.handled = txn.handled \union {i}
    <2>1. txn' \in Txn
      BY <1>1, IsType DEF Inv, Underway, TypeOK
    <2> QED
      BY <1>1, <1>2, <2>1, NoTransaction DEF SameTxn, Txn
  <1>4. NewDays(statuses, statuses', days)
    BY DEF NewDays
  <1>5. TablesFit' /\ \A c \in changes' : c \in changes \/ c.action # "remove"
    BY <1>1, <1>3, <1>4, TablesStage DEF StatusDay
  <1>6. Line' = Line /\ InHand' = {i} /\ InHand = {}
    BY <1>1, <1>3 DEF Line, SameTxn, InHand
  <1>7. TickersStand'
    <2>1. Covered(symbols, members)
      BY <1>1 DEF Underway, Working, TickersStand, Doomed, Covered
    <2>2. \A j : (\E t : Holds(j, t)) => \E t : Holds(j, t)'
      OBVIOUS
    <2> QED
      BY <1>3, <2>1, <2>2, TickersStage
  <1>8. ReadsStand'
    <2>1. \A j \in Instruments : Unsettled(j)' => Unsettled(j)
      BY <1>3, <1>6 DEF Unsettled
    <2> QED
      BY <1>3, <2>1, ReadsStage
  <1>9. RowsHandled'
    <2>1. txn'.handled \subseteq Used'
      BY <1>3 DEF Underway, Working, RowsHandled
    <2>2. ASSUME NEW j \in txn'.handled \ InHand'
          PROVE  \/ DelistedIn(statuses', j)
                 \/ \E k \in 1..(txn'.n - 1) : /\ txn'.file[k].status # "delisted"
                                               /\ HoldsIn(symbols', j, txn'.file[k].symbol)
      <3>1. j \in txn.handled \ InHand /\ j # i
        BY <1>3, <1>6, <2>2
      <3>2. CASE DelistedIn(statuses, j)
        BY <3>2
      <3>3. ASSUME NEW k \in 1..(txn.n - 1), txn.file[k].status # "delisted",
                   Holds(j, txn.file[k].symbol)
            PROVE  \E m \in 1..(txn'.n - 1) : /\ txn'.file[m].status # "delisted"
                                              /\ HoldsIn(symbols', j, txn'.file[m].symbol)
        <4>1. HoldsIn(symbols', j, txn.file[k].symbol)
          BY <3>1, <3>3 DEF Holds
        <4> QED
          BY <1>3, <3>3, <4>1 DEF SameTxn
      <3> QED
        BY <3>1, <3>2, <3>3 DEF Underway, Working, RowsHandled
    <2> QED
      BY <2>1, <2>2 DEF RowsHandled, Holds
  <1>10. RowInHand'
    BY <1>1, <1>3, <1>6 DEF RowInHand, SameTxn, Holds
  <1>11. FirstSnapshot'
    BY <1>3, <1>5, FirstStage
  <1>12. txn'.file \in Files /\ txn'.eff \in Dates
    BY <1>3 DEF SameTxn, Underway, Working
  <1> QED
    BY <1>3, <1>5, <1>7, <1>8, <1>9, <1>10, <1>11, <1>12 DEF Working, SameTxn

LEMMA ResolveWorks ==
    ASSUME Underway, Inv', Resolve
    PROVE  Working' /\ txn' # None /\ txn'.saved = txn.saved
  <1>1. /\ At("resolve") /\ KeepsDays /\ Used \subseteq Used' /\ statuses' = statuses /\ members' = members
    BY ResolveKeeps DEF Resolve, Underway
  <1>2. /\ OnDay(txn.eff) /\ txn.eff \in Nat /\ Floor <= txn.eff /\ symbols \subseteq SymbolRow
        /\ UpTo(symbols, txn.eff) /\ HasDays(symbols)
    BY WorkingDay, SymbolsFit DEF OnDay, TypeOK
  <1>3. /\ Line = txn.file[txn.n] /\ txn.n \in 1..Len(txn.file) /\ Tidy(txn.file) /\ Line \in Row
        /\ txn.file \in Files
    BY <1>1, RowDay DEF Line
  <1>4. \A j, k \in 1..Len(txn.file) : txn.file[j].symbol = txn.file[k].symbol => j = k
    BY <1>3, SnapshotAssumption
  <1>5. ASSUME NEW c \in Current, Is(c.inst, FALSE), UNCHANGED <<symbols, changes>>
        PROVE  Working' /\ txn' # None /\ txn'.saved = txn.saved
    <2>1. c \in symbols /\ c.symbol = Line.symbol /\ c.to = Forever /\ c.inst \in Instruments
      BY <1>2, LastDay DEF Current, Newest, TickerOn, OfTicker, SymbolRow
    <2>2. Holds(c.inst, Line.symbol)
      BY <2>1 DEF Holds, HoldsIn
    <2>3. c.inst \in txn.handled => DelistedIn(statuses, c.inst)
      <3> SUFFICES ASSUME c.inst \in txn.handled, ~DelistedIn(statuses, c.inst) PROVE FALSE
        OBVIOUS
      <3>1. PICK k \in 1..Len(txn.file) : k < txn.n /\ Holds(c.inst, txn.file[k].symbol)
        BY <1>1, HandledBefore
      <3>2. txn.file[k].symbol = Line.symbol
        BY <1>2, <2>1, <3>1, SymbolsFit DEF Holds, HoldsIn
      <3> QED
        BY <1>3, <1>4, <3>1, <3>2
    <2>4. /\ UpTo(symbols', txn.eff) /\ NewDays(symbols, symbols', {}) /\ Logs({})
          /\ \A j, t : Holds(j, t)' <=> Holds(j, t)
      BY <1>2, <1>5 DEF NewDays, Logs, Holds
    <2>5. c.inst \in Used'
      BY <1>5, <2>1 DEF Used
    <2>6. HoldsIn(symbols', c.inst, Line.symbol)
      BY <1>5, <2>2 DEF Holds
    <2> QED
      BY <1>1, <1>5, <2>1, <2>3, <2>4, <2>5, <2>6, ResolvedWorks
  <1>6. ASSUME WasListed, NEW r \in Newest(OfTicker(Line.symbol)), Is(r.inst, FALSE),
               UNCHANGED <<symbols, changes>>
        PROVE  Working' /\ txn' # None /\ txn'.saved = txn.saved
    <2>1. r \in symbols /\ r.inst \in Instruments /\ Line.status = "delisted"
      BY <1>2, <1>6 DEF Newest, OfTicker, SymbolRow, WasListed
    <2>2. r.inst \in txn.handled => DelistedIn(statuses, r.inst)
      <3> SUFFICES ASSUME r.inst \in txn.handled, ~DelistedIn(statuses, r.inst) PROVE FALSE
        OBVIOUS
      <3>1. PICK k \in 1..Len(txn.file) : k < txn.n /\ txn.file[k].status # "delisted"
        BY <1>1, HandledBefore
      <3> QED
        BY <1>3, <2>1, <3>1 DEF Tidy
    <2>3. /\ UpTo(symbols', txn.eff) /\ NewDays(symbols, symbols', {}) /\ Logs({})
          /\ \A j, t : Holds(j, t)' <=> Holds(j, t)
      BY <1>2, <1>6 DEF NewDays, Logs, Holds
    <2>4. r.inst \in Used'
      BY <1>6, <2>1 DEF Used
    <2> QED
      BY <1>1, <1>6, <2>1, <2>2, <2>3, <2>4, ResolvedWorks
  <1>7. ASSUME CanRename, NEW r \in Newest(TickerOn(Line.prev, txn.eff)),
               Renames(r, Line.symbol, txn.eff), Rename(r, Line.symbol, Line.exchange, txn.eff),
               Log(r.inst, "rename"), Is(r.inst, FALSE)
        PROVE  Working' /\ txn' # None /\ txn'.saved = txn.saved
    <2>1. /\ r \in symbols /\ r.symbol = Line.prev /\ r.to = Forever /\ r.inst \in Instruments
          /\ Line.symbol \in Tickers
      BY <1>2, <1>3, <1>7 DEF Newest, TickerOn, OfTicker, SymbolRow, Row, Renames
    <2>2. /\ UpTo(symbols', txn.eff) /\ NewDays(symbols, symbols', {txn.eff})
          /\ \A i, t : Holds(i, t)' <=> IF i = r.inst THEN t = Line.symbol ELSE Holds(i, t)
      BY <1>2, <1>7, <2>1, RenameHolds
    <2>3. r.inst \in txn.handled => DelistedIn(statuses, r.inst)
      <3> SUFFICES ASSUME r.inst \in txn.handled, ~DelistedIn(statuses, r.inst) PROVE FALSE
        OBVIOUS
      <3>1. PICK k \in 1..Len(txn.file) : k < txn.n /\ Holds(r.inst, txn.file[k].symbol)
        BY <1>1, HandledBefore
      <3>2. txn.file[k].symbol = Line.prev
        BY <1>2, <2>1, <3>1, SymbolsFit DEF Holds, HoldsIn
      <3> QED
        BY <1>3, <3>1, <3>2 DEF Tidy
    <2>4. Logs({txn.eff})
      <3>1. PICK e : e = Entry(r.inst, "rename", txn.eff)
        OBVIOUS
      <3>2. e.at = txn.eff /\ e.since = txn.eff /\ e.action = "rename" /\ changes' = changes \union {e}
        BY <1>7, <3>1 DEF Entry, Log
      <3> QED
        BY <3>2 DEF Logs
    <2>5. r.inst \in Used' /\ Holds(r.inst, r.symbol)
      BY <1>1, <2>1 DEF Used, Holds, HoldsIn
    <2>6. HoldsIn(symbols', r.inst, Line.symbol)
      <3>1. PICK t : t = Line.symbol
        OBVIOUS
      <3>2. Holds(r.inst, t)'
        BY <2>2, <3>1
      <3> QED
        BY <3>1, <3>2 DEF Holds
    <2> QED
      BY <1>1, <1>7, <2>1, <2>2, <2>3, <2>4, <2>5, <2>6, ResolvedWorks
  <1>8. ASSUME NEW i \in Fresh, Is(i, TRUE), UNCHANGED changes,
               symbols' = symbols \union {[inst |-> i, symbol |-> Line.symbol, from |-> FirstDay,
                                           to |-> Forever, exchange |-> Line.exchange]}
        PROVE  Working' /\ txn' # None /\ txn'.saved = txn.saved
    <2>1. PICK row : row = [inst |-> i, symbol |-> Line.symbol, from |-> FirstDay,
                            to |-> Forever, exchange |-> Line.exchange]
      OBVIOUS
    <2>2. /\ row.inst = i /\ row.symbol = Line.symbol /\ row.from = Floor /\ row.to = Forever
          /\ symbols' = symbols \union {row} /\ i \in Instruments /\ i \notin Used
      BY <1>8, <2>1 DEF FirstDay, Fresh
    <2>3. /\ UpTo(symbols', txn.eff) /\ NewDays(symbols, symbols', {})
          /\ \A j, t : Holds(j, t)' <=> Holds(j, t) \/ (j = i /\ t = Line.symbol)
      BY <1>2, <2>2, ListHolds
    <2>4. i \notin txn.handled
      BY <2>2 DEF Underway, Working, RowsHandled
    <2>5. i \in Used' /\ (\E r \in symbols' : r.inst = i /\ r.from = Floor /\ r.to = Forever)
      BY <2>2 DEF Used
    <2>6. Logs({})
      BY <1>8 DEF Logs
    <2>7. HoldsIn(symbols', i, Line.symbol)
      BY <2>2 DEF HoldsIn
    <2> QED
      BY <1>1, <1>8, <2>2, <2>3, <2>4, <2>5, <2>6, <2>7, ResolvedWorks
  <1> QED
    BY <1>5, <1>6, <1>7, <1>8 DEF Resolve

-----------------------------------------------------------------------------
(* Where it is listed, and whether it may trade *)

LEMMA StageWorks ==
    ASSUME Underway, Inv', NEW stage \in {"exchange", "status"}, At(stage),
           NEW next \in {"status", "member"}, txn' = [txn EXCEPT !.stage = next],
           members' = members, KeepsDays, Used \subseteq Used',
           UpTo(symbols', txn.eff), Fits(statuses', txn.eff),
           NEW days \in SUBSET {txn.eff}, Logs(days),
           NewDays(symbols, symbols', days), NewDays(statuses, statuses', days),
           \A j, t : j # txn.inst => (Holds(j, t)' <=> Holds(j, t)),
           \A j : j # txn.inst => (DelistedIn(statuses', j) <=> DelistedIn(statuses, j)),
           Line.status # "delisted" => HoldsIn(symbols', txn.inst, Line.symbol),
           next = "member" /\ Line.status = "delisted" => DelistedIn(statuses', txn.inst),
           (\E t : HoldsIn(symbols, txn.inst, t)) =>
               \/ \E t : HoldsIn(symbols', txn.inst, t)
               \/ next = "member" /\ Line.status = "delisted",
           (\E t : HoldsIn(symbols', txn.inst, t)) => \E t : HoldsIn(symbols, txn.inst, t)
    PROVE  Working' /\ txn' # None /\ txn'.saved = txn.saved
  <1>1. /\ txn \in Txn /\ txn.stage = stage /\ txn.n \in 1..Len(txn.file)
        /\ txn.file \in Files /\ Terminal(symbols, statuses)
    BY RowDay, WorkingDay
  <1>2. /\ SameTxn /\ txn'.stage = next /\ txn'.inst = txn.inst /\ txn'.handled = txn.handled
    <2>1. txn' \in Txn
      BY StageType DEF Inv, Underway, Stages
    <2> QED
      BY <1>1, <2>1, NoTransaction DEF SameTxn, Txn
  <1>3. TablesFit' /\ \A c \in changes' : c \in changes \/ c.action # "remove"
    BY <1>2, TablesStage
  <1>4. Line' = Line /\ InHand' = {txn.inst} /\ InHand = {txn.inst}
    BY <1>1, <1>2 DEF Line, SameTxn, InHand
  <1>5. PICK i : i = txn.inst
    OBVIOUS
  <1>6. TickersStand'
    <2>1. Covered(symbols, members)
      BY <1>1 DEF Underway, Working, TickersStand, Doomed, Covered
    <2>2. ASSUME NEW j, NEW t, Holds(j, t)
          PROVE  \/ \E u : Holds(j, u)'
                 \/ txn'.stage = "member" /\ Line'.status = "delisted" /\ j = txn'.inst
      <3>1. CASE j = i
        BY <1>2, <1>4, <1>5, <2>2, <3>1 DEF Holds
      <3>2. CASE j # i
        BY <1>5, <2>2, <3>2
      <3> QED
        BY <3>1, <3>2
    <2> QED
      BY <1>2, <2>1, <2>2, TickersStage
  <1>7. ReadsStand'
    <2>1. \A j \in Instruments : Unsettled(j)' => Unsettled(j)
      BY <1>2, <1>4 DEF Unsettled
    <2> QED
      BY <1>2, <2>1, ReadsStage
  <1>8. RowsHandled'
    <2>1. txn'.handled \subseteq Used'
      BY <1>2 DEF Underway, Working, RowsHandled
    <2>2. ASSUME NEW j \in txn'.handled \ InHand'
          PROVE  \/ DelistedIn(statuses', j)
                 \/ \E k \in 1..(txn'.n - 1) : /\ txn'.file[k].status # "delisted"
                                               /\ HoldsIn(symbols', j, txn'.file[k].symbol)
      <3>1. j \in txn.handled \ InHand /\ j # i
        BY <1>2, <1>4, <1>5, <2>2
      <3>2. CASE DelistedIn(statuses, j)
        BY <1>5, <3>1, <3>2
      <3>3. ASSUME NEW k \in 1..(txn.n - 1), txn.file[k].status # "delisted",
                   Holds(j, txn.file[k].symbol)
            PROVE  \E m \in 1..(txn'.n - 1) : /\ txn'.file[m].status # "delisted"
                                              /\ HoldsIn(symbols', j, txn'.file[m].symbol)
        <4>1. HoldsIn(symbols', j, txn.file[k].symbol)
          BY <1>5, <3>1, <3>3 DEF Holds
        <4> QED
          BY <1>2, <3>3, <4>1 DEF SameTxn
      <3> QED
        BY <3>1, <3>2, <3>3 DEF Underway, Working, RowsHandled
    <2> QED
      BY <2>1, <2>2 DEF RowsHandled, Holds
  <1>9. RowInHand'
    <2>1. txn.inst \in txn.handled
      BY <1>1 DEF Underway, Working, RowInHand
    <2> QED
      BY <1>1, <1>2, <1>4, <2>1 DEF RowInHand, SameTxn, Holds
  <1>10. FirstSnapshot'
    <2>1. ASSUME NEW j, NEW t, Holds(j, t)' PROVE \E u : Holds(j, u)
      <3>1. CASE j = i
        BY <1>5, <2>1, <3>1 DEF Holds
      <3>2. CASE j # i
        BY <1>5, <2>1, <3>2
      <3> QED
        BY <3>1, <3>2
    <2> QED
      BY <1>2, <1>3, <2>1, FirstStage
  <1>11. txn'.file \in Files /\ txn'.eff \in Dates
    BY <1>2 DEF SameTxn, Underway, Working
  <1> QED
    BY <1>2, <1>3, <1>6, <1>7, <1>8, <1>9, <1>10, <1>11 DEF Working, SameTxn

LEMMA EventLogs ==
    ASSUME NEW i, NEW action \in {"exchange_set", "exchange_change", "delist", "suspend", "resume"},
           Log(i, action)
    PROVE  Logs({}) /\ Logs({txn.eff})
  <1>1. PICK e : e = Entry(i, action, txn.eff)
    OBVIOUS
  <1>2. e.at = txn.eff /\ e.since = txn.eff /\ e.action = action /\ changes' = changes \union {e}
    BY <1>1 DEF Entry, Log
  <1> QED
    BY <1>2 DEF Logs

LEMMA ExchangeWorks ==
    ASSUME Underway, Inv', Exchange
    PROVE  Working' /\ txn' # None /\ txn'.saved = txn.saved
  <1>1. /\ At("exchange") /\ KeepsDays /\ Used \subseteq Used' /\ statuses' = statuses /\ members' = members
        /\ txn' = [txn EXCEPT !.stage = "status"]
    BY ExchangeKeeps DEF Exchange, Underway
  <1>2. /\ OnDay(txn.eff) /\ UpTo(symbols, txn.eff) /\ Fits(statuses, txn.eff)
        /\ Line.status # "delisted" => Holds(txn.inst, Line.symbol)
    BY <1>1, WorkingDay, RowDay DEF OnDay, StatusDay, Underway, Working, RowInHand
  <1>3. ASSUME NEW days \in SUBSET {txn.eff}, Logs(days), UpTo(symbols', txn.eff),
               NewDays(symbols, symbols', days), \A i, t : Holds(i, t)' <=> Holds(i, t)
        PROVE  Working' /\ txn' # None /\ txn'.saved = txn.saved
    <2>1. NewDays(statuses, statuses', days)
      BY <1>1 DEF NewDays
    <2>2. \A i, t : HoldsIn(symbols', i, t) <=> HoldsIn(symbols, i, t)
      BY <1>3 DEF Holds
    <2>3. Line.status # "delisted" => HoldsIn(symbols', txn.inst, Line.symbol)
      BY <1>2, <2>2 DEF Holds
    <2> QED
      BY <1>1, <1>2, <1>3, <2>1, <2>2, <2>3, StageWorks
  <1>4. CASE UNCHANGED <<symbols, changes>>
    <2>1. Logs({}) /\ NewDays(symbols, symbols', {}) /\ \A i, t : Holds(i, t)' <=> Holds(i, t)
      BY <1>4 DEF Logs, NewDays, Holds
    <2> QED
      BY <1>2, <1>3, <1>4, <2>1
  <1>5. ASSUME NEW r \in Listing, SetExchange(r, Line.exchange), Log(txn.inst, "exchange_set")
        PROVE  Working' /\ txn' # None /\ txn'.saved = txn.saved
    <2>1. r \in symbols
      BY DEF Listing, Newest, SymbolOn
    <2>2. UpTo(symbols', txn.eff) /\ NewDays(symbols, symbols', {}) /\ \A i, t : Holds(i, t)' <=> Holds(i, t)
      BY <1>2, <1>5, <2>1, SetHolds
    <2>3. NewDays(symbols, symbols', {txn.eff})
      BY <2>2 DEF NewDays
    <2> QED
      BY <1>3, <1>5, <2>2, <2>3, EventLogs
  <1>6. ASSUME NEW r \in Listing, MovesExchange(r, Line.exchange, txn.eff),
               MoveExchange(r, Line.exchange, txn.eff), Log(txn.inst, "exchange_change")
        PROVE  Working' /\ txn' # None /\ txn'.saved = txn.saved
    <2>1. r \in symbols
      BY DEF Listing, Newest, SymbolOn
    <2>2. /\ UpTo(symbols', txn.eff) /\ NewDays(symbols, symbols', {txn.eff})
          /\ \A i, t : Holds(i, t)' <=> Holds(i, t)
      BY <1>2, <1>6, <2>1, MoveHolds
    <2> QED
      BY <1>3, <1>6, <2>2, EventLogs
  <1> QED
    BY <1>4, <1>5, <1>6 DEF Exchange

LEMMA StatusWorks ==
    ASSUME Underway, Inv', Status
    PROVE  Working' /\ txn' # None /\ txn'.saved = txn.saved
  <1>1. /\ At("status") /\ KeepsDays /\ Used \subseteq Used' /\ members' = members
        /\ txn' = [txn EXCEPT !.stage = "member"]
    BY StatusKeeps DEF Status, Underway
  <1>2. /\ OnDay(txn.eff) /\ UpTo(symbols, txn.eff) /\ StatusDay(txn.eff) /\ Fits(statuses, txn.eff)
        /\ Line.status # "delisted" => Holds(txn.inst, Line.symbol)
    BY <1>1, WorkingDay, RowDay DEF OnDay, StatusDay, Underway, Working, RowInHand
  <1>3. Terminal(symbols, statuses) /\ Terminal(symbols', statuses')
    BY TerminalStatus DEF Underway, TerminalInv
  <1>4. ASSUME NEW days \in SUBSET {txn.eff}, Logs(days),
               UpTo(symbols', txn.eff), NewDays(symbols, symbols', days),
               Fits(statuses', txn.eff), NewDays(statuses, statuses', days),
               \A r : r.inst # txn.inst => (r \in OpenIn(statuses') <=> r \in OpenIn(statuses)),
               \A j, t : Holds(j, t)' => Holds(j, t),
               \A j, t : Holds(j, t) => Holds(j, t)' \/ (j = txn.inst /\ Line.status = "delisted"),
               Line.status = "delisted" => DelistedIn(statuses', txn.inst)
        PROVE  Working' /\ txn' # None /\ txn'.saved = txn.saved
    <2>1. \A j : j # txn.inst => (DelistedIn(statuses', j) <=> DelistedIn(statuses, j))
      <3> TAKE j
      <3> HAVE j # txn.inst
      <3>1. DelistedIn(statuses', j) <=> \E r \in OpenIn(statuses') : r.inst = j /\ r.status = "delisted"
        BY <1>3, DelistedIs
      <3>2. DelistedIn(statuses, j) <=> \E r \in OpenIn(statuses) : r.inst = j /\ r.status = "delisted"
        BY <1>3, DelistedIs
      <3> QED
        BY <1>4, <3>1, <3>2
    <2>2. \A j, t : HoldsIn(symbols', j, t) => HoldsIn(symbols, j, t)
      BY <1>4 DEF Holds
    <2>3. \A j, t : HoldsIn(symbols, j, t) =>
                       HoldsIn(symbols', j, t) \/ (j = txn.inst /\ Line.status = "delisted")
      BY <1>4 DEF Holds
    <2>4. Line.status # "delisted" => HoldsIn(symbols', txn.inst, Line.symbol)
      BY <1>2, <2>3 DEF Holds
    <2>5. (\E t : HoldsIn(symbols, txn.inst, t)) =>
              (\E t : HoldsIn(symbols', txn.inst, t)) \/ Line.status = "delisted"
      BY <2>3
    <2>6. \A j, t : j # txn.inst => (Holds(j, t)' <=> Holds(j, t))
      BY <2>2, <2>3 DEF Holds
    <2> QED
      BY <1>1, <1>4, <2>1, <2>2, <2>4, <2>5, <2>6, StageWorks
  <1>5. CASE UNCHANGED <<symbols, statuses, changes>> /\ (Line.status = "delisted" => NoNews(txn.inst, "delisted"))
    <2>1. /\ Logs({}) /\ NewDays(symbols, symbols', {}) /\ NewDays(statuses, statuses', {})
          /\ \A j, t : Holds(j, t)' <=> Holds(j, t)
      BY <1>5 DEF Logs, NewDays, Holds
    <2>2. Line.status = "delisted" => DelistedIn(statuses', txn.inst)
      BY <1>5 DEF NoNews, OpenStatus, DelistedIn
    <2> QED
      BY <1>2, <1>4, <1>5, <2>1, <2>2
  <1>6. CASE /\ Line.status = "delisted" /\ Delists(txn.inst, txn.eff) /\ Delist(txn.inst, txn.eff)
             /\ Log(txn.inst, "delist")
    <2>1. PICK row : row = [inst |-> txn.inst, status |-> "delisted", from |-> txn.eff, to |-> Forever]
      OBVIOUS
    <2>2. row.inst = txn.inst /\ row.status = "delisted"
      BY <2>1
    <2>3. /\ Fits(statuses', txn.eff) /\ NewDays(statuses, statuses', {txn.eff})
          /\ OpenIn(statuses') = (OpenIn(statuses) \ OpenStatus(txn.inst)) \union {row}
      BY <1>2, <1>6, <2>1, DelistFits
    <2>4. /\ UpTo(symbols', txn.eff) /\ NewDays(symbols, symbols', {txn.eff})
          /\ \A j, t : Holds(j, t)' <=> j # txn.inst /\ Holds(j, t)
      BY <1>2, <1>6, DelistHolds
    <2>5. Logs({txn.eff})
      BY <1>6, EventLogs
    <2>6. \A r : r.inst # txn.inst => (r \in OpenIn(statuses') <=> r \in OpenIn(statuses))
      BY <2>2, <2>3 DEF OpenStatus
    <2>7. DelistedIn(statuses', txn.inst)
      BY <2>2, <2>3 DEF DelistedIn, OpenIn
    <2> QED
      BY <1>4, <1>6, <2>3, <2>4, <2>5, <2>6, <2>7
  <1>7. CASE /\ Line.status = "suspended" /\ Suspends(txn.inst, txn.eff) /\ Suspend(txn.inst, txn.eff)
             /\ Log(txn.inst, "suspend") /\ UNCHANGED symbols
    <2>1. PICK row : row = [inst |-> txn.inst, status |-> "suspended", from |-> txn.eff, to |-> Forever]
      OBVIOUS
    <2>2. row.inst = txn.inst
      BY <2>1
    <2>3. /\ Fits(statuses', txn.eff) /\ NewDays(statuses, statuses', {txn.eff})
          /\ OpenIn(statuses') = OpenIn(statuses) \union {row}
      BY <1>2, <1>7, <2>1, SuspendFits
    <2>4. NewDays(symbols, symbols', {txn.eff}) /\ \A j, t : Holds(j, t)' <=> Holds(j, t)
      BY <1>7 DEF NewDays, Holds
    <2>5. Logs({txn.eff})
      BY <1>7, EventLogs
    <2>6. \A r : r.inst # txn.inst => (r \in OpenIn(statuses') <=> r \in OpenIn(statuses))
      BY <2>2, <2>3
    <2> QED
      BY <1>2, <1>4, <1>7, <2>3, <2>4, <2>5, <2>6
  <1>8. CASE /\ Line.status = "active" /\ Resumes(txn.inst, txn.eff) /\ Resume(txn.inst, txn.eff)
             /\ Log(txn.inst, "resume") /\ UNCHANGED symbols
    <2>1. /\ Fits(statuses', txn.eff) /\ NewDays(statuses, statuses', {txn.eff})
          /\ OpenIn(statuses') = OpenIn(statuses) \ OpenStatus(txn.inst)
      BY <1>2, <1>8, ResumeFits
    <2>2. NewDays(symbols, symbols', {txn.eff}) /\ \A j, t : Holds(j, t)' <=> Holds(j, t)
      BY <1>8 DEF NewDays, Holds
    <2>3. Logs({txn.eff})
      BY <1>8, EventLogs
    <2>4. \A r : r.inst # txn.inst => (r \in OpenIn(statuses') <=> r \in OpenIn(statuses))
      BY <2>1 DEF OpenStatus
    <2> QED
      BY <1>2, <1>4, <1>8, <2>1, <2>2, <2>3, <2>4
  <1>9. CASE Line.status = "active" /\ UNCHANGED <<symbols, statuses>> /\ Log(txn.inst, "resume")
    <2>1. /\ NewDays(symbols, symbols', {}) /\ NewDays(statuses, statuses', {})
          /\ \A j, t : Holds(j, t)' <=> Holds(j, t)
      BY <1>9 DEF NewDays, Holds
    <2>2. Logs({})
      BY <1>9, EventLogs
    <2> QED
      BY <1>2, <1>4, <1>9, <2>1, <2>2
  <1> QED
    BY <1>5, <1>6, <1>7, <1>8, <1>9 DEF Status

-----------------------------------------------------------------------------
(* The memberships and their log, as a row or the end of the file changes them *)

MemberDay(mems, chs, D) ==
    /\ D \in Nat /\ HasDays(mems) /\ EndsOn(mems, D) /\ Fits(mems, D)
    /\ Audited(mems, chs) /\ Logged(mems, chs)
    /\ \A c \in chs : c.at \in Nat /\ c.since \in Nat /\ c.at <= D

\* Rows are cut, some of them end on day D, and new ones come.
Recut(rows, after, cut, kept, new, D) ==
    after = (rows \ cut) \union {Ended(r, D) : r \in kept} \union new

\* Members leave: their rows end, and the removals of the day are logged.
Leaves(mems, chs, after, after_chs, gone, events, D) ==
    /\ gone \subseteq OpenIn(mems) /\ \A m \in gone : m.from < D
    /\ Recut(mems, after, gone, gone, {}, D) /\ after_chs = chs \union events
    /\ \A e \in events : /\ e.action = "remove" /\ e.since = D /\ e.at = D
                         /\ \E m \in gone : m.inst = e.inst
    /\ \A m \in gone : \E e \in events : e.inst = m.inst

LEMMA LeaversAreAudited ==
    ASSUME NEW mems, NEW chs, NEW D, MemberDay(mems, chs, D), NEW gone, NEW events, NEW after, NEW after_chs,
           Leaves(mems, chs, after, after_chs, gone, events, D)
    PROVE  /\ Fits(after, D) /\ Audited(after, after_chs) /\ Logged(after, after_chs)
           /\ DaysWithin(after, mems) /\ OpenIn(after) = OpenIn(mems) \ gone
  <1> USE DEF Leaves
  <1>1. /\ D \in Nat /\ HasDays(mems) /\ EndsOn(mems, D) /\ Fits(mems, D) /\ Apart(mems)
        /\ Audited(mems, chs) /\ Logged(mems, chs)
        /\ \A c \in chs : c.at \in Nat /\ c.since \in Nat /\ c.at <= D
    BY DEF MemberDay, Fits
  <1>2. CutsTo(mems, after, gone, gone, {}, D)
    BY DEF CutsTo, Recut, OpenIn
  <1>3. Fits(after, D)
    BY <1>1, <1>2, CutFits
  <1>4. {x \in after : x.to = Forever} = {x \in mems \ gone : x.to = Forever} \union {}
    BY <1>1, <1>2, CutOpens
  <1>5. \A m \in mems : m \in gone => Ended(m, D) \in after /\ Ended(m, D).inst = m.inst /\ Ended(m, D).from = m.from
    BY <1>1 DEF EndsOn, Recut
  <1>6. \A m \in mems : \E x \in after : x.inst = m.inst /\ x.from = m.from
    BY <1>5 DEF Recut
  <1>7. ASSUME NEW x \in after, NEW d \in Nat, Valid(x, d)
        PROVE  \E m \in mems : m.inst = x.inst /\ Valid(m, d)
    <2>1. CASE x \in mems
      BY <1>7, <2>1
    <2>2. CASE x \notin mems
      <3>1. PICK m \in gone : x = Ended(m, D)
        BY <2>2 DEF Recut
      <3>2. m \in mems /\ m.to = Forever /\ x.inst = m.inst /\ x.from = m.from
        BY <1>1, <3>1 DEF EndsOn, OpenIn
      <3> QED
        BY <1>7, <3>2 DEF Valid
    <2> QED
      BY <2>1, <2>2
  <1>8. Logged(after, after_chs)
    <2> SUFFICES ASSUME NEW c \in after_chs
                 PROVE  /\ c.since <= c.at
                        /\ c.action = "add" => \E m \in after : m.inst = c.inst /\ m.from = c.since
      BY DEF Logged
    <2>1. CASE c \in chs
      BY <1>1, <1>6, <2>1 DEF Logged
    <2>2. CASE c \in events
      BY <1>1, <2>2
    <2> QED
      BY <2>1, <2>2
  <1>9. ASSUME NEW i \in Instruments
        PROVE  IsMember(after, i) <=> \E a \in SinceOf(after_chs, i, "add") :
                                          \A r \in SinceOf(after_chs, i, "remove") : r <= a
    <2>1. SinceOf(after_chs, i, "add") = SinceOf(chs, i, "add")
      BY DEF SinceOf
    <2>2. CASE \E m \in gone : m.inst = i
      <3>1. PICK m \in gone : m.inst = i
        BY <2>2
      <3>2. m \in mems /\ m.to = Forever /\ m.from \in Nat /\ m.from < D
        BY <1>1, <3>1 DEF HasDays, OpenIn
      <3>3. ~IsMember(after, i)
        <4> SUFFICES ASSUME NEW x \in after, x.inst = i, x.to = Forever PROVE FALSE
          BY DEF IsMember
        <4>1. x \in mems \ gone
          BY <1>4
        <4>2. x = m
          BY <1>1, <3>1, <3>2, <4>1, OneOpen
        <4> QED
          BY <4>1, <4>2
      <3>4. D \in SinceOf(after_chs, i, "remove")
        BY <3>1 DEF SinceOf
      <3>5. ASSUME NEW a \in SinceOf(chs, i, "add") PROVE ~(D <= a)
        <4>1. PICK c \in chs : c.since = a /\ c.inst = i /\ c.action = "add"
          BY <3>5 DEF SinceOf
        <4>2. a \in Nat /\ a <= D
          BY <1>1, <4>1 DEF Logged
        <4>3. PICK n \in mems : n.inst = i /\ n.from = a
          BY <1>1, <4>1 DEF Logged
        <4>4. ASSUME a = D PROVE n = m
          <5>1. n.to = Forever
            BY <1>1, <4>3, <4>4 DEF Fits, Proper, UpTo, HasDays
          <5> QED
            BY <1>1, <3>1, <3>2, <4>3, <5>1, OneOpen
        <4> QED
          BY <1>1, <3>2, <4>2, <4>3, <4>4
      <3> QED
        BY <2>1, <3>3, <3>4, <3>5
    <2>3. CASE ~\E m \in gone : m.inst = i
      <3>1. SinceOf(after_chs, i, "remove") = SinceOf(chs, i, "remove")
        BY <2>3 DEF SinceOf
      <3>2. IsMember(after, i) <=> IsMember(mems, i)
        BY <1>4, <2>3 DEF IsMember
      <3> QED
        BY <1>1, <2>1, <3>1, <3>2 DEF Audited
    <2> QED
      BY <2>2, <2>3
  <1> QED
    BY <1>3, <1>4, <1>7, <1>8, <1>9 DEF Audited, OpenIn, DaysWithin

\* A member joins, from that day or backfilled on a log without removals.
LEMMA JoinerIsAudited ==
    ASSUME NEW mems, NEW chs, NEW D, MemberDay(mems, chs, D), NEW x, NEW e,
           x.to = Forever, x.from \in Nat, x.from <= D,
           e.action = "add" /\ e.inst = x.inst /\ e.since = x.from /\ e.at = D,
           \A m \in mems : m.inst = x.inst => m.to # Forever,
           \/ x.from = D
           \/ (\A m \in mems : m.to = Forever) /\ \A c \in chs : c.action # "remove"
    PROVE  /\ Fits(mems \union {x}, D)
           /\ Audited(mems \union {x}, chs \union {e}) /\ Logged(mems \union {x}, chs \union {e})
  <1>1. /\ D \in Nat /\ HasDays(mems) /\ EndsOn(mems, D) /\ Fits(mems, D) /\ Apart(mems)
        /\ Audited(mems, chs) /\ Logged(mems, chs)
        /\ \A c \in chs : c.at \in Nat /\ c.since \in Nat /\ c.at <= D
    BY DEF MemberDay, Fits
  <1>2. Fits(mems \union {x}, D)
    <2>1. CASE x.from = D
      <3>1. PICK after : after = mems \union {x}
        OBVIOUS
      <3>2. CutsTo(mems, after, {}, {}, {x}, D)
        BY <2>1, <3>1 DEF CutsTo
      <3> QED
        BY <1>1, <3>1, <3>2, CutFits
    <2>2. CASE \A m \in mems : m.to = Forever
      BY <1>1, <2>2 DEF Fits, Proper, UpTo, Apart, Overlap
    <2> QED
      BY <2>1, <2>2
  <1>3. Logged(mems \union {x}, chs \union {e})
    BY <1>1 DEF Logged
  <1>4. ASSUME NEW i \in Instruments
        PROVE  IsMember(mems \union {x}, i) <=> \E a \in SinceOf(chs \union {e}, i, "add") :
                                                    \A r \in SinceOf(chs \union {e}, i, "remove") : r <= a
    <2>1. SinceOf(chs \union {e}, i, "remove") = SinceOf(chs, i, "remove")
      BY DEF SinceOf
    <2>2. CASE i = x.inst
      <3>1. x.from \in SinceOf(chs \union {e}, i, "add")
        BY <2>2 DEF SinceOf
      <3>2. \A r \in SinceOf(chs, i, "remove") : r <= x.from
        BY <1>1 DEF SinceOf, Logged
      <3> QED
        BY <2>1, <2>2, <3>1, <3>2 DEF IsMember
    <2>3. CASE i # x.inst
      <3>1. SinceOf(chs \union {e}, i, "add") = SinceOf(chs, i, "add")
        BY <2>3 DEF SinceOf
      <3>2. IsMember(mems \union {x}, i) <=> IsMember(mems, i)
        BY <2>3 DEF IsMember
      <3> QED
        BY <1>1, <2>1, <3>1, <3>2 DEF Audited
    <2> QED
      BY <2>2, <2>3
  <1> QED
    BY <1>2, <1>3, <1>4 DEF Audited

\* A member gets another weight: in place on its first day, else in a row of its own.
Reweighs(mems, after, m, kept, x, D) ==
    /\ m \in mems /\ m.to = Forever /\ x.inst = m.inst /\ x.from = D /\ x.to = Forever
    /\ IF m.from = D THEN kept = {} ELSE kept = {m} /\ m.from < D
    /\ Recut(mems, after, {m}, kept, {x}, D)

LEMMA WeightIsAudited ==
    ASSUME NEW mems, NEW chs, NEW D, MemberDay(mems, chs, D), NEW m, NEW kept, NEW x, NEW after,
           Reweighs(mems, after, m, kept, x, D),
           NEW e, e.action = "weight_change" /\ e.since = D /\ e.at = D
    PROVE  /\ Fits(after, D) /\ Audited(after, chs \union {e}) /\ Logged(after, chs \union {e})
           /\ DaysWithin(after, mems) /\ \A y : y.inst # m.inst => (y \in after <=> y \in mems)
  <1> USE DEF Reweighs
  <1>1. /\ D \in Nat /\ HasDays(mems) /\ EndsOn(mems, D) /\ Fits(mems, D) /\ Apart(mems)
        /\ Audited(mems, chs) /\ Logged(mems, chs)
    BY DEF MemberDay, Fits
  <1>2. \A r \in mems : r.inst = x.inst /\ r.to = Forever => r = m
    BY <1>1, OneOpen
  <1>3. CutsTo(mems, after, {m}, kept, {x}, D)
    BY <1>2 DEF CutsTo, Recut
  <1>4. Fits(after, D)
    BY <1>1, <1>3, CutFits
  <1>5. {y \in after : y.to = Forever} = {y \in mems \ {m} : y.to = Forever} \union {x}
    BY <1>1, <1>3, CutOpens
  <1>6. \A y \in kept : y = m /\ Ended(y, D).inst = m.inst /\ Ended(y, D).from = m.from
    BY <1>1 DEF EndsOn
  <1>7. \A y \in mems : \E z \in after : z.inst = y.inst /\ z.from = y.from
    <2> SUFFICES \E z \in after : z.inst = m.inst /\ z.from = m.from
      BY DEF Recut
    <2>1. CASE m.from = D
      BY <2>1 DEF Recut
    <2>2. CASE m.from # D
      BY <1>6, <2>2 DEF Recut
    <2> QED
      BY <2>1, <2>2
  <1>8. \A i : IsMember(after, i) <=> IsMember(mems, i)
    BY <1>5 DEF IsMember
  <1>9. Audited(after, chs) /\ Logged(after, chs)
    BY <1>1, <1>7, <1>8 DEF Audited, Logged
  <1>10. Audited(after, chs \union {e}) /\ Logged(after, chs \union {e})
    BY <1>1, <1>9, EventIsLogged
  <1>11. ASSUME NEW y \in after, NEW d \in Nat, Valid(y, d)
         PROVE  \E n \in mems : n.inst = y.inst /\ Valid(n, d)
    <2>1. CASE y \in mems
      BY <1>11, <2>1
    <2>2. CASE y \notin mems
      <3>1. m.from \in Nat /\ m.from <= D
        BY <1>1 DEF HasDays, Fits, UpTo
      <3>2. y.inst = m.inst /\ (y.from = D \/ y.from = m.from)
        BY <1>6, <2>2 DEF Recut
      <3> QED
        BY <1>1, <1>11, <3>1, <3>2 DEF Valid
    <2> QED
      BY <2>1, <2>2
  <1>12. \A y : y.inst # m.inst => (y \in after <=> y \in mems)
    BY <1>6 DEF Recut
  <1> QED
    BY <1>4, <1>10, <1>11, <1>12 DEF DaysWithin

LEMMA MembersToday ==
    ASSUME Underway
    PROVE  MemberDay(members, changes, txn.eff) /\ \A m \in members : m.universe = txn.universe
  <1>1. /\ txn \in Txn /\ txn.eff \in Nat /\ TypeOK /\ HasDays(members) /\ EndsOn(members, txn.eff)
        /\ Fits(members, txn.eff)
    BY WorkingDay DEF Underway, Inv
  <1>2. \A c \in changes : c.at \in Nat /\ c.since \in Nat /\ c.at <= txn.eff
    BY <1>1 DEF TypeOK, Change, Underway, Working, TablesFit
  <1>3. Audited(members, changes) /\ Logged(members, changes)
    BY DEF Underway, Working, TablesFit, Consistent
  <1>4. \A m \in members : m.universe = txn.universe
    BY <1>1 DEF TypeOK, Membership, Txn, Underway, OneRecord
  <1> QED
    BY <1>1, <1>2, <1>3, <1>4 DEF MemberDay

\* The rows a row of the file works on are the open ones of its instrument.
LEMMA MineIsOpen ==
    ASSUME Underway, At("member")
    PROVE  Mine = {m \in members : m.inst = txn.inst /\ m.to = Forever}
  <1>1. txn.inst \in Instruments /\ txn.stage = "member"
    BY RowDay
  <1>2. OpenAsRead(txn.inst)
    BY <1>1 DEF Underway, Working, ReadsStand, Unsettled, InHand
  <1>3. txn.open \subseteq [inst: Instruments, from: Nat]
    BY WorkingDay DEF Txn
  <1>4. ASSUME NEW m \in members, m.inst = txn.inst
        PROVE  m \in Mine <=> m.to = Forever
    <2>1. m \in Mine <=> \E k \in txn.open : k.inst = txn.inst /\ k.from = m.from
      BY <1>4, MembersToday DEF Mine, Members
    <2>2. (\E k \in txn.open : k.inst = txn.inst /\ k.from = m.from)
              <=> [inst |-> txn.inst, from |-> m.from] \in txn.open
      BY <1>3
    <2> QED
      BY <1>2, <1>4, <2>1, <2>2 DEF OpenAsRead
  <1>5. \A m \in Mine : m \in members /\ m.inst = txn.inst
    BY DEF Mine, Members
  <1> QED
    BY <1>4, <1>5

LEMMA RowWorks ==
    ASSUME Underway, At("member"), NEW gone \in {{}, {txn.inst}}, NextLine(gone), Inv',
           UNCHANGED <<symbols, statuses>>, Fits(members', txn.eff),
           Audited(members', changes'), Logged(members', changes'),
           changes \subseteq changes', \A c \in changes' : c.at <= txn.eff,
           \A m : m.inst # txn.inst => (m \in members' <=> m \in members),
           Covered(symbols, members'),
           Line.status = "delisted" =>
               /\ \A m \in members' : m.inst = txn.inst => m.to # Forever
               /\ gone = {txn.inst} \/ UNCHANGED members,
           txn.empty => (\A m \in members' : m.to = Forever) /\ \A c \in changes' : c.action # "remove"
    PROVE  Working' /\ txn' # None /\ txn'.saved = txn.saved
  <1>1. /\ txn \in Txn /\ txn.stage = "member" /\ txn.n \in 1..Len(txn.file) /\ txn.inst \in Instruments
        /\ Terminal(symbols, statuses) /\ txn.eff \in Nat
    BY RowDay, WorkingDay
  <1>2. /\ txn' # None /\ txn'.stage = "resolve" /\ txn'.n = txn.n + 1 /\ txn'.eff = txn.eff
        /\ txn'.saved = txn.saved /\ txn'.file = txn.file /\ txn'.empty = txn.empty
        /\ txn'.handled = txn.handled /\ txn'.open = {k \in txn.open : k.inst \notin gone}
    <2>1. txn' \in Txn
      BY NextLineType DEF Underway, Inv
    <2> QED
      BY <1>1, <2>1, NoTransaction DEF NextLine, Txn
  <1>3. TablesFit'
    <2>1. NewDays(symbols, symbols, {}) /\ NewDays(statuses, statuses, {})
      BY DEF NewDays
    <2>2. DaysTold(symbols, changes') /\ DaysTold(statuses, changes')
      BY <2>1, DaysStayTold DEF Underway, Working, TablesFit, Consistent
    <2>3. Consistent(symbols', statuses', members', changes')
      BY <2>2 DEF Underway, Working, TablesFit, Consistent, Fits
    <2> QED
      BY <1>2, <2>3 DEF TablesFit, Underway, Working, Fits
  <1>4. TickersStand'
    BY DEF TickersStand, Covered
  <1>5. InHand' = {} /\ txn.inst \in txn.handled
    BY <1>1, <1>2 DEF InHand, Underway, Working, RowInHand
  <1>6. Line.status # "delisted" => Holds(txn.inst, Line.symbol) /\ ~DelistedIn(statuses, txn.inst)
    BY <1>1, DelistedIs DEF Underway, Working, RowInHand, Holds
  <1>7. ReadsStand'
    <2> SUFFICES ASSUME NEW j \in Instruments, Unsettled(j)', NEW m \in members', m.inst = j
                 PROVE  m.to = Forever <=> [inst |-> j, from |-> m.from] \in txn'.open
      BY DEF ReadsStand, OpenAsRead
    <2>1. CASE j # txn.inst
      <3>1. Unsettled(j)
        BY <1>2, <1>5 DEF Unsettled
      <3>2. m \in members /\ OpenAsRead(j)
        BY <2>1, <3>1 DEF Underway, Working, ReadsStand
      <3> QED
        BY <1>2, <2>1, <3>2 DEF OpenAsRead
    <2>2. CASE j = txn.inst
      <3>1. DelistedIn(statuses, j)
        BY <1>2, <1>5, <2>2 DEF Unsettled
      <3>2. Line.status = "delisted"
        BY <1>6, <2>2, <3>1
      <3>3. m.to # Forever
        BY <2>2, <3>2
      <3>4. [inst |-> j, from |-> m.from] \notin txn'.open
        <4>1. CASE gone = {txn.inst}
          BY <1>2, <2>2, <4>1
        <4>2. CASE UNCHANGED members
          <5>1. OpenAsRead(j)
            BY <1>1, <2>2 DEF Underway, Working, ReadsStand, Unsettled, InHand
          <5> QED
            BY <1>2, <3>3, <4>2, <5>1 DEF OpenAsRead
        <4> QED
          BY <3>2, <4>1, <4>2
      <3> QED
        BY <3>3, <3>4
    <2> QED
      BY <2>1, <2>2
  <1>8. RowsHandled'
    <2>1. txn'.handled \subseteq Used'
      BY <1>2 DEF Underway, Working, RowsHandled, Used
    <2>2. ASSUME NEW j \in txn.handled
          PROVE  \/ DelistedIn(statuses, j)
                 \/ \E k \in 1..txn.n : txn.file[k].status # "delisted" /\ Holds(j, txn.file[k].symbol)
      <3>1. CASE j = txn.inst
        <4>1. CASE Line.status = "delisted"
          BY <1>1, <3>1, <4>1 DEF Underway, Working, RowInHand
        <4>2. CASE Line.status # "delisted"
          BY <1>1, <1>6, <3>1, <4>2 DEF Line
        <4> QED
          BY <4>1, <4>2
      <3>2. CASE j # txn.inst
        <4>1. j \in txn.handled \ InHand
          BY <1>1, <3>2 DEF InHand
        <4>2. \/ DelistedIn(statuses, j)
              \/ \E k \in 1..(txn.n - 1) : txn.file[k].status # "delisted" /\ Holds(j, txn.file[k].symbol)
          BY <4>1 DEF Underway, Working, RowsHandled
        <4> QED
          BY <1>1, <4>2
      <3> QED
        BY <3>1, <3>2
    <2>3. txn'.n - 1 = txn.n
      BY <1>1, <1>2
    <2> QED
      BY <1>2, <2>1, <2>2, <2>3 DEF RowsHandled, Holds
  <1>9. RowInHand'
    BY <1>2 DEF RowInHand
  <1>10. FirstSnapshot'
    <2>1. txn.empty => txn'.open = {}
      BY <1>2 DEF Underway, Working, FirstSnapshot
    <2>2. txn.empty => \A i \in Instruments : (\E t : Holds(i, t)) =>
                            \A d \in Floor..txn.eff : HasTicker(symbols, i, d)
      BY DEF Underway, Working, FirstSnapshot
    <2> QED
      BY <1>2, <2>1, <2>2 DEF FirstSnapshot, Holds
  <1>11. txn'.file \in Files /\ txn'.eff \in Dates
    BY <1>2 DEF Underway, Working
  <1> QED
    BY <1>2, <1>3, <1>4, <1>7, <1>8, <1>9, <1>10, <1>11 DEF Working

LEMMA MemberWorks ==
    ASSUME Underway, Inv', Member
    PROVE  Working' /\ txn' # None /\ txn'.saved = txn.saved
  <1>1. /\ At("member") /\ Line \in Row /\ txn.stage = "member" /\ txn.inst \in Instruments
        /\ txn.eff \in Nat /\ txn.eff # Forever /\ JoinsOn \in Nat /\ Floor \in Nat
        /\ UNCHANGED <<symbols, statuses>>
    BY RowDay, LineType, WorkingDay DEF Member, Underway, Inv
  <1>2. /\ MemberDay(members, changes, txn.eff) /\ HasDays(members) /\ EndsOn(members, txn.eff)
        /\ Fits(members, txn.eff) /\ Audited(members, changes) /\ Logged(members, changes)
        /\ \A c \in changes : c.at \in Nat /\ c.since \in Nat /\ c.at <= txn.eff
    BY MembersToday DEF MemberDay
  <1>3. Mine = {m \in members : m.inst = txn.inst /\ m.to = Forever}
    BY <1>1, MineIsOpen
  <1>4. \A r, s \in Mine : r = s
    BY <1>2, <1>3, OneOpen DEF Fits
  <1>5. \A m \in members : \A d \in Nat : Valid(m, d) =>
            \/ HasTicker(symbols, m.inst, d)
            \/ Line.status = "delisted" /\ m \in Mine /\ d >= txn.eff
    BY <1>1, <1>3 DEF Underway, Working, TickersStand, Doomed
  <1>6. ASSUME Line.status # "delisted", NEW d \in Nat, d >= txn.eff PROVE HasTicker(symbols, txn.inst, d)
    <2>1. PICK r \in symbols : r.inst = txn.inst /\ r.to = Forever
      BY <1>1, <1>6 DEF Underway, Working, RowInHand, Holds, HoldsIn
    <2>2. HasDays(symbols) /\ UpTo(symbols, txn.eff)
      BY WorkingDay, SymbolsFit DEF OnDay
    <2>3. Valid(r, d)
      BY <1>1, <1>6, <2>1, <2>2 DEF UpTo, HasDays, Valid
    <2> QED
      BY <2>1, <2>3 DEF HasTicker
  <1>7. txn.empty => (\A m \in members : m.to = Forever) /\ (\A c \in changes : c.action # "remove") /\ Mine = {}
    <2>1. txn.empty => txn.open = {} /\ (\A m \in members : m.to = Forever) /\ \A c \in changes : c.action # "remove"
      BY DEF Underway, Working, FirstSnapshot
    <2> QED
      BY <2>1 DEF Mine, Members
  <1>8. ASSUME NEW gone \in {{}, {txn.inst}}, NextLine(gone), UNCHANGED <<members, changes>>,
               Line.status = "delisted" => Mine = {}
        PROVE  Working' /\ txn' # None /\ txn'.saved = txn.saved
    <2>1. Covered(symbols, members')
      BY <1>5, <1>8 DEF Covered
    <2>2. Line.status = "delisted" => \A m \in members' : m.inst = txn.inst => m.to # Forever
      BY <1>3, <1>8
    <2>3. /\ Fits(members', txn.eff) /\ Audited(members', changes') /\ Logged(members', changes')
          /\ changes \subseteq changes' /\ \A c \in changes' : c.at <= txn.eff
      BY <1>2, <1>8
    <2> QED
      BY <1>1, <1>7, <1>8, <2>1, <2>2, <2>3, RowWorks
  <1>9. ASSUME Line.status = "delisted", Mine # {}, Closable(Mine),
               members' = (members \ Mine) \union Closed(Mine), Log(txn.inst, "remove"), NextLine({txn.inst})
        PROVE  Working' /\ txn' # None /\ txn'.saved = txn.saved
    <2>1. PICK e : e = Entry(txn.inst, "remove", txn.eff)
      OBVIOUS
    <2>2. e.action = "remove" /\ e.inst = txn.inst /\ e.at = txn.eff /\ e.since = txn.eff
      BY <2>1 DEF Entry
    <2>3. PICK after, logs : after = members' /\ logs = changes'
      OBVIOUS
    <2>4. logs = changes \union {e} /\ Recut(members, after, Mine, Mine, {}, txn.eff)
      BY <1>9, <2>1, <2>3 DEF Log, Closed, Recut
    <2>5. /\ Mine \subseteq OpenIn(members) /\ (\A m \in Mine : m.from < txn.eff)
          /\ \A m \in Mine : m.inst = txn.inst
      BY <1>3, <1>9 DEF Closable, OpenIn
    <2>6. /\ Fits(after, txn.eff) /\ Audited(after, logs) /\ Logged(after, logs)
          /\ DaysWithin(after, members) /\ OpenIn(after) = OpenIn(members) \ Mine
      <3>1. PICK events : events = {e}
        OBVIOUS
      <3>2. \A f \in events : /\ f.action = "remove" /\ f.since = txn.eff /\ f.at = txn.eff
                              /\ \E m \in Mine : m.inst = f.inst
        BY <1>9, <2>2, <2>5, <3>1
      <3>3. \A m \in Mine : \E f \in events : f.inst = m.inst
        BY <2>2, <2>5, <3>1
      <3>4. logs = changes \union events
        BY <2>4, <3>1
      <3>5. Leaves(members, changes, after, logs, Mine, events, txn.eff)
        BY <2>4, <2>5, <3>2, <3>3, <3>4 DEF Leaves
      <3> QED
        BY <1>2, <3>5, LeaversAreAudited
    <2>7. Covered(symbols, after)
      <3> SUFFICES ASSUME NEW x \in after, NEW d \in Nat, Valid(x, d) PROVE HasTicker(symbols, x.inst, d)
        BY DEF Covered
      <3>1. PICK m \in members : m.inst = x.inst /\ Valid(m, d)
        BY <2>6 DEF DaysWithin
      <3>2. CASE m \in Mine
        <4>1. x.to # Forever /\ x.to <= txn.eff
          BY <1>3, <2>6, <3>1, <3>2 DEF OpenIn, Fits, UpTo
        <4>2. x.to \in Nat
          BY <4>1, <2>3 DEF Inv, TypeOK, Membership
        <4>3. ~(d >= txn.eff)
          BY <1>1, <4>1, <4>2 DEF Valid
        <4> QED
          BY <1>5, <3>1, <4>3
      <3>3. CASE m \notin Mine
        BY <1>5, <3>1, <3>3
      <3> QED
        BY <3>2, <3>3
    <2>8. \A m \in after : m.inst = txn.inst => m.to # Forever
      BY <1>3, <2>6 DEF OpenIn
    <2>9. \A m : m.inst # txn.inst => (m \in after <=> m \in members)
      BY <1>2, <2>4, <2>5 DEF EndsOn, Recut, OpenIn
    <2>10. changes \subseteq logs /\ \A c \in logs : c.at <= txn.eff
      BY <1>1, <1>2, <2>2, <2>4
    <2>11. ~txn.empty
      BY <1>7, <1>9
    <2> QED
      BY <1>1, <1>9, <2>3, <2>6, <2>7, <2>8, <2>9, <2>10, <2>11, RowWorks
  <1>10. ASSUME Line.status # "delisted", Mine = {}, Joins,
                members' = members \union {Joined(JoinsOn)},
                changes' = changes \union {Entry(txn.inst, "add", JoinsOn)}, NextLine({})
         PROVE  Working' /\ txn' # None /\ txn'.saved = txn.saved
    <2>1. PICK e, x : e = Entry(txn.inst, "add", JoinsOn) /\ x = Joined(JoinsOn)
      OBVIOUS
    <2>2. /\ e.action = "add" /\ e.inst = txn.inst /\ e.at = txn.eff /\ e.since = x.from
          /\ x.inst = txn.inst /\ x.from = JoinsOn /\ x.to = Forever
      BY <2>1 DEF Entry, Joined
    <2>3. PICK after, logs : after = members' /\ logs = changes'
      OBVIOUS
    <2>4. logs = changes \union {e} /\ after = members \union {x}
      BY <1>10, <2>1, <2>3
    <2>5. JoinsOn <= txn.eff /\ (JoinsOn = txn.eff \/ txn.empty)
      BY <1>1, <1>10 DEF Joins, Backfillable
    <2>6. \A m \in members : m.inst = txn.inst => m.to # Forever
      BY <1>3, <1>10
    <2>7. Fits(after, txn.eff) /\ Audited(after, logs) /\ Logged(after, logs)
      <3>1. x.from \in Nat /\ x.from <= txn.eff
        BY <1>1, <2>2, <2>5
      <3>2. \/ x.from = txn.eff
            \/ (\A m \in members : m.to = Forever) /\ \A c \in changes : c.action # "remove"
        BY <1>7, <2>2, <2>5
      <3>3. e.action = "add" /\ e.inst = x.inst /\ e.since = x.from /\ e.at = txn.eff
        BY <2>2
      <3>4. \A m \in members : m.inst = x.inst => m.to # Forever
        BY <2>2, <2>6
      <3> QED
        BY <1>2, <2>2, <2>4, <3>1, <3>2, <3>3, <3>4, JoinerIsAudited
    <2>8. ASSUME NEW d \in Nat, Valid(x, d) PROVE HasTicker(symbols, x.inst, d)
      <3>1. CASE d >= txn.eff
        BY <1>6, <1>10, <2>2, <3>1
      <3>2. CASE ~(d >= txn.eff)
        <4>1. JoinsOn <= d
          BY <2>2, <2>8 DEF Valid
        <4>2. txn.empty /\ JoinsOn = Line.from /\ Line.from # None
          BY <1>1, <2>5, <3>2, <4>1 DEF JoinsOn
        <4>3. Floor <= JoinsOn
          BY <1>1, <4>2, RowDay DEF Tidy, Line
        <4>4. d \in Floor..txn.eff
          BY <1>1, <3>2, <4>1, <4>3
        <4>5. Holds(txn.inst, Line.symbol)
          BY <1>1, <1>10 DEF Underway, Working, RowInHand
        <4>6. HasTicker(symbols, txn.inst, d)
          BY <1>1, <4>2, <4>4, <4>5 DEF Underway, Working, FirstSnapshot
        <4> QED
          BY <2>2, <4>6
      <3> QED
        BY <3>1, <3>2
    <2>9. Covered(symbols, after)
      BY <1>5, <1>10, <2>4, <2>8 DEF Covered
    <2>10. \A m : m.inst # txn.inst => (m \in after <=> m \in members)
      BY <2>2, <2>4
    <2>11. changes \subseteq logs /\ \A c \in logs : c.at <= txn.eff
      BY <1>1, <1>2, <2>2, <2>4
    <2>12. txn.empty => (\A m \in after : m.to = Forever) /\ \A c \in logs : c.action # "remove"
      BY <1>7, <2>2, <2>4
    <2> QED
      BY <1>1, <1>10, <2>3, <2>7, <2>9, <2>10, <2>11, <2>12, RowWorks
  <1>11. ASSUME Line.status # "delisted", NEW m \in Mine, NEW x, NEW kept, NEW after,
                Reweighs(members, after, m, kept, x, txn.eff), members' = after,
                Log(txn.inst, "weight_change"), NextLine({})
         PROVE  Working' /\ txn' # None /\ txn'.saved = txn.saved
    <2>1. PICK e : e = Entry(txn.inst, "weight_change", txn.eff)
      OBVIOUS
    <2>2. e.action = "weight_change" /\ e.since = txn.eff /\ e.at = txn.eff
      BY <2>1 DEF Entry
    <2>3. PICK logs : logs = changes'
      OBVIOUS
    <2>4. logs = changes \union {e} /\ m \in members /\ m.to = Forever /\ m.inst = txn.inst
      BY <1>3, <1>11, <2>1, <2>3 DEF Log
    <2>5. /\ Fits(after, txn.eff) /\ Audited(after, logs) /\ Logged(after, logs)
          /\ DaysWithin(after, members) /\ \A y : y.inst # m.inst => (y \in after <=> y \in members)
      BY <1>2, <1>11, <2>2, <2>4, WeightIsAudited
    <2>6. Covered(symbols, after)
      <3>1. Covered(symbols, members)
        BY <1>5, <1>11 DEF Covered
      <3> QED
        BY <2>5, <3>1 DEF Covered, DaysWithin
    <2>7. changes \subseteq logs /\ \A c \in logs : c.at <= txn.eff
      BY <1>1, <1>2, <2>2, <2>4
    <2>8. ~txn.empty
      BY <1>7
    <2> QED
      BY <1>1, <1>11, <2>3, <2>4, <2>5, <2>6, <2>7, <2>8, RowWorks
  <1>12. ASSUME Line.status # "delisted", InPlace,
                members' = (members \ Mine) \union {[m EXCEPT !.weight = Line.weight] : m \in Mine},
                Log(txn.inst, "weight_change"), NextLine({})
         PROVE  Working' /\ txn' # None /\ txn'.saved = txn.saved
    <2>1. PICK m \in Mine : m.from = txn.eff
      BY <1>12 DEF InPlace
    <2>2. PICK x : x = [m EXCEPT !.weight = Line.weight]
      OBVIOUS
    <2>3. m \in Membership /\ m.to = Forever
      BY <1>3 DEF Underway, Inv, TypeOK
    <2>4. x.inst = m.inst /\ x.from = txn.eff /\ x.to = Forever
      BY <2>1, <2>2, <2>3 DEF Membership
    <2>5. Mine = {m}
      BY <1>4
    <2>6. PICK after : after = members'
      OBVIOUS
    <2>7. Recut(members, after, {m}, {}, {x}, txn.eff)
      BY <1>12, <2>2, <2>5, <2>6 DEF Recut
    <2>8. Reweighs(members, after, m, {}, x, txn.eff)
      BY <1>3, <2>1, <2>4, <2>7 DEF Reweighs
    <2> QED
      BY <1>11, <1>12, <2>6, <2>8
  <1>13. ASSUME Line.status # "delisted", Rolls,
                members' = (members \ Mine) \union Closed(Mine) \union {Joined(txn.eff)},
                Log(txn.inst, "weight_change"), NextLine({})
         PROVE  Working' /\ txn' # None /\ txn'.saved = txn.saved
    <2>1. PICK m \in Mine : m.from < txn.eff
      BY <1>13 DEF Rolls, Closable
    <2>2. PICK x : x = Joined(txn.eff)
      OBVIOUS
    <2>3. x.inst = m.inst /\ x.from = txn.eff /\ x.to = Forever
      BY <1>3, <2>2 DEF Joined
    <2>4. Mine = {m}
      BY <1>4
    <2>5. PICK after : after = members'
      OBVIOUS
    <2>6. m.from # txn.eff
      BY <1>1, <1>2, <1>3, <2>1 DEF HasDays
    <2>7. Recut(members, after, {m}, {m}, {x}, txn.eff)
      BY <1>13, <2>2, <2>4, <2>5 DEF Closed, Recut
    <2>8. Reweighs(members, after, m, {m}, x, txn.eff)
      BY <1>3, <2>1, <2>3, <2>6, <2>7 DEF Reweighs
    <2> QED
      BY <1>11, <1>13, <2>5, <2>8
  <1> QED
    BY <1>8, <1>9, <1>10, <1>12, <1>13 DEF Member

-----------------------------------------------------------------------------
(* The transaction's ends *)

LEMMA CommitRecords ==
    ASSUME Underway, Commit
    PROVE  Recorded(symbols', statuses', members', changes') /\ txn' = None
  <1>1. /\ AtEnd /\ Closable(Absent) /\ UNCHANGED <<symbols, statuses>> /\ txn' = None
        /\ members' = (members \ Absent) \union Closed(Absent)
        /\ changes' = changes \union {Entry(m.inst, "remove", txn.eff) : m \in Absent}
    BY DEF Commit
  <1>2. txn \in Txn /\ txn.stage = "resolve"
    <2>1. txn \in Txn
      BY WorkingDay
    <2>2. txn.n \in Nat /\ Len(txn.file) \in Nat
      BY <2>1 DEF Txn
    <2> QED
      BY <1>1, <2>1, <2>2 DEF AtEnd, Underway, Working, RowInHand
  <1>3. Covered(symbols, members)
    BY <1>2 DEF Underway, Working, TickersStand, Doomed, Covered
  <1>4. Absent \subseteq OpenIn(members)
    <2> SUFFICES ASSUME NEW m \in members, NEW k \in Gone, k.inst = m.inst, k.from = m.from
                 PROVE  m.to = Forever
      BY DEF Absent, Members, OpenIn
    <2>1. k \in txn.open /\ m.inst \notin txn.handled
      BY DEF Gone
    <2>2. m.inst \in Instruments
      BY DEF Underway, Inv, TypeOK, Membership
    <2>3. OpenAsRead(m.inst)
      BY <2>1, <2>2 DEF Underway, Working, ReadsStand, Unsettled
    <2>4. txn.open \subseteq [inst: Instruments, from: Nat]
      BY <1>2 DEF Txn
    <2>5. k = [inst |-> m.inst, from |-> m.from]
      BY <2>1, <2>4
    <2> QED
      BY <2>1, <2>3, <2>5 DEF OpenAsRead
  <1>5. PICK after, logs, events : /\ after = members' /\ logs = changes'
                                   /\ events = {Entry(m.inst, "remove", txn.eff) : m \in Absent}
    OBVIOUS
  <1>6. \A e \in events : /\ e.action = "remove" /\ e.since = txn.eff /\ e.at = txn.eff
                          /\ \E m \in Absent : m.inst = e.inst
    BY <1>5 DEF Entry
  <1>7. \A m \in Absent : \E e \in events : e.inst = m.inst
    <2> TAKE m \in Absent
    <2>1. Entry(m.inst, "remove", txn.eff) \in events
      BY <1>5
    <2> QED
      BY <2>1 DEF Entry
  <1>8. Leaves(members, changes, after, logs, Absent, events, txn.eff)
    BY <1>1, <1>4, <1>5, <1>6, <1>7 DEF Leaves, Recut, Closed, Closable
  <1>9. /\ Fits(after, txn.eff) /\ Audited(after, logs) /\ Logged(after, logs)
        /\ DaysWithin(after, members)
    BY <1>8, MembersToday, LeaversAreAudited
  <1>10. changes \subseteq logs /\ NewDays(symbols, symbols, {}) /\ NewDays(statuses, statuses, {})
    BY <1>1, <1>5 DEF NewDays
  <1>11. DaysTold(symbols, logs) /\ DaysTold(statuses, logs)
    BY <1>10, DaysStayTold DEF Underway, Working, TablesFit, Consistent
  <1>12. Consistent(symbols, statuses, after, logs)
    BY <1>9, <1>11 DEF Underway, Working, TablesFit, Consistent, Fits
  <1>13. Covered(symbols, after)
    BY <1>3, <1>9 DEF Covered, DaysWithin
  <1> QED
    BY <1>1, <1>5, <1>12, <1>13 DEF Recorded

LEMMA AbortRecords ==
    ASSUME Abort, txn # None => Recorded(txn.saved.symbols, txn.saved.statuses,
                                         txn.saved.members, txn.saved.changes)
    PROVE  Recorded(symbols', statuses', members', changes') /\ txn' = None
  BY DEF Abort, Fails, At, AtEnd

LEMMA BeginWorks ==
    ASSUME OneRecord, Inv, Inv', SyncInv, NEW u \in Universes, NEW f \in Files, NEW d \in Dates, Begin(u, f, d)
    PROVE  SyncInv'
  <1>1. /\ Recorded(symbols, statuses, members, changes) /\ InOrder(u, d) /\ TypeOK /\ Identity(symbols)
        /\ UNCHANGED <<symbols, statuses, members, changes>>
    BY DEF SyncInv, Begin, tables, Inv
  <1>2. /\ txn'.stage = "resolve" /\ txn'.universe = u /\ txn'.file = f /\ txn'.eff = d
        /\ txn'.n = 1 /\ txn'.handled = {} /\ txn'.empty = (Events(u) = {})
        /\ txn'.open = {[inst |-> m.inst, from |-> m.from] :
                            m \in {x \in members : x.universe = u /\ x.to = Forever}}
        /\ txn'.saved.symbols = symbols /\ txn'.saved.statuses = statuses
        /\ txn'.saved.members = members /\ txn'.saved.changes = changes
    BY DEF Begin
  <1>3. d \in Nat /\ Floor \in Nat /\ Floor <= d /\ d # Forever
    BY SnapshotAssumption DEF Dates
  <1>4. (\A m \in members : m.universe = u) /\ (\A c \in changes : c.universe = u)
    BY <1>1 DEF TypeOK, Membership, Change, OneRecord
  <1>5. /\ \A m \in members : m.from \in Events(u) /\ (m.to = Forever \/ m.to \in Events(u))
        /\ \A c \in changes : c.at \in Events(u)
    BY <1>4 DEF Events
  <1>6. UpTo(members, d) /\ \A c \in changes : c.at <= d
    BY <1>1, <1>5 DEF InOrder, UpTo
  <1>7. HasDays(symbols) /\ HasDays(statuses) /\ HasDays(members) /\ \A c \in changes : c.at \in Nat
    BY <1>1, TablesAreDated DEF TypeOK, Change
  <1>8. \A e \in Nat : Told(changes, e) => e <= d
    BY <1>3, <1>6, <1>7 DEF Told
  <1>9. UpTo(symbols, d) /\ UpTo(statuses, d)
    BY <1>1, <1>7, <1>8 DEF Recorded, Consistent, DaysTold, UpTo, HasDays
  <1>10. TablesFit'
    BY <1>1, <1>2, <1>6, <1>9 DEF TablesFit, Recorded
  <1>11. TickersStand'
    BY <1>1 DEF TickersStand, Recorded, Covered
  <1>12. ReadsStand'
    <2> SUFFICES ASSUME NEW i \in Instruments, NEW m \in members, m.inst = i
                 PROVE  m.to = Forever <=> [inst |-> i, from |-> m.from] \in txn'.open
      BY <1>1 DEF ReadsStand, OpenAsRead
    <2>1. ASSUME m.to = Forever PROVE [inst |-> i, from |-> m.from] \in txn'.open
      BY <1>2, <1>4, <2>1
    <2>2. ASSUME [inst |-> i, from |-> m.from] \in txn'.open PROVE m.to = Forever
      <3>1. PICK x \in members : /\ x.to = Forever
                                 /\ [inst |-> i, from |-> m.from] = [inst |-> x.inst, from |-> x.from]
        BY <1>2, <2>2
      <3>2. x.inst = i /\ x.from = m.from
        BY <3>1
      <3> QED
        BY <1>1, <1>7, <3>1, <3>2 DEF Recorded, Consistent, Proper, Apart, Overlap, HasDays
    <2> QED
      BY <2>1, <2>2
  <1>13. RowsHandled' /\ RowInHand'
    BY <1>2 DEF RowsHandled, RowInHand
  <1>14. FirstSnapshot'
    <2> SUFFICES ASSUME Events(u) = {} PROVE FirstSnapshot'
      BY <1>2 DEF FirstSnapshot
    <2>1. members = {} /\ changes = {}
      BY <1>5
    <2>2. \A e : Told(changes, e) => e = Floor
      BY <2>1 DEF Told
    <2>3. \A r \in symbols : r.from = Floor
      BY <1>1, <2>2 DEF Recorded, Consistent, DaysTold
    <2>4. ASSUME NEW i, NEW t, Holds(i, t), NEW e \in Floor..d PROVE HasTicker(symbols, i, e)
      BY <1>3, <2>3, <2>4 DEF Holds, HoldsIn, HasTicker, Valid
    <2>5. \A i, t : Holds(i, t)' <=> Holds(i, t)
      BY <1>1 DEF Holds
    <2> QED
      BY <1>1, <1>2, <2>1, <2>4, <2>5 DEF FirstSnapshot
  <1>15. txn' # None
    BY <1>1, BeginType, NoTransaction
  <1> QED
    BY <1>1, <1>2, <1>10, <1>11, <1>12, <1>13, <1>14, <1>15 DEF SyncInv, Working

LEMMA WorkingStands ==
    ASSUME Working, UNCHANGED vars
    PROVE  Working'
  <1>1. /\ UNCHANGED <<symbols, statuses, members, changes, txn>> /\ Line' = Line /\ InHand' = InHand
    BY DEF vars, tables, Line, InHand
  <1>2. TablesFit' /\ TickersStand' /\ RowInHand'
    BY <1>1 DEF Working, TablesFit, TickersStand, Doomed, RowInHand, Holds
  <1>3. \A i : (Unsettled(i)' <=> Unsettled(i)) /\ (OpenAsRead(i)' <=> OpenAsRead(i))
    BY <1>1 DEF Unsettled, OpenAsRead
  <1>4. ReadsStand' /\ RowsHandled'
    BY <1>1, <1>3 DEF Working, ReadsStand, RowsHandled, Used, Holds
  <1>5. FirstSnapshot'
    BY <1>1 DEF Working, FirstSnapshot, Holds
  <1> QED
    BY <1>1, <1>2, <1>4, <1>5 DEF Working

LEMMA SyncStep ==
    ASSUME OneRecord, Inv, TerminalInv, Inv', SyncInv, [Next]_vars
    PROVE  SyncInv'
  <1>1. CASE UNCHANGED vars
    <2>1. UNCHANGED <<symbols, statuses, members, changes, txn>>
      BY <1>1 DEF vars, tables
    <2> QED
      BY <1>1, <2>1, WorkingStands DEF SyncInv
  <1>2. CASE \E u \in Universes, f \in Files, d \in Dates : Begin(u, f, d)
    BY <1>2, BeginWorks
  <1>3. CASE Resolve \/ Exchange \/ Status \/ Member
    <2>1. txn # None
      BY <1>3 DEF Resolve, Exchange, Status, Member, At
    <2>2. Underway
      BY <2>1 DEF Underway, SyncInv
    <2>3. Working' /\ txn' # None /\ txn'.saved = txn.saved
      BY <1>3, <2>2, ResolveWorks, ExchangeWorks, StatusWorks, MemberWorks
    <2> QED
      BY <2>1, <2>3 DEF SyncInv
  <1>4. CASE Commit
    <2>1. Underway
      BY <1>4 DEF Commit, AtEnd, Underway, SyncInv
    <2> QED
      BY <1>4, <2>1, CommitRecords DEF SyncInv
  <1>5. CASE Abort
    BY <1>5, AbortRecords DEF SyncInv
  <1>6. CASE \/ \E old, new \in Tickers, d \in Dates : InstrumentRename(old, new, d)
             \/ \E t \in Tickers, ex \in Exchanges, d \in Dates : InstrumentExchange(t, ex, d)
             \/ \E t \in Tickers, want \in STATUSES, d \in Dates : InstrumentStatus(t, want, d)
    BY <1>6 DEF OneRecord, InstrumentRename, InstrumentExchange, InstrumentStatus, Command
  <1> QED
    BY <1>1, <1>2, <1>3, <1>4, <1>5, <1>6 DEF Next

LEMMA SyncHolds ==
    ASSUME OneRecord
    PROVE  Spec => []SyncInv
  <1>1. Init => SyncInv
    BY DEF Init, SyncInv, Recorded, Covered, Consistent, Proper, Apart, DaysTold, Audited, Logged, IsMember, SinceOf
  <1>2. Inv /\ TerminalInv /\ Inv' /\ SyncInv /\ [Next]_vars => SyncInv'
    BY SyncStep
  <1> QED
    BY <1>1, <1>2, InvHolds, TerminalHolds, PTL DEF Spec

-----------------------------------------------------------------------------
(* What it says of the record *)

LEMMA NoOverlaps ==
    ASSUME NEW rows, HasDays(rows), Proper(rows), \A r, s \in rows : ~Overlap(r, s)
    PROVE  ~Overlaps(rows)
  BY DEF Overlaps, NextAfter, Overlap, HasDays, Proper

\* The newest ticker up to a day is the one of the day, when there is one.
LEMMA NewestIsValid ==
    ASSUME Inv, NEW i, NEW d \in Nat, NEW r \in SymbolOn(i, d)
    PROVE  TickersUpTo(i, d) = {r} /\ SymbolOn(i, d) = {r}
  <1>1. /\ HasDays(symbols) /\ Proper(symbols) /\ Apart(symbols)
    BY TablesAreDated DEF Inv, Identity, Proper, Apart
  <1>2. r \in symbols /\ r.inst = i /\ r.from <= d /\ (r.to = Forever \/ d < r.to)
    BY DEF SymbolOn, Valid
  <1>3. ASSUME NEW s \in symbols, s.inst = i, s.from <= d, r.from <= s.from PROVE s = r
    BY <1>1, <1>2, <1>3 DEF Apart, Proper, Overlap, HasDays
  <1>4. ASSUME NEW s \in SymbolOn(i, d) PROVE s = r
    BY <1>1, <1>2, <1>4 DEF SymbolOn, Valid, Apart, Overlap, HasDays
  <1>5. r \in TickersUpTo(i, d)
    BY <1>1, <1>2, <1>3 DEF TickersUpTo, Newest, HasDays
  <1>6. ASSUME NEW s \in TickersUpTo(i, d) PROVE s = r
    BY <1>2, <1>3, <1>6 DEF TickersUpTo, Newest
  <1> QED
    BY <1>4, <1>5, <1>6

\* An instrument with a ticker up to a day has one newest.
LEMMA OneNewest ==
    ASSUME Inv, NEW i, NEW d \in Nat, NEW r \in symbols, r.inst = i, r.from <= d
    PROVE  \E n : TickersUpTo(i, d) = {n}
  <1>1. /\ HasDays(symbols) /\ Proper(symbols) /\ Apart(symbols)
    BY TablesAreDated DEF Inv, Identity, Proper, Apart
  <1>2. PICK rows : rows = {s \in symbols : s.inst = i /\ s.from <= d}
    OBVIOUS
  <1>3. PICK days : days = {d - s.from : s \in rows}
    OBVIOUS
  <1>4. days \subseteq Nat /\ days # {}
    <2>1. \A s \in rows : d - s.from \in Nat
      BY <1>1, <1>2 DEF HasDays
    <2>2. r \in rows
      BY <1>2
    <2> QED
      BY <1>3, <2>1, <2>2
  <1>5. PICK least \in days : \A e \in days : least <= e
    BY <1>4, LeastOfNaturals
  <1>6. PICK n \in rows : least = d - n.from
    BY <1>3
  <1>7. ASSUME NEW s \in rows PROVE s.from <= n.from
    <2>1. d - n.from <= d - s.from
      BY <1>3, <1>5, <1>6
    <2> QED
      BY <1>1, <1>2, <2>1 DEF HasDays
  <1>8. ASSUME NEW s \in rows, n.from <= s.from PROVE s = n
    <2>1. s.from = n.from
      BY <1>1, <1>2, <1>7, <1>8 DEF HasDays
    <2> QED
      BY <1>1, <1>2, <2>1 DEF Apart, Proper, Overlap, HasDays
  <1>9. TickersUpTo(i, d) = Newest(rows)
    BY <1>2 DEF TickersUpTo
  <1>10. Newest(rows) = {n}
    BY <1>7, <1>8 DEF Newest
  <1> QED
    BY <1>9, <1>10

LEMMA RecordFollows ==
    ASSUME OneRecord, Inv, SyncInv
    PROVE  RecordIsConsistent
  <1>1. /\ TypeOK /\ HasDays(symbols) /\ HasDays(statuses) /\ HasDays(members) /\ Proper(symbols)
        /\ \A r, s \in symbols : r.inst = s.inst \/ r.symbol = s.symbol => ~Overlap(r, s)
    BY TablesAreDated DEF Inv, Identity, Proper
  <1>2. Consistent(symbols, statuses, members, changes)
    BY DEF SyncInv, Recorded, Working, TablesFit
  <1>3. txn = None => Covered(symbols, members)
    BY DEF SyncInv, Recorded
  <1>4. PeriodsAreDisjoint
    BY <1>2 DEF Consistent, Apart, PeriodsAreDisjoint
  <1>5. MembersHaveATicker
    <2>1. Dates \subseteq Nat
      BY SnapshotAssumption DEF Dates
    <2> QED
      BY <1>3, <2>1 DEF Covered, MembersHaveATicker, HasTicker, SymbolOn
  <1>6. AuditTrail
    <2> SUFFICES ASSUME NEW u \in Universes, NEW i \in Instruments
                 PROVE  (\E m \in members : m.universe = u /\ m.inst = i /\ m.to = Forever)
                          <=> \E a \in Dated(u, i, "add") : \A r \in Dated(u, i, "remove") : r <= a
      BY DEF AuditTrail
    <2>1. (\A m \in members : m.universe = u) /\ \A c \in changes : c.universe = u
      BY <1>1 DEF OneRecord, TypeOK, Membership, Change
    <2>2. \A action : Dated(u, i, action) = SinceOf(changes, i, action)
      BY <2>1 DEF Dated, SinceOf
    <2>3. (\E m \in members : m.universe = u /\ m.inst = i /\ m.to = Forever) <=> IsMember(members, i)
      BY <2>1 DEF IsMember
    <2> QED
      BY <1>2, <2>2, <2>3 DEF Consistent, Audited
  <1>7. RangesAgree
    <2> SUFFICES ASSUME txn = None, NEW u \in Universes, NEW d \in Dates
                 PROVE  /\ MembersOn(u, d) \subseteq InstrumentsBetween(u, d, d)
                        /\ \A i \in MembersOn(u, d) : Label(i, d) = {r.symbol : r \in SymbolOn(i, d)}
                        /\ \A i \in InstrumentsBetween(u, Floor, d) : Cardinality(Label(i, d)) = 1
      BY DEF RangesAgree
    <2>1. d \in Nat
      BY SnapshotAssumption DEF Dates
    <2>2. MembersOn(u, d) \subseteq InstrumentsBetween(u, d, d)
      BY <1>1, <2>1 DEF MembersOn, InstrumentsBetween, Valid, HasDays
    <2>3. ASSUME NEW i \in MembersOn(u, d) PROVE Label(i, d) = {r.symbol : r \in SymbolOn(i, d)}
      <3>1. PICK r : r \in SymbolOn(i, d)
        BY <2>3 DEF MembersOn
      <3>2. TickersUpTo(i, d) = {r} /\ SymbolOn(i, d) = {r}
        BY <2>1, <3>1, NewestIsValid
      <3> QED
        BY <3>2 DEF Label
    <2>4. ASSUME NEW i \in InstrumentsBetween(u, Floor, d) PROVE Cardinality(Label(i, d)) = 1
      <3>1. PICK m \in members : m.inst = i /\ m.from <= d
        BY <2>4 DEF InstrumentsBetween
      <3>2. PICK r \in symbols : r.inst = i /\ r.from <= m.from
        <4>1. m.from \in Nat /\ Valid(m, m.from)
          BY <1>1, <1>2 DEF HasDays, Consistent, Proper, Valid
        <4> QED
          BY <1>3, <3>1, <4>1 DEF Covered, HasTicker, Valid
      <3>3. r.from <= d
        BY <1>1, <2>1, <3>1, <3>2 DEF HasDays
      <3>4. PICK n : TickersUpTo(i, d) = {n}
        BY <2>1, <3>2, <3>3, OneNewest
      <3>5. Label(i, d) = {n.symbol}
        BY <3>4 DEF Label
      <3> QED
        BY <3>5, FS_Singleton
    <2> QED
      BY <2>2, <2>3, <2>4
  <1>8. txn = None => check_integrity = {}
    <2> HAVE txn = None
    <2>1. \A i : ~Overlaps({r \in symbols : r.inst = i})
      <3> TAKE i
      <3>1. PICK rows : rows = {r \in symbols : r.inst = i}
        OBVIOUS
      <3>2. HasDays(rows) /\ Proper(rows) /\ \A r, s \in rows : ~Overlap(r, s)
        BY <1>1, <3>1 DEF HasDays, Proper
      <3> QED
        BY <3>1, <3>2, NoOverlaps
    <2>2. \A t : ~Overlaps(OfTicker(t))
      <3> TAKE t
      <3>1. PICK rows : rows = OfTicker(t)
        OBVIOUS
      <3>2. HasDays(rows) /\ Proper(rows) /\ \A r, s \in rows : ~Overlap(r, s)
        BY <1>1, <3>1 DEF HasDays, Proper, OfTicker
      <3> QED
        BY <3>1, <3>2, NoOverlaps
    <2>3. \A i : ~Overlaps({r \in statuses : r.inst = i})
      <3> TAKE i
      <3>1. PICK rows : rows = {r \in statuses : r.inst = i}
        OBVIOUS
      <3>2. HasDays(rows) /\ Proper(rows) /\ \A r, s \in rows : ~Overlap(r, s)
        BY <1>1, <1>2, <3>1 DEF HasDays, Proper, Consistent, Apart
      <3> QED
        BY <3>1, <3>2, NoOverlaps
    <2>4. \A x \in members : ~Overlaps({y \in members : y.universe = x.universe /\ y.inst = x.inst})
      <3> TAKE x \in members
      <3>1. PICK rows : rows = {y \in members : y.universe = x.universe /\ y.inst = x.inst}
        OBVIOUS
      <3>2. HasDays(rows) /\ Proper(rows) /\ \A r, s \in rows : ~Overlap(r, s)
        BY <1>1, <1>2, <3>1 DEF HasDays, Proper, Consistent, Apart
      <3> QED
        BY <3>1, <3>2, NoOverlaps
    <2>5. ASSUME NEW x \in members PROVE SymbolOn(x.inst, x.from) # {}
      <3>1. x.from \in Nat /\ Valid(x, x.from)
        BY <1>1, <1>2 DEF HasDays, Consistent, Proper, Valid
      <3> QED
        BY <1>3, <3>1 DEF Covered, HasTicker, SymbolOn
    <2> HIDE DEF Overlaps
    <2> QED
      BY <2>1, <2>2, <2>3, <2>4, <2>5 DEF check_integrity
  <1> QED
    BY <1>4, <1>5, <1>6, <1>7, <1>8 DEF RecordIsConsistent

\* After every snapshot of one universe, whatever the files say that are tidy, in whatever
\* order and on whatever dates they come, and whichever of them fail: no two periods of a
\* member or of a status overlap, a member has a ticker on each of its days, the change log
\* tells who is a member, the range lookup names whom the day's lookup names, and
\* check_integrity reports nothing (apply_snapshot, universe.py, repo.py).
THEOREM RecordIsConsistentAlways ==
    ASSUME OneRecord
    PROVE  Spec => []RecordIsConsistent
  <1>1. Inv /\ SyncInv => RecordIsConsistent
    BY RecordFollows
  <1> QED
    BY <1>1, InvHolds, SyncHolds, PTL

-----------------------------------------------------------------------------
(* A snapshot takes hold: what each row of an applied file finds           *)

ListedAs(syms, l, i) ==
    \E r \in syms : /\ r.inst = i /\ r.symbol = l.symbol /\ r.to = Forever
                    /\ l.exchange # None => r.exchange = l.exchange
RenamedOn(syms, l, i, d) ==
    l.prev # None => \E s \in syms : s.inst = i /\ s.symbol = l.prev /\ s.to = d
MayTrade(sts, l, i) ==
    /\ l.status = "active" => \A s \in sts : s.inst = i => s.to # Forever
    /\ l.status = "suspended" => \E s \in sts : s.inst = i /\ s.to = Forever /\ s.status = "suspended"
Belongs(mems, l, i) == \E m \in mems : m.inst = i /\ m.to = Forever /\ m.weight = l.weight
Stays(syms, sts, mems, l, d) ==
    \E i \in Instruments :
        ListedAs(syms, l, i) /\ RenamedOn(syms, l, i, d) /\ MayTrade(sts, l, i) /\ Belongs(mems, l, i)

\* The last row of a ticker is of this instrument.
LatestOf(syms, t, i) ==
    \E r \in syms : r.symbol = t /\ r.inst = i /\ \A s \in syms : s.symbol = t => s.from <= r.from
Ceased(syms, t) == \A r \in syms : r.symbol = t => r.to # Forever
HasLeft(syms, sts, mems, l) ==
    /\ l.prev = None /\ Ceased(syms, l.symbol)
    /\ \E i \in Instruments : LatestOf(syms, l.symbol, i) /\ DelistedIn(sts, i) /\ ~IsMember(mems, i)

RowHolds(syms, sts, mems, l, d) ==
    IF l.status = "delisted" THEN HasLeft(syms, sts, mems, l) ELSE Stays(syms, sts, mems, l, d)
AppliedTo(syms, sts, mems, file, d) ==
    /\ \A k \in 1..Len(file) : RowHolds(syms, sts, mems, file[k], d)
    /\ \A m \in OpenIn(mems) : \E k \in 1..Len(file) :
           file[k].status # "delisted" /\ HoldsIn(syms, m.inst, file[k].symbol)
    /\ UpTo(syms, d) /\ UpTo(sts, d) /\ UpTo(mems, d)

-----------------------------------------------------------------------------
(* ... and what holds of the rows behind, and of the one in hand *)

RowsApplied ==
    \A k \in 1..(txn.n - 1) :
        /\ RowHolds(symbols, statuses, members, txn.file[k], txn.eff)
        /\ txn.file[k].status # "delisted" =>
               \A i : Holds(i, txn.file[k].symbol) => i \in txn.handled \ InHand
LeaversGone == \A i \in txn.handled \ InHand : DelistedIn(statuses, i) => ~IsMember(members, i)
RowUnderway ==
    /\ txn.stage # "resolve" /\ Line.status # "delisted" =>
           /\ RenamedOn(symbols, Line, txn.inst, txn.eff)
           /\ txn.stage # "exchange" \/ txn.isNew => ListedAs(symbols, Line, txn.inst)
           /\ txn.stage = "member" => MayTrade(statuses, Line, txn.inst)
    /\ txn.stage # "resolve" /\ Line.status = "delisted" =>
           /\ LatestOf(symbols, Line.symbol, txn.inst)
           /\ Line.prev # None => \E r \in symbols : r.inst = txn.inst /\ r.to = Forever /\ r.from = txn.eff
           /\ txn.stage = "member" => Ceased(symbols, Line.symbol)
Applying == RowsApplied /\ LeaversGone /\ RowUnderway

\* A transaction that applies once more what was applied last.
Repeats == request # None /\ Again({request.eff})
Unchanged ==
    /\ symbols = txn.saved.symbols /\ statuses = txn.saved.statuses
    /\ members = txn.saved.members /\ changes = txn.saved.changes

AppliedInv ==
    /\ txn = None /\ request # None => AppliedTo(symbols, statuses, members, request.file, request.eff)
    /\ txn # None /\ request # None =>
           AppliedTo(txn.saved.symbols, txn.saved.statuses, txn.saved.members, request.file, request.eff)
    /\ txn # None => Applying /\ txn.n <= Len(txn.file) + 1 /\ (Repeats => Unchanged)

-----------------------------------------------------------------------------
(* The rows behind stand *)

OnlyOf(rows, after, j) == \A r : r.inst # j => (r \in after <=> r \in rows)
\* Symbol rows change only while they are open; those that come are under the ticker of
\* the row or under one that was open.
Touches(rows, after, j, t) ==
    /\ \A r \in rows : r \notin after => r.to = Forever /\ r.inst = j
    /\ \A r \in after : r \notin rows =>
           /\ r.inst = j
           /\ r.symbol = t \/ \E q \in rows : q.symbol = r.symbol /\ q.to = Forever /\ q.inst = j

Shifts(j, t) ==
    /\ Touches(symbols, symbols', j, t) /\ OnlyOf(statuses, statuses', j) /\ OnlyOf(members, members', j)
    /\ DelistedIn(statuses, j) => DelistedIn(statuses', j) /\ (~IsMember(members, j) => ~IsMember(members', j))

LEMMA RowStays ==
    ASSUME NEW j, NEW t, Shifts(j, t), NEW l, NEW d, l.symbol # t,
           l.status # "delisted" => ~Holds(j, l.symbol), RowHolds(symbols, statuses, members, l, d)
    PROVE  RowHolds(symbols', statuses', members', l, d)
  <1>1. PICK syms, sts, mems : syms = symbols' /\ sts = statuses' /\ mems = members'
    OBVIOUS
  <1>2. /\ Touches(symbols, syms, j, t) /\ OnlyOf(statuses, sts, j) /\ OnlyOf(members, mems, j)
        /\ DelistedIn(statuses, j) => DelistedIn(sts, j) /\ (~IsMember(members, j) => ~IsMember(mems, j))
    BY <1>1 DEF Shifts
  <1>3. CASE l.status # "delisted"
    <2>1. PICK i \in Instruments :
              /\ ListedAs(symbols, l, i) /\ RenamedOn(symbols, l, i, d) /\ MayTrade(statuses, l, i)
              /\ Belongs(members, l, i)
      BY <1>3 DEF RowHolds, Stays
    <2>2. i # j
      BY <1>3, <2>1 DEF ListedAs, Holds, HoldsIn
    <2>3. \A r : r.inst = i => (r \in syms <=> r \in symbols) /\ (r \in sts <=> r \in statuses) /\ (r \in mems <=> r \in members)
      BY <1>2, <2>2 DEF Touches, OnlyOf
    <2>4. ListedAs(syms, l, i) /\ RenamedOn(syms, l, i, d)
      BY <2>1, <2>3 DEF ListedAs, RenamedOn
    <2>5. MayTrade(sts, l, i) /\ Belongs(mems, l, i)
      BY <2>1, <2>3 DEF MayTrade, Belongs
    <2> QED
      BY <1>1, <1>3, <2>4, <2>5 DEF RowHolds, Stays
  <1>4. CASE l.status = "delisted"
    <2>1. PICK i \in Instruments : LatestOf(symbols, l.symbol, i) /\ DelistedIn(statuses, i) /\ ~IsMember(members, i)
      BY <1>4 DEF RowHolds, HasLeft
    <2>2. l.prev = None /\ Ceased(symbols, l.symbol)
      BY <1>4 DEF RowHolds, HasLeft
    <2>3. \A r : r.symbol = l.symbol => (r \in syms <=> r \in symbols)
      BY <1>2, <2>2 DEF Touches, Ceased
    <2>4. LatestOf(syms, l.symbol, i) /\ Ceased(syms, l.symbol)
      BY <2>1, <2>2, <2>3 DEF LatestOf, Ceased
    <2>5. DelistedIn(sts, i) /\ ~IsMember(mems, i)
      BY <1>2, <2>1 DEF OnlyOf, DelistedIn, IsMember
    <2> QED
      BY <1>1, <1>4, <2>2, <2>4, <2>5 DEF RowHolds, HasLeft
  <1> QED
    BY <1>3, <1>4

LEMMA RowsBehind ==
    ASSUME Underway, Applying, NEW stage, At(stage), NEW j, Shifts(j, Line.symbol), Unsettled(j)
    PROVE  \A k \in 1..(txn.n - 1) :
               /\ RowHolds(symbols', statuses', members', txn.file[k], txn.eff)
               /\ txn.file[k].status # "delisted" =>
                      \A i : HoldsIn(symbols', i, txn.file[k].symbol) => i \in txn.handled \ InHand /\ i # j
  <1> TAKE k \in 1..(txn.n - 1)
  <1>1. /\ txn.n \in 1..Len(txn.file) /\ Len(txn.file) \in Nat /\ txn.file \in Files
        /\ Terminal(symbols, statuses)
    BY RowDay, WorkingDay
  <1>2. k \in 1..Len(txn.file) /\ txn.file[k].symbol # Line.symbol
    BY <1>1, SnapshotAssumption DEF Line
  <1>3. PICK l : l = txn.file[k]
    OBVIOUS
  <1>4. /\ RowHolds(symbols, statuses, members, l, txn.eff) /\ l.symbol # Line.symbol
        /\ l.status # "delisted" => \A i : Holds(i, l.symbol) => i \in txn.handled \ InHand
    BY <1>2, <1>3 DEF Applying, RowsApplied
  <1>5. l.status # "delisted" => ~Holds(j, l.symbol)
    BY <1>1, <1>4, DelistedIs DEF Unsettled, Holds
  <1>6. RowHolds(symbols', statuses', members', l, txn.eff)
    BY <1>4, <1>5, RowStays
  <1>7. ASSUME l.status # "delisted", NEW i, HoldsIn(symbols', i, l.symbol)
        PROVE  i \in txn.handled \ InHand /\ i # j
    <2>1. PICK syms : syms = symbols'
      OBVIOUS
    <2>2. PICK r \in syms : r.inst = i /\ r.symbol = l.symbol /\ r.to = Forever
      BY <1>7, <2>1 DEF HoldsIn
    <2>3. Touches(symbols, syms, j, Line.symbol)
      BY <2>1 DEF Shifts
    <2>4. r \in symbols
      BY <1>4, <1>5, <1>7, <2>2, <2>3 DEF Touches, Holds, HoldsIn
    <2>5. Holds(i, l.symbol)
      BY <2>2, <2>4 DEF Holds, HoldsIn
    <2> QED
      BY <1>4, <1>5, <1>7, <2>5
  <1> QED
    BY <1>3, <1>6, <1>7

-----------------------------------------------------------------------------
(* A stage that keeps the row in hand *)

LEMMA StageApplies ==
    ASSUME Underway, Applying, NEW stage, At(stage), SameTxn, NEW j, txn'.inst = j,
           txn'.stage # "resolve", txn'.handled = txn.handled \union {j},
           InHand \subseteq {j}, Shifts(j, Line.symbol), Unsettled(j)
    PROVE  RowsApplied' /\ LeaversGone' /\ Line' = Line
  <1>1. /\ InHand' = {j} /\ Line' = Line
        /\ txn'.handled \ InHand' = (txn.handled \ InHand) \ {j}
    BY DEF InHand, Line, SameTxn
  <1>2. RowsApplied'
    <2> SUFFICES ASSUME NEW k \in 1..(txn.n - 1)
                 PROVE  /\ RowHolds(symbols', statuses', members', txn.file[k], txn.eff)
                        /\ txn.file[k].status # "delisted" =>
                               \A i : HoldsIn(symbols', i, txn.file[k].symbol) => i \in txn'.handled \ InHand'
      BY DEF RowsApplied, SameTxn, Holds
    <2> QED
      BY <1>1, RowsBehind
  <1>3. LeaversGone'
    <2> SUFFICES ASSUME NEW i \in txn'.handled \ InHand', DelistedIn(statuses', i)
                 PROVE  ~IsMember(members', i)
      BY DEF LeaversGone
    <2>1. i \in txn.handled \ InHand /\ i # j
      BY <1>1
    <2>2. DelistedIn(statuses, i)
      BY <2>1 DEF Shifts, OnlyOf, DelistedIn
    <2>3. ~IsMember(members, i)
      BY <2>1, <2>2 DEF Applying, LeaversGone
    <2> QED
      BY <2>3 DEF SameTxn, IsMember
  <1> QED
    BY <1>1, <1>2, <1>3

\* What RowUnderway says at a stage, of the tables as they are then.
UnderwayOf(syms, sts, l, i, isNew, stage, d) ==
    /\ l.status # "delisted" =>
           /\ RenamedOn(syms, l, i, d)
           /\ stage # "exchange" \/ isNew => ListedAs(syms, l, i)
           /\ stage = "member" => MayTrade(sts, l, i)
    /\ l.status = "delisted" =>
           /\ LatestOf(syms, l.symbol, i)
           /\ l.prev # None => \E r \in syms : r.inst = i /\ r.to = Forever /\ r.from = d
           /\ stage = "member" => Ceased(syms, l.symbol)

LEMMA RowIsUnderway ==
    ASSUME Applying, txn.stage # "resolve"
    PROVE  UnderwayOf(symbols, statuses, Line, txn.inst, txn.isNew, txn.stage, txn.eff)
  BY DEF Applying, RowUnderway, UnderwayOf

LEMMA RowComesUnderway ==
    ASSUME Line' = Line, txn'.eff = txn.eff, txn'.stage # "resolve",
           UnderwayOf(symbols', statuses', Line, txn'.inst, txn'.isNew, txn'.stage, txn.eff)
    PROVE  RowUnderway'
  <1>1. PICK syms, sts, i, isNew, stage : /\ syms = symbols' /\ sts = statuses' /\ i = txn'.inst
                                          /\ isNew = txn'.isNew /\ stage = txn'.stage
    OBVIOUS
  <1>2. UnderwayOf(syms, sts, Line, i, isNew, stage, txn.eff)
    BY <1>1
  <1> QED
    BY <1>1, <1>2 DEF RowUnderway, UnderwayOf

LEMMA RenameIsKept ==
    ASSUME NEW rows, NEW after, NEW j, NEW t, Touches(rows, after, j, t), NEW l, NEW i, NEW d, d # Forever,
           RenamedOn(rows, l, i, d)
    PROVE  RenamedOn(after, l, i, d)
  BY DEF Touches, RenamedOn

\* The open row of an instrument is replaced on day D, or as of the day it began.
Replaces(rows, after, q, new, D) ==
    /\ q \in rows /\ q.to = Forever
    /\ new.inst = q.inst /\ new.symbol = q.symbol /\ new.to = Forever
    /\ \/ after = (rows \ {q}) \union {new} /\ new.from = q.from
       \/ after = (rows \ {q}) \union {Ended(q, D), new} /\ new.from = D /\ q.from < D

LEMMA ReplacedTouches ==
    ASSUME NEW D, NEW rows, EndsOn(rows, D), NEW after, NEW q, NEW new, Replaces(rows, after, q, new, D),
           Ended(q, D).symbol = q.symbol, NEW t
    PROVE  Touches(rows, after, q.inst, t)
  BY DEF Touches, Replaces, EndsOn

LEMMA LatestIsKept ==
    ASSUME NEW D \in Nat, NEW rows, HasDays(rows), EndsOn(rows, D), UpTo(rows, D), NEW after, NEW q, NEW new,
           Replaces(rows, after, q, new, D), Ended(q, D).symbol = q.symbol, NEW t, LatestOf(rows, t, q.inst)
    PROVE  LatestOf(after, t, q.inst)
  <1>1. PICK r \in rows : r.symbol = t /\ r.inst = q.inst /\ \A s \in rows : s.symbol = t => s.from <= r.from
    BY DEF LatestOf
  <1>2. q \in rows /\ new.inst = q.inst /\ new.symbol = q.symbol
    BY DEF Replaces
  <1>3. CASE q.symbol # t
    <2>1. r \in after /\ \A s \in after : s.symbol = t => s \in rows
      BY <1>1, <1>2, <1>3 DEF Replaces
    <2> QED
      BY <1>1, <2>1 DEF LatestOf
  <1>4. CASE q.symbol = t /\ new.from = q.from /\ after = (rows \ {q}) \union {new}
    <2>1. CASE r = q
      BY <1>1, <1>2, <1>4, <2>1 DEF LatestOf
    <2>2. CASE r # q
      BY <1>1, <1>2, <1>4, <2>2 DEF LatestOf
    <2> QED
      BY <2>1, <2>2
  <1>5. CASE q.symbol = t /\ new.from = D /\ after = (rows \ {q}) \union {Ended(q, D), new}
    <2>1. \A s \in after : s.from <= D
      BY <1>2, <1>5 DEF UpTo, EndsOn
    <2> QED
      BY <1>2, <1>5, <2>1 DEF LatestOf
  <1> QED
    BY <1>3, <1>4, <1>5 DEF Replaces

LEMMA StageTxn ==
    ASSUME Underway, NEW stage \in {"exchange", "status"}, At(stage), NEW next \in {"status", "member"},
           txn' = [txn EXCEPT !.stage = next], members' = members
    PROVE  /\ SameTxn /\ txn'.stage = next /\ txn'.inst = txn.inst /\ txn'.isNew = txn.isNew
           /\ txn'.handled = txn.handled /\ txn.handled = txn.handled \union {txn.inst}
           /\ InHand = {txn.inst} /\ txn.stage = stage /\ Unsettled(txn.inst)
  <1>1. /\ txn \in Txn /\ txn.stage = stage
    BY RowDay, WorkingDay
  <1>2. txn' \in Txn
    BY StageType DEF Inv, Underway, Stages
  <1>3. /\ SameTxn /\ txn'.stage = next /\ txn'.inst = txn.inst /\ txn'.isNew = txn.isNew
        /\ txn'.handled = txn.handled
    BY <1>1, <1>2, NoTransaction DEF SameTxn, Txn
  <1>4. txn.inst \in txn.handled
    BY <1>1 DEF Underway, Working, RowInHand
  <1>5. InHand = {txn.inst}
    BY <1>1 DEF InHand
  <1> QED
    BY <1>1, <1>3, <1>4, <1>5 DEF Unsettled

\* The ticker that holds on the day is the open one.
LEMMA TickerOfTheDay ==
    ASSUME Underway, NEW i
    PROVE  /\ SymbolOn(i, txn.eff) = OpenSymbol(i) /\ Newest(SymbolOn(i, txn.eff)) = OpenSymbol(i)
           /\ \A r, s \in OpenSymbol(i) : r = s
  <1>1. OnDay(txn.eff) /\ txn.eff \in Nat /\ HasDays(symbols) /\ UpTo(symbols, txn.eff)
    BY WorkingDay, SymbolsFit DEF OnDay
  <1>2. \A r, s \in OpenSymbol(i) : r = s
    BY <1>1, SymbolsFit DEF OpenSymbol
  <1>3. SymbolOn(i, txn.eff) = OpenSymbol(i)
    BY <1>1, LastDay DEF SymbolOn, OpenSymbol
  <1>4. \A r \in OpenSymbol(i) : r.from \in Nat
    BY <1>1 DEF HasDays, OpenSymbol
  <1>5. Newest(OpenSymbol(i)) = OpenSymbol(i)
    BY <1>2, <1>4 DEF Newest
  <1> QED
    BY <1>2, <1>3, <1>5

LEMMA ExchangeApplies ==
    ASSUME Underway, Applying, Inv', Exchange
    PROVE  Applying'
  <1>1. /\ At("exchange") /\ statuses' = statuses /\ members' = members
        /\ txn' = [txn EXCEPT !.stage = "status"]
    BY DEF Exchange
  <1>2. /\ SameTxn /\ txn'.stage = "status" /\ txn'.inst = txn.inst /\ txn'.isNew = txn.isNew
        /\ txn'.handled = txn.handled /\ txn.handled = txn.handled \union {txn.inst}
        /\ InHand = {txn.inst} /\ txn.stage = "exchange" /\ Unsettled(txn.inst)
    BY <1>1, StageTxn
  <1>3. /\ txn.eff \in Nat /\ txn.eff # Forever /\ HasDays(symbols) /\ EndsOn(symbols, txn.eff)
        /\ UpTo(symbols, txn.eff) /\ symbols \subseteq SymbolRow
    BY WorkingDay, SymbolsFit DEF OnDay, TypeOK
  <1>4. PICK i, l : i = txn.inst /\ l = Line
    OBVIOUS
  <1>5. UnderwayOf(symbols, statuses, l, i, txn.isNew, "exchange", txn.eff)
    BY <1>2, <1>4, RowIsUnderway
  <1>6. Listing = OpenSymbol(i) /\ \A r, s \in OpenSymbol(i) : r = s
    BY <1>4, TickerOfTheDay DEF Listing
  <1>7. l.status # "delisted" => \E r \in OpenSymbol(i) : r.symbol = l.symbol
    BY <1>1, <1>2, <1>4 DEF Underway, Working, RowInHand, Holds, HoldsIn, OpenSymbol
  <1>8. ASSUME Touches(symbols, symbols', i, l.symbol),
               UnderwayOf(symbols', statuses, l, i, txn.isNew, "status", txn.eff)
        PROVE  Applying'
    <2>1. Shifts(txn'.inst, Line.symbol)
      BY <1>1, <1>2, <1>4, <1>8 DEF Shifts, OnlyOf
    <2>2. RowsApplied' /\ LeaversGone' /\ Line' = Line
      BY <1>1, <1>2, <2>1, StageApplies
    <2>3. RowUnderway'
      BY <1>1, <1>2, <1>4, <1>8, <2>2, RowComesUnderway DEF SameTxn
    <2> QED
      BY <2>2, <2>3 DEF Applying
  <1>9. CASE /\ NamesExchange => \E r \in Listing : KeepsExchange(r, Line.exchange)
             /\ UNCHANGED <<symbols, changes>>
    <2>1. l.status # "delisted" => ListedAs(symbols, l, i)
      <3> HAVE l.status # "delisted"
      <3>1. PICK r \in OpenSymbol(i) : r.symbol = l.symbol
        BY <1>7
      <3>2. r \in symbols /\ r.inst = i /\ r.to = Forever
        BY <3>1 DEF OpenSymbol
      <3>3. CASE l.exchange = None \/ txn.isNew
        BY <1>5, <3>1, <3>2, <3>3 DEF ListedAs, UnderwayOf
      <3>4. CASE NamesExchange
        BY <1>4, <1>6, <1>9, <3>1, <3>2, <3>4 DEF ListedAs, KeepsExchange
      <3> QED
        BY <1>4, <1>6, <3>1, <3>3, <3>4 DEF NamesExchange
    <2>2. UnderwayOf(symbols, statuses, l, i, txn.isNew, "status", txn.eff)
      BY <1>5, <2>1 DEF UnderwayOf
    <2>3. Touches(symbols, symbols, i, l.symbol)
      BY DEF Touches
    <2> QED
      BY <1>8, <1>9, <2>2, <2>3
  <1>10. ASSUME NEW r \in Listing, NEW new, Replaces(symbols, symbols', r, new, txn.eff),
                new.exchange = l.exchange
         PROVE  Applying'
    <2>1. r \in symbols /\ r.inst = i /\ r.to = Forever /\ r \in OpenSymbol(i)
      BY <1>6 DEF OpenSymbol
    <2>2. Ended(r, txn.eff).symbol = r.symbol
      BY <1>3, <2>1 DEF Ended, SymbolRow
    <2>3. PICK after : after = symbols'
      OBVIOUS
    <2>4. Replaces(symbols, after, r, new, txn.eff)
      BY <1>10, <2>3
    <2>5. Touches(symbols, after, i, l.symbol)
      BY <1>3, <2>1, <2>2, <2>4, ReplacedTouches
    <2>6. l.status # "delisted" => RenamedOn(after, l, i, txn.eff) /\ ListedAs(after, l, i)
      <3> HAVE l.status # "delisted"
      <3>1. RenamedOn(after, l, i, txn.eff)
        BY <1>3, <1>5, <2>5, RenameIsKept DEF UnderwayOf
      <3>2. r.symbol = l.symbol
        BY <1>6, <1>7, <2>1
      <3>3. new \in after /\ new.inst = i /\ new.symbol = l.symbol /\ new.to = Forever
        BY <2>1, <2>4, <3>2 DEF Replaces
      <3> QED
        BY <1>10, <3>1, <3>3 DEF ListedAs
    <2>7. l.status = "delisted" => LatestOf(after, l.symbol, i)
      BY <1>3, <1>5, <2>1, <2>2, <2>4, LatestIsKept DEF UnderwayOf
    <2>8. l.status = "delisted" /\ l.prev # None => \E q \in after : q.inst = i /\ q.to = Forever /\ q.from = txn.eff
      <3> HAVE l.status = "delisted" /\ l.prev # None
      <3>1. r.from = txn.eff
        BY <1>5, <1>6, <2>1 DEF UnderwayOf, OpenSymbol
      <3>2. new \in after /\ new.inst = i /\ new.to = Forever /\ new.from = txn.eff
        BY <2>1, <2>4, <3>1 DEF Replaces
      <3> QED
        BY <3>2
    <2>9. UnderwayOf(after, statuses, l, i, txn.isNew, "status", txn.eff)
      BY <2>6, <2>7, <2>8 DEF UnderwayOf
    <2> QED
      BY <1>8, <2>3, <2>5, <2>9
  <1>11. ASSUME NEW r \in Listing, SetsExchange(r), SetExchange(r, Line.exchange)
         PROVE  Applying'
    <2>1. PICK new : new = [r EXCEPT !.exchange = l.exchange]
      OBVIOUS
    <2>2. r \in symbols /\ r \in SymbolRow /\ r.to = Forever
      BY <1>3, <1>6 DEF OpenSymbol
    <2>3. /\ new.inst = r.inst /\ new.symbol = r.symbol /\ new.to = Forever /\ new.from = r.from
          /\ new.exchange = l.exchange
      BY <2>1, <2>2 DEF SymbolRow
    <2>4. Replaces(symbols, symbols', r, new, txn.eff)
      BY <1>4, <1>11, <2>1, <2>2, <2>3 DEF Replaces, SetExchange
    <2> QED
      BY <1>10, <2>3, <2>4
  <1>12. ASSUME NEW r \in Listing, MovesExchange(r, Line.exchange, txn.eff),
                MoveExchange(r, Line.exchange, txn.eff)
         PROVE  Applying'
    <2>1. PICK new : new = [r EXCEPT !.exchange = l.exchange, !.from = txn.eff]
      OBVIOUS
    <2>2. r \in symbols /\ r \in SymbolRow /\ r.to = Forever
      BY <1>3, <1>6 DEF OpenSymbol
    <2>3. /\ new.inst = r.inst /\ new.symbol = r.symbol /\ new.to = Forever /\ new.from = txn.eff
          /\ new.exchange = l.exchange
      BY <2>1, <2>2 DEF SymbolRow
    <2>4. Replaces(symbols, symbols', r, new, txn.eff)
      BY <1>4, <1>12, <2>1, <2>2, <2>3 DEF Replaces, MoveExchange, MovesExchange
    <2> QED
      BY <1>10, <2>3, <2>4
  <1> QED
    BY <1>9, <1>11, <1>12 DEF Exchange

\* A ticker whose last holder has no open row is no one's.
LEMMA LatestHasCeased ==
    ASSUME NEW rows, Identity(rows), HasDays(rows), NEW t, NEW i, LatestOf(rows, t, i),
           \A r \in rows : r.inst = i => r.to # Forever
    PROVE  Ceased(rows, t)
  <1> SUFFICES ASSUME NEW r \in rows, r.symbol = t, r.to = Forever PROVE FALSE
    BY DEF Ceased
  <1>1. PICK q \in rows : q.symbol = t /\ q.inst = i /\ r.from <= q.from
    BY DEF LatestOf
  <1>2. q.to # Forever /\ q.from < q.to /\ q # r
    BY <1>1 DEF Identity
  <1>3. r.from < q.to
    BY <1>1, <1>2 DEF HasDays
  <1>4. Overlap(r, q)
    BY <1>2, <1>3 DEF Overlap
  <1> QED
    BY <1>1, <1>4 DEF Identity

LEMMA DelistTouches ==
    ASSUME NEW D, OnDay(D), D # Forever, NEW i, Delists(i, D), Delist(i, D), NEW t, LatestOf(symbols, t, i), NEW x
    PROVE  /\ Touches(symbols, symbols', i, x) /\ LatestOf(symbols', t, i)
           /\ \A r \in symbols' : r.inst = i => r.to # Forever
           /\ HasDays(symbols')
  <1>1. PICK after : after = symbols'
    OBVIOUS
  <1>2. after = (symbols \ OpenSymbol(i)) \union {Ended(r, D) : r \in OpenSymbol(i)}
    BY <1>1 DEF Delist
  <1>3. \A r \in symbols : /\ Ended(r, D).inst = r.inst /\ Ended(r, D).from = r.from
                           /\ Ended(r, D).to = D /\ Ended(r, D).symbol = r.symbol
    BY DEF Ended, OnDay, TypeOK, SymbolRow
  <1>4. \A r \in OpenSymbol(i) : r \in symbols /\ r.inst = i /\ r.to = Forever
    BY DEF OpenSymbol
  <1>5. \A r \in symbols : r \notin OpenSymbol(i) => r.inst # i \/ r.to # Forever
    BY DEF OpenSymbol
  <1>6. Touches(symbols, after, i, x)
    <2>1. \A r \in symbols : r \notin after => r.to = Forever /\ r.inst = i
      BY <1>2, <1>4
    <2>2. ASSUME NEW r \in after, r \notin symbols
          PROVE  r.inst = i /\ \E q \in symbols : q.symbol = r.symbol /\ q.to = Forever /\ q.inst = i
      <3>1. PICK q \in OpenSymbol(i) : r = Ended(q, D)
        BY <1>2, <2>2
      <3> QED
        BY <1>3, <1>4, <3>1
    <2> QED
      BY <2>1, <2>2 DEF Touches
  <1>7. \A r \in after : r.inst = i => r.to # Forever
    BY <1>2, <1>3, <1>4, <1>5
  <1>8. LatestOf(after, t, i)
    <2>1. PICK q \in symbols : q.symbol = t /\ q.inst = i /\ \A s \in symbols : s.symbol = t => s.from <= q.from
      BY DEF LatestOf
    <2>2. \A s \in after : s.symbol = t => s.from <= q.from
      BY <1>2, <1>3, <1>4, <2>1
    <2>3. CASE q \in OpenSymbol(i)
      <3>1. PICK p : p = Ended(q, D)
        OBVIOUS
      <3>2. p \in after /\ p.symbol = t /\ p.inst = i /\ p.from = q.from
        BY <1>2, <1>3, <2>1, <2>3, <3>1
      <3> QED
        BY <2>2, <3>2 DEF LatestOf
    <2>4. CASE q \notin OpenSymbol(i)
      <3>1. q \in after
        BY <1>2, <2>4
      <3> QED
        BY <2>1, <2>2, <3>1 DEF LatestOf
    <2> QED
      BY <2>3, <2>4
  <1>9. HasDays(after)
    <2>1. HasDays(symbols) /\ D \in Nat
      BY SymbolsFit DEF OnDay
    <2> QED
      BY <1>2, <1>3, <1>4, <2>1 DEF HasDays
  <1> QED
    BY <1>1, <1>6, <1>7, <1>8, <1>9

LEMMA StatusApplies ==
    ASSUME Underway, Applying, Inv', TerminalInv', Status
    PROVE  Applying'
  <1>1. /\ At("status") /\ members' = members /\ txn' = [txn EXCEPT !.stage = "member"]
    BY DEF Status
  <1>2. /\ SameTxn /\ txn'.stage = "member" /\ txn'.inst = txn.inst /\ txn'.isNew = txn.isNew
        /\ txn'.handled = txn.handled /\ txn.handled = txn.handled \union {txn.inst}
        /\ InHand = {txn.inst} /\ txn.stage = "status" /\ Unsettled(txn.inst)
    BY <1>1, StageTxn
  <1>3. /\ txn.eff \in Nat /\ txn.eff # Forever /\ HasDays(symbols) /\ HasDays(statuses)
        /\ EndsOn(statuses, txn.eff) /\ UpTo(statuses, txn.eff) /\ statuses \subseteq StatusRow
        /\ OnDay(txn.eff) /\ Terminal(symbols, statuses) /\ Identity(symbols) /\ StatusDay(txn.eff)
        /\ Identity(symbols')
    BY WorkingDay, SymbolsFit, StatusesFit DEF OnDay, StatusDay, TypeOK, Fits, Inv
  <1>4. PICK i, l : i = txn.inst /\ l = Line
    OBVIOUS
  <1>5. UnderwayOf(symbols, statuses, l, i, txn.isNew, "status", txn.eff)
    BY <1>2, <1>4, RowIsUnderway
  <1>6. DelistedIn(statuses, i) => \A r \in statuses : r.inst = i /\ r.to = Forever => r.status = "delisted"
    BY <1>3 DEF Terminal, DelistedIn
  <1>7. ASSUME Touches(symbols, symbols', i, l.symbol), OnlyOf(statuses, statuses', i),
               DelistedIn(statuses, i) => DelistedIn(statuses', i),
               UnderwayOf(symbols', statuses', l, i, txn.isNew, "member", txn.eff)
        PROVE  Applying'
    <2>1. Shifts(txn'.inst, Line.symbol)
      BY <1>1, <1>2, <1>4, <1>7 DEF Shifts, OnlyOf
    <2>2. RowsApplied' /\ LeaversGone' /\ Line' = Line
      BY <1>1, <1>2, <2>1, StageApplies
    <2>3. RowUnderway'
      BY <1>1, <1>2, <1>4, <1>7, <2>2, RowComesUnderway DEF SameTxn
    <2> QED
      BY <2>2, <2>3 DEF Applying
  <1>8. ASSUME UNCHANGED symbols, l.status # "delisted", OnlyOf(statuses, statuses', i),
               DelistedIn(statuses, i) => DelistedIn(statuses', i), MayTrade(statuses', l, i)
        PROVE  Applying'
    <2>1. UnderwayOf(symbols', statuses', l, i, txn.isNew, "member", txn.eff)
      BY <1>5, <1>8 DEF UnderwayOf
    <2>2. Touches(symbols, symbols', i, l.symbol)
      BY <1>8 DEF Touches
    <2> QED
      BY <1>7, <1>8, <2>1, <2>2
  <1>9. CASE l.status = "delisted" /\ NoNews(i, "delisted") /\ UNCHANGED <<symbols, statuses>>
    <2>1. \A r \in symbols : r.inst = i => r.to # Forever
      <3>1. PICK q \in statuses : q.inst = i /\ q.status = "delisted"
        BY <1>9 DEF NoNews, OpenStatus
      <3> QED
        BY <1>3, <3>1 DEF Terminal
    <2>2. LatestOf(symbols, l.symbol, i) /\ l.prev = None
      BY <1>5, <1>9, <2>1 DEF UnderwayOf
    <2>3. Ceased(symbols, l.symbol)
      BY <1>3, <2>1, <2>2, LatestHasCeased
    <2>4. UnderwayOf(symbols', statuses', l, i, txn.isNew, "member", txn.eff)
      BY <1>5, <1>9, <2>2, <2>3 DEF UnderwayOf
    <2>5. Touches(symbols, symbols', i, l.symbol) /\ OnlyOf(statuses, statuses', i)
      BY <1>9 DEF Touches, OnlyOf
    <2> QED
      BY <1>7, <1>9, <2>4, <2>5
  <1>10. CASE l.status = "delisted" /\ Delists(i, txn.eff) /\ Delist(i, txn.eff)
    <2>1. LatestOf(symbols, l.symbol, i)
      BY <1>5, <1>10 DEF UnderwayOf
    <2>2. l.prev = None
      <3> SUFFICES ASSUME l.prev # None PROVE FALSE
        OBVIOUS
      <3>1. PICK r \in symbols : r.inst = i /\ r.to = Forever /\ r.from = txn.eff
        BY <1>5, <1>10 DEF UnderwayOf
      <3> QED
        BY <1>3, <1>10, <3>1 DEF Delists, OpenSymbol
    <2>3. PICK after : after = symbols'
      OBVIOUS
    <2>4. /\ Touches(symbols, after, i, l.symbol) /\ LatestOf(after, l.symbol, i)
          /\ (\A r \in after : r.inst = i => r.to # Forever) /\ HasDays(after)
      BY <1>3, <1>10, <2>1, <2>3, DelistTouches
    <2>5. Ceased(after, l.symbol)
      BY <1>3, <2>3, <2>4, LatestHasCeased
    <2>6. UnderwayOf(symbols', statuses', l, i, txn.isNew, "member", txn.eff)
      BY <1>10, <2>2, <2>3, <2>4, <2>5 DEF UnderwayOf
    <2>7. PICK row : row = [inst |-> i, status |-> "delisted", from |-> txn.eff, to |-> Forever]
      OBVIOUS
    <2>8. statuses' = (statuses \ OpenStatus(i)) \union EndSuspension(i, txn.eff) \union {row}
      BY <1>10, <2>7 DEF Delist
    <2>9. DelistedIn(statuses', i)
      BY <2>7, <2>8 DEF DelistedIn
    <2>10. OnlyOf(statuses, statuses', i)
      <3>1. \A r \in OpenStatus(i) \union EndSuspension(i, txn.eff) \union {row} : r.inst = i
        BY <1>3, <2>7 DEF OpenStatus, EndSuspension, EndsOn
      <3> QED
        BY <2>8, <3>1 DEF OnlyOf
    <2> QED
      BY <1>7, <2>3, <2>4, <2>6, <2>9, <2>10
  <1>11. CASE l.status = "suspended" /\ NoNews(i, "suspended") /\ UNCHANGED <<symbols, statuses>>
    <2>1. MayTrade(statuses, l, i)
      BY <1>11 DEF MayTrade, NoNews, OpenStatus
    <2> QED
      BY <1>8, <1>11, <2>1 DEF OnlyOf
  <1>12. CASE l.status = "suspended" /\ Suspends(i, txn.eff) /\ Suspend(i, txn.eff) /\ UNCHANGED symbols
    <2>1. PICK row : row = [inst |-> i, status |-> "suspended", from |-> txn.eff, to |-> Forever]
      OBVIOUS
    <2>2. row.inst = i /\ row.status = "suspended" /\ row.to = Forever /\ statuses' = statuses \union {row}
      BY <1>12, <2>1 DEF Suspend
    <2>3. OnlyOf(statuses, statuses', i) /\ (DelistedIn(statuses, i) => DelistedIn(statuses', i))
      BY <2>2 DEF OnlyOf, DelistedIn
    <2>4. MayTrade(statuses', l, i)
      BY <1>12, <2>2 DEF MayTrade
    <2> QED
      BY <1>8, <1>12, <2>3, <2>4
  <1>13. CASE l.status = "active" /\ "active" \in StatusOn(i, txn.eff) /\ UNCHANGED <<symbols, statuses>>
    <2>1. \A r \in statuses : r.status # "active"
      BY <1>3 DEF StatusRow
    <2>2. {r \in statuses : r.inst = i /\ Valid(r, txn.eff)} = {}
      BY <1>13, <2>1 DEF StatusOn
    <2>3. \A r \in statuses : r.inst = i => r.to # Forever
      BY <1>3, <2>2, LastDay
    <2>4. MayTrade(statuses, l, i)
      BY <1>13, <2>3 DEF MayTrade
    <2> QED
      BY <1>8, <1>13, <2>4 DEF OnlyOf
  <1>14. CASE l.status = "active" /\ Resumes(i, txn.eff) /\ Resume(i, txn.eff) /\ UNCHANGED symbols
    <2>1. statuses' = (statuses \ OpenStatus(i)) \union {Ended(r, txn.eff) : r \in OpenStatus(i)}
      BY <1>14 DEF Resume
    <2>2. \A r \in OpenStatus(i) : /\ r \in statuses /\ r.inst = i /\ Ended(r, txn.eff).inst = i
                                   /\ Ended(r, txn.eff).to # Forever
      BY <1>3 DEF OpenStatus, EndsOn
    <2>3. OnlyOf(statuses, statuses', i)
      BY <2>1, <2>2 DEF OnlyOf
    <2>4. ~DelistedIn(statuses, i)
      BY <1>6, <1>14 DEF Resumes, OpenStatus
    <2>5. \A r \in statuses' : r.inst = i => r.to # Forever
      BY <2>1, <2>2 DEF OpenStatus
    <2>6. MayTrade(statuses', l, i)
      BY <1>14, <2>5 DEF MayTrade
    <2> QED
      BY <1>8, <1>14, <2>3, <2>4, <2>6
  <1>15. CASE l.status = "active" /\ NoNews(i, "active") /\ UNCHANGED <<symbols, statuses>>
    <2>1. MayTrade(statuses, l, i)
      BY <1>15 DEF MayTrade, NoNews, OpenStatus
    <2> QED
      BY <1>8, <1>15, <2>1 DEF OnlyOf
  <1>16. l.status \in STATUSES
    BY <1>1, <1>4, RowDay DEF Row
  <1> QED
    BY <1>4, <1>9, <1>10, <1>11, <1>12, <1>13, <1>14, <1>15, <1>16 DEF Status, STATUSES

LEMMA MemberApplies ==
    ASSUME Underway, Applying, Inv', Member
    PROVE  Applying'
  <1>1. /\ At("member") /\ UNCHANGED <<symbols, statuses>>
    BY DEF Member
  <1>2. /\ txn \in Txn /\ txn.stage = "member" /\ txn.n \in 1..Len(txn.file) /\ txn.inst \in Instruments
        /\ txn.eff \in Nat /\ txn.eff # Forever /\ EndsOn(members, txn.eff) /\ Terminal(symbols, statuses)
        /\ members \subseteq Membership /\ OnDay(txn.eff)
    BY <1>1, RowDay, WorkingDay DEF Underway, Inv, TypeOK
  <1>3. PICK i, l : i = txn.inst /\ l = Line
    OBVIOUS
  <1>4. /\ UnderwayOf(symbols, statuses, l, i, txn.isNew, "member", txn.eff)
        /\ InHand = {i} /\ Unsettled(i) /\ i \in txn.handled
    BY <1>2, <1>3, RowIsUnderway DEF InHand, Unsettled, Underway, Working, RowInHand
  <1>5. Mine = {m \in members : m.inst = i /\ m.to = Forever}
    BY <1>1, <1>3, MineIsOpen
  <1>6. /\ l.status # "delisted" => Holds(i, l.symbol) /\ ~DelistedIn(statuses, i)
        /\ l.status = "delisted" => DelistedIn(statuses, i)
    BY <1>2, <1>3, DelistedIs DEF Underway, Working, RowInHand, Holds
  <1>7. PICK after : after = members'
    OBVIOUS
  <1>8. ASSUME NEW gone, NextLine(gone), OnlyOf(members, after, i),
               l.status = "delisted" => ~IsMember(after, i),
               l.status # "delisted" => Belongs(after, l, i)
        PROVE  Applying'
    <2>1. /\ txn'.stage = "resolve" /\ txn'.n = txn.n + 1 /\ txn'.eff = txn.eff
          /\ txn'.file = txn.file /\ txn'.handled = txn.handled
      BY <1>2, <1>8 DEF NextLine, Txn
    <2>2. InHand' = {} /\ txn'.n - 1 = txn.n
      BY <1>2, <2>1 DEF InHand
    <2>3. Shifts(i, Line.symbol)
      BY <1>1, <1>3, <1>6, <1>7, <1>8 DEF Shifts, Touches, OnlyOf
    <2>4. \A k \in 1..(txn.n - 1) :
              /\ RowHolds(symbols, statuses, after, txn.file[k], txn.eff)
              /\ txn.file[k].status # "delisted" => \A j : Holds(j, txn.file[k].symbol) => j \in txn.handled
      <3>1. \A k \in 1..(txn.n - 1) :
               /\ RowHolds(symbols', statuses', members', txn.file[k], txn.eff)
               /\ txn.file[k].status # "delisted" =>
                      \A j : HoldsIn(symbols', j, txn.file[k].symbol) => j \in txn.handled \ InHand /\ j # i
        BY <1>1, <1>4, <2>3, RowsBehind
      <3> QED
        BY <1>1, <1>7, <3>1 DEF Holds
    <2>5. RowHolds(symbols, statuses, after, l, txn.eff)
      <3>1. CASE l.status # "delisted"
        <4>1. Stays(symbols, statuses, after, l, txn.eff)
          BY <1>2, <1>3, <1>4, <1>8, <3>1 DEF UnderwayOf, Stays
        <4> QED
          BY <3>1, <4>1 DEF RowHolds
      <3>2. CASE l.status = "delisted"
        <4>1. \A r \in symbols : r.inst = i => r.to # Forever
          BY <1>2, <1>6, <3>2 DEF Terminal, DelistedIn
        <4>2. l.prev = None /\ Ceased(symbols, l.symbol) /\ LatestOf(symbols, l.symbol, i)
          BY <1>4, <3>2, <4>1 DEF UnderwayOf
        <4>3. HasLeft(symbols, statuses, after, l)
          BY <1>2, <1>3, <1>6, <1>8, <3>2, <4>2 DEF HasLeft
        <4> QED
          BY <3>2, <4>3 DEF RowHolds
      <3> QED
        BY <3>1, <3>2
    <2>6. ASSUME l.status # "delisted", NEW j, Holds(j, l.symbol) PROVE j \in txn.handled
      BY <1>2, <1>4, <1>6, <2>6, SymbolsFit DEF Holds, HoldsIn
    <2>7. \A k \in 1..txn.n :
              /\ RowHolds(symbols, statuses, after, txn.file[k], txn.eff)
              /\ txn.file[k].status # "delisted" => \A j : Holds(j, txn.file[k].symbol) => j \in txn.handled
      <3> TAKE k \in 1..txn.n
      <3>1. CASE k = txn.n
        BY <1>3, <2>5, <2>6, <3>1 DEF Line
      <3>2. CASE k # txn.n
        <4>1. k \in 1..(txn.n - 1)
          BY <1>2, <3>2
        <4> QED
          BY <2>4, <4>1
      <3> QED
        BY <3>1, <3>2
    <2>8. RowsApplied'
      BY <1>1, <1>7, <2>1, <2>2, <2>7 DEF RowsApplied, Holds
    <2>9. LeaversGone'
      <3> SUFFICES ASSUME NEW j \in txn.handled, DelistedIn(statuses, j) PROVE ~IsMember(after, j)
        BY <1>1, <1>7, <2>1, <2>2 DEF LeaversGone
      <3>1. CASE j = i
        BY <1>6, <1>8, <3>1
      <3>2. CASE j # i
        <4>1. ~IsMember(members, j)
          BY <1>4, <3>2 DEF Applying, LeaversGone
        <4> QED
          BY <1>8, <3>2, <4>1 DEF OnlyOf, IsMember
      <3> QED
        BY <3>1, <3>2
    <2>10. RowUnderway'
      BY <2>1 DEF RowUnderway
    <2> QED
      BY <2>8, <2>9, <2>10 DEF Applying
  <1>9. \A m \in Mine : m \in members /\ m.inst = i /\ m.to = Forever
    BY <1>5
  <1>10. Closed(Mine) = {Ended(m, txn.eff) : m \in Mine} /\ \A m \in Closed(Mine) : m.inst = i /\ m.to # Forever
    BY <1>2, <1>9 DEF Closed, EndsOn
  <1>11. ASSUME NEW gone, NextLine(gone), UNCHANGED members,
                l.status = "delisted" => Mine = {}, l.status # "delisted" => Mine # {} /\ SameWeight
         PROVE  Applying'
    <2>1. l.status = "delisted" => ~IsMember(after, i)
      BY <1>5, <1>7, <1>11 DEF IsMember
    <2>2. l.status # "delisted" => Belongs(after, l, i)
      BY <1>3, <1>5, <1>7, <1>11 DEF Belongs, SameWeight
    <2> QED
      BY <1>7, <1>8, <1>11, <2>1, <2>2 DEF OnlyOf
  <1>12. ASSUME NEW gone, NextLine(gone), l.status = "delisted", members' = (members \ Mine) \union Closed(Mine)
         PROVE  Applying'
    <2>1. ~IsMember(after, i)
      BY <1>5, <1>7, <1>10, <1>12 DEF IsMember
    <2>2. OnlyOf(members, after, i)
      BY <1>7, <1>9, <1>10, <1>12 DEF OnlyOf
    <2> QED
      BY <1>8, <1>12, <2>1, <2>2
  <1>13. ASSUME NEW gone, NextLine(gone), l.status # "delisted", NEW cut \in SUBSET Mine,
                NEW kept \in SUBSET Closed(Mine), NEW x, x.inst = i, x.to = Forever, x.weight = l.weight,
                members' = (members \ cut) \union kept \union {x}
         PROVE  Applying'
    <2>1. Belongs(after, l, i)
      BY <1>7, <1>13 DEF Belongs
    <2>2. OnlyOf(members, after, i)
      BY <1>7, <1>9, <1>10, <1>13 DEF OnlyOf
    <2> QED
      BY <1>8, <1>13, <2>1, <2>2
  <1>14. \A d : Joined(d).inst = i /\ Joined(d).to = Forever /\ Joined(d).weight = l.weight
    BY <1>3 DEF Joined
  <1>15. ASSUME l.status # "delisted", NextLine({}), members' = members \union {Joined(JoinsOn)}
         PROVE  Applying'
    <2>1. members' = (members \ {}) \union {} \union {Joined(JoinsOn)}
      BY <1>15
    <2> QED
      BY <1>13, <1>14, <1>15, <2>1
  <1>16. ASSUME l.status # "delisted", NextLine({}), InPlace,
                members' = (members \ Mine) \union {[m EXCEPT !.weight = Line.weight] : m \in Mine}
         PROVE  Applying'
    <2>1. PICK m : m \in Mine
      BY <1>16 DEF InPlace
    <2>2. \A r, s \in Mine : r = s
      <3>1. Apart(members)
        BY WorkingDay DEF Fits
      <3> QED
        BY <1>9, <3>1, OneOpen
    <2>3. PICK x : x = [m EXCEPT !.weight = l.weight]
      OBVIOUS
    <2>4. x.inst = i /\ x.to = Forever /\ x.weight = l.weight
      <3>1. m \in Membership /\ m.inst = i /\ m.to = Forever
        BY <1>2, <1>9, <2>1
      <3> QED
        BY <2>3, <3>1 DEF Membership
    <2>5. Mine = {m}
      BY <2>1, <2>2
    <2>6. members' = (members \ Mine) \union {} \union {x}
      BY <1>3, <1>16, <2>3, <2>5
    <2> QED
      BY <1>13, <1>16, <2>4, <2>6
  <1>17. ASSUME l.status # "delisted", NextLine({}),
                members' = (members \ Mine) \union Closed(Mine) \union {Joined(txn.eff)}
         PROVE  Applying'
    BY <1>13, <1>14, <1>17
  <1> QED
    BY <1>3, <1>11, <1>12, <1>15, <1>16, <1>17 DEF Member

LEMMA ResolvedApplies ==
    ASSUME Underway, Applying, Inv', At("resolve"), NEW i \in Instruments, NEW isNew \in BOOLEAN, Is(i, isNew),
           statuses' = statuses, members' = members, i \in txn.handled => DelistedIn(statuses, i),
           Touches(symbols, symbols', i, Line.symbol),
           UnderwayOf(symbols', statuses, Line, i, isNew, "exchange", txn.eff)
    PROVE  Applying'
  <1>1. /\ txn \in Txn /\ txn.stage = "resolve"
        /\ txn' = [txn EXCEPT !.stage = "exchange", !.inst = i, !.isNew = isNew,
                              !.handled = txn.handled \union {i}]
    BY RowDay, WorkingDay DEF Is
  <1>2. txn' \in Txn
    BY <1>1, IsType DEF Inv, Underway, TypeOK
  <1>3. /\ SameTxn /\ txn'.stage = "exchange" /\ txn'.inst = i /\ txn'.isNew = isNew
        /\ txn'.handled = txn.handled \union {i} /\ InHand = {}
    BY <1>1, <1>2, NoTransaction DEF SameTxn, Txn, InHand
  <1>4. Shifts(txn'.inst, Line.symbol) /\ Unsettled(txn'.inst)
    BY <1>3 DEF Shifts, OnlyOf, Unsettled
  <1>5. RowsApplied' /\ LeaversGone' /\ Line' = Line
    BY <1>3, <1>4, StageApplies
  <1>6. PICK syms, sts : syms = symbols' /\ sts = statuses'
    OBVIOUS
  <1>7. UnderwayOf(syms, sts, Line, i, isNew, "exchange", txn.eff)
    BY <1>6
  <1>8. RowUnderway'
    BY <1>3, <1>5, <1>6, <1>7, RowComesUnderway DEF SameTxn
  <1> QED
    BY <1>5, <1>8 DEF Applying

LEMMA ResolveApplies ==
    ASSUME Underway, Applying, Inv', Resolve
    PROVE  Applying'
  <1>1. /\ At("resolve") /\ statuses' = statuses /\ members' = members
    BY DEF Resolve
  <1>2. /\ OnDay(txn.eff) /\ txn.eff \in Nat /\ txn.eff # Forever /\ Floor <= txn.eff /\ symbols \subseteq SymbolRow
        /\ UpTo(symbols, txn.eff) /\ HasDays(symbols) /\ Identity(symbols) /\ EndsOn(symbols, txn.eff)
    BY WorkingDay, SymbolsFit DEF OnDay, TypeOK
  <1>3. /\ Line = txn.file[txn.n] /\ txn.n \in 1..Len(txn.file) /\ Tidy(txn.file) /\ Line \in Row
        /\ txn.file \in Files
    BY <1>1, RowDay DEF Line
  <1>4. \A j, k \in 1..Len(txn.file) : txn.file[j].symbol = txn.file[k].symbol => j = k
    BY <1>3, SnapshotAssumption
  <1>5. PICK l : l = Line
    OBVIOUS
  <1>6. ASSUME NEW c \in Current, Is(c.inst, FALSE), UNCHANGED symbols, IsListed \/ AlreadyRenamed
        PROVE  Applying'
    <2>1. c \in symbols /\ c.symbol = l.symbol /\ c.to = Forever /\ c.inst \in Instruments
      BY <1>2, <1>5, LastDay DEF Current, Newest, TickerOn, OfTicker, SymbolRow
    <2>2. \A x \in Current : x = c
      BY <1>2, <1>5, <2>1, LastDay, SymbolsFit DEF Current, Newest, TickerOn, OfTicker
    <2>3. c.inst \in txn.handled => DelistedIn(statuses, c.inst)
      <3> SUFFICES ASSUME c.inst \in txn.handled, ~DelistedIn(statuses, c.inst) PROVE FALSE
        OBVIOUS
      <3>1. PICK k \in 1..Len(txn.file) : k < txn.n /\ Holds(c.inst, txn.file[k].symbol)
        BY <1>1, HandledBefore
      <3>2. txn.file[k].symbol = Line.symbol
        BY <1>2, <1>5, <2>1, <3>1, SymbolsFit DEF Holds, HoldsIn
      <3> QED
        BY <1>3, <1>4, <3>1, <3>2
    <2>4. l.prev # None => \E s \in symbols : s.inst = c.inst /\ s.symbol = l.prev /\ s.to = txn.eff
      BY <1>5, <1>6, <2>2 DEF IsListed, AlreadyRenamed
    <2>5. LatestOf(symbols, l.symbol, c.inst)
      <3>1. ASSUME NEW s \in symbols, s.symbol = l.symbol PROVE s.from <= c.from
        <4>1. CASE s = c
          BY <1>2, <4>1 DEF HasDays
        <4>2. CASE s # c
          <5>1. s.to # Forever /\ ~(c.from < s.to) /\ s.from < s.to
            BY <1>2, <2>1, <3>1, <4>2 DEF Identity, Overlap
          <5> QED
            BY <1>2, <2>1, <5>1 DEF HasDays
        <4> QED
          BY <4>1, <4>2
      <3> QED
        BY <2>1, <3>1 DEF LatestOf
    <2>6. l.prev # None => c.from = txn.eff
      <3> HAVE l.prev # None
      <3>1. PICK s \in symbols : s.inst = c.inst /\ s.to = txn.eff
        BY <2>4
      <3>2. s # c /\ s.to # Forever
        BY <1>2, <2>1, <3>1
      <3>3. ~(c.from < s.to)
        <4>1. ~Overlap(s, c) /\ s.from < s.to
          BY <1>2, <2>1, <3>1, <3>2 DEF Identity
        <4> QED
          BY <2>1, <3>2, <4>1 DEF Overlap
      <3> QED
        BY <1>2, <2>1, <3>1, <3>3 DEF HasDays, UpTo
    <2>7. UnderwayOf(symbols, statuses, l, c.inst, FALSE, "exchange", txn.eff)
      BY <2>1, <2>4, <2>5, <2>6 DEF UnderwayOf, RenamedOn
    <2>8. Touches(symbols, symbols', c.inst, l.symbol) /\ UnderwayOf(symbols', statuses, l, c.inst, FALSE, "exchange", txn.eff)
      BY <1>6, <2>7 DEF Touches
    <2> QED
      BY <1>1, <1>5, <1>6, <2>1, <2>3, <2>8, ResolvedApplies
  <1>7. ASSUME WasListed, NEW r \in Newest(OfTicker(Line.symbol)), Is(r.inst, FALSE), UNCHANGED symbols
        PROVE  Applying'
    <2>1. /\ r \in symbols /\ r.inst \in Instruments /\ l.status = "delisted" /\ r.symbol = l.symbol /\ l.prev = None
      BY <1>2, <1>5, <1>7 DEF Newest, OfTicker, SymbolRow, WasListed
    <2>2. r.inst \in txn.handled => DelistedIn(statuses, r.inst)
      <3> SUFFICES ASSUME r.inst \in txn.handled, ~DelistedIn(statuses, r.inst) PROVE FALSE
        OBVIOUS
      <3>1. PICK k \in 1..Len(txn.file) : k < txn.n /\ txn.file[k].status # "delisted"
        BY <1>1, HandledBefore
      <3> QED
        BY <1>3, <1>5, <2>1, <3>1 DEF Tidy
    <2>3. LatestOf(symbols, l.symbol, r.inst)
      BY <1>5, <2>1 DEF LatestOf, Newest, OfTicker
    <2>4. UnderwayOf(symbols', statuses, l, r.inst, FALSE, "exchange", txn.eff)
      BY <1>7, <2>1, <2>3 DEF UnderwayOf
    <2>5. Touches(symbols, symbols', r.inst, l.symbol)
      BY <1>7 DEF Touches
    <2> QED
      BY <1>1, <1>5, <1>7, <2>1, <2>2, <2>4, <2>5, ResolvedApplies
  <1>8. ASSUME CanRename, NEW r \in Newest(TickerOn(Line.prev, txn.eff)),
               Renames(r, Line.symbol, txn.eff), Rename(r, Line.symbol, Line.exchange, txn.eff), Is(r.inst, FALSE)
        PROVE  Applying'
    <2>1. /\ r \in symbols /\ r.symbol = l.prev /\ r.to = Forever /\ r.inst \in Instruments
      BY <1>2, <1>5, <1>8 DEF Newest, TickerOn, OfTicker, SymbolRow, Renames
    <2>2. r.inst \in txn.handled => DelistedIn(statuses, r.inst)
      <3> SUFFICES ASSUME r.inst \in txn.handled, ~DelistedIn(statuses, r.inst) PROVE FALSE
        OBVIOUS
      <3>1. PICK k \in 1..Len(txn.file) : k < txn.n /\ Holds(r.inst, txn.file[k].symbol)
        BY <1>1, HandledBefore
      <3>2. txn.file[k].symbol = Line.prev
        BY <1>2, <1>5, <2>1, <3>1, SymbolsFit DEF Holds, HoldsIn
      <3> QED
        BY <1>3, <3>1, <3>2 DEF Tidy
    <2>3. PICK new, old, after : /\ after = symbols' /\ old = Ended(r, txn.eff)
                    /\ new = [inst |-> r.inst, symbol |-> l.symbol, from |-> txn.eff, to |-> Forever,
                              exchange |-> IF l.exchange = None THEN r.exchange ELSE l.exchange]
      OBVIOUS
    <2>4. /\ after = (symbols \ {r}) \union {old, new}
          /\ new.inst = r.inst /\ new.symbol = l.symbol /\ new.from = txn.eff /\ new.to = Forever
      BY <1>5, <1>8, <2>3 DEF Rename
    <2>5. old.inst = r.inst /\ old.symbol = l.prev /\ old.to = txn.eff /\ old.from = r.from
      BY <1>2, <2>1, <2>3 DEF Ended, SymbolRow
    <2>6. Touches(symbols, after, r.inst, l.symbol)
      BY <2>1, <2>4, <2>5 DEF Touches
    <2>7. RenamedOn(after, l, r.inst, txn.eff)
      BY <2>4, <2>5 DEF RenamedOn
    <2>8. \A s \in after : s.from <= txn.eff
      BY <1>2, <2>1, <2>4, <2>5 DEF UpTo
    <2>9. LatestOf(after, l.symbol, r.inst)
      BY <2>4, <2>8 DEF LatestOf
    <2>10. UnderwayOf(after, statuses, l, r.inst, FALSE, "exchange", txn.eff)
      BY <2>4, <2>7, <2>9 DEF UnderwayOf
    <2> QED
      BY <1>1, <1>5, <1>8, <2>1, <2>2, <2>3, <2>6, <2>10, ResolvedApplies
  <1>9. ASSUME IsUnknown, NEW i \in Fresh, Is(i, TRUE),
               symbols' = symbols \union {[inst |-> i, symbol |-> Line.symbol, from |-> FirstDay,
                                           to |-> Forever, exchange |-> Line.exchange]}
        PROVE  Applying'
    <2>1. PICK new, after : /\ after = symbols'
                            /\ new = [inst |-> i, symbol |-> l.symbol, from |-> FirstDay,
                                      to |-> Forever, exchange |-> l.exchange]
      OBVIOUS
    <2>2. /\ after = symbols \union {new} /\ new.inst = i /\ new.symbol = l.symbol /\ new.to = Forever
          /\ new.exchange = l.exchange /\ new.from = Floor /\ Floor \in Nat
      BY <1>5, <1>9, <2>1, WorkingDay DEF FirstDay
    <2>3. i \in Instruments /\ i \notin txn.handled
      BY <1>9 DEF Fresh, Underway, Working, RowsHandled
    <2>4. l.prev = None /\ \A r \in symbols : r.symbol # l.symbol
      BY <1>5, <1>9 DEF IsUnknown, OfTicker
    <2>5. Touches(symbols, after, i, l.symbol)
      BY <2>2 DEF Touches
    <2>6. ListedAs(after, l, i) /\ RenamedOn(after, l, i, txn.eff)
      BY <2>2, <2>4 DEF ListedAs, RenamedOn
    <2>7. LatestOf(after, l.symbol, i)
      <3>1. \A s \in after : s.symbol = l.symbol => s = new
        BY <2>2, <2>4
      <3> QED
        BY <2>2, <3>1 DEF LatestOf
    <2>8. UnderwayOf(after, statuses, l, i, TRUE, "exchange", txn.eff)
      BY <2>4, <2>6, <2>7 DEF UnderwayOf
    <2> QED
      BY <1>1, <1>5, <1>9, <2>1, <2>3, <2>5, <2>8, ResolvedApplies
  <1> QED
    BY <1>6, <1>7, <1>8, <1>9 DEF Resolve

-----------------------------------------------------------------------------
(* The end of the file *)

LEMMA EndDay ==
    ASSUME Underway, AtEnd
    PROVE  txn \in Txn /\ txn.stage = "resolve" /\ txn.n \in Nat /\ Len(txn.file) \in Nat /\ InHand = {}
  <1>1. txn \in Txn
    BY WorkingDay
  <1>2. txn.n \in Nat /\ Len(txn.file) \in Nat
    BY <1>1 DEF Txn
  <1> QED
    BY <1>1, <1>2 DEF AtEnd, Underway, Working, RowInHand, InHand

\* Whom the end of the file removes: the members no row has handled.
LEMMA AbsentIsUnhandled ==
    ASSUME Underway, AtEnd
    PROVE  /\ \A m \in Absent : m \in members /\ m.to = Forever /\ m.inst \notin txn.handled
           /\ \A m \in members : m.to = Forever /\ m.inst \notin txn.handled => m \in Absent
  <1>1. txn.open \subseteq [inst: Instruments, from: Nat]
    BY EndDay DEF Txn
  <1>2. \A m \in members : m.inst \in Instruments /\ m.universe = txn.universe
    BY MembersToday DEF Underway, Inv, TypeOK, Membership
  <1>3. ASSUME NEW m \in members, NEW k \in Gone, k.inst = m.inst, k.from = m.from
        PROVE  m.to = Forever /\ m.inst \notin txn.handled
    <2>1. k \in txn.open /\ m.inst \notin txn.handled
      BY <1>3 DEF Gone
    <2>2. OpenAsRead(m.inst)
      BY <1>2, <2>1 DEF Underway, Working, ReadsStand, Unsettled
    <2>3. k = [inst |-> m.inst, from |-> m.from]
      BY <1>1, <1>3, <2>1
    <2> QED
      BY <2>1, <2>2, <2>3 DEF OpenAsRead
  <1>4. \A m \in Absent : m \in members /\ m.to = Forever /\ m.inst \notin txn.handled
    BY <1>3 DEF Absent, Members
  <1>5. ASSUME NEW m \in members, m.to = Forever, m.inst \notin txn.handled PROVE m \in Absent
    <2>1. OpenAsRead(m.inst)
      BY <1>2, <1>5 DEF Underway, Working, ReadsStand, Unsettled
    <2>2. PICK k : k = [inst |-> m.inst, from |-> m.from]
      OBVIOUS
    <2>3. k \in txn.open /\ k.inst = m.inst /\ k.from = m.from
      BY <1>5, <2>1, <2>2 DEF OpenAsRead
    <2>4. k \in Gone
      BY <1>5, <2>3 DEF Gone
    <2> QED
      BY <1>2, <2>3, <2>4 DEF Absent, Members
  <1> QED
    BY <1>4, <1>5

LEMMA CommitApplies ==
    ASSUME Underway, Applying, txn.n <= Len(txn.file) + 1, Commit
    PROVE  AppliedTo(symbols', statuses', members', txn.file, txn.eff)
  <1>1. /\ AtEnd /\ UNCHANGED <<symbols, statuses>>
        /\ members' = (members \ Absent) \union Closed(Absent)
    BY DEF Commit
  <1>2. /\ txn.n \in Nat /\ Len(txn.file) \in Nat /\ InHand = {} /\ txn.n - 1 = Len(txn.file)
    BY <1>1, EndDay DEF AtEnd
  <1>3. /\ txn.eff \in Nat /\ txn.eff # Forever /\ EndsOn(members, txn.eff)
        /\ UpTo(symbols, txn.eff) /\ UpTo(statuses, txn.eff) /\ UpTo(members, txn.eff)
    BY WorkingDay DEF Underway, Working, TablesFit
  <1>4. PICK after : after = members'
    OBVIOUS
  <1>5. /\ \A m \in Absent : m \in members /\ m.to = Forever /\ m.inst \notin txn.handled
        /\ \A m \in members : m.to = Forever /\ m.inst \notin txn.handled => m \in Absent
    BY <1>1, AbsentIsUnhandled
  <1>6. /\ \A m \in members : m.to = Forever /\ m.inst \in txn.handled => m \in after
        /\ \A m \in after : m.to = Forever => m \in members /\ m.inst \in txn.handled
    <2>1. \A m \in Closed(Absent) : m.to # Forever
      BY <1>3, <1>5 DEF Closed, EndsOn
    <2> QED
      BY <1>1, <1>4, <1>5, <2>1
  <1>7. ASSUME NEW k \in 1..Len(txn.file)
        PROVE  RowHolds(symbols, statuses, after, txn.file[k], txn.eff)
    <2>1. PICK l : l = txn.file[k]
      OBVIOUS
    <2>2. /\ RowHolds(symbols, statuses, members, l, txn.eff)
          /\ l.status # "delisted" => \A i : Holds(i, l.symbol) => i \in txn.handled
      BY <1>2, <2>1 DEF Applying, RowsApplied
    <2>3. CASE l.status # "delisted"
      <3>1. PICK i \in Instruments :
                /\ ListedAs(symbols, l, i) /\ RenamedOn(symbols, l, i, txn.eff)
                /\ MayTrade(statuses, l, i) /\ Belongs(members, l, i)
        BY <2>2, <2>3 DEF RowHolds, Stays
      <3>2. i \in txn.handled
        BY <2>2, <2>3, <3>1 DEF ListedAs, Holds, HoldsIn
      <3>3. Belongs(after, l, i)
        BY <1>6, <3>1, <3>2 DEF Belongs
      <3> QED
        BY <2>1, <2>3, <3>1, <3>3 DEF RowHolds, Stays
    <2>4. CASE l.status = "delisted"
      <3>1. \A i : ~IsMember(members, i) => ~IsMember(after, i)
        BY <1>6 DEF IsMember
      <3> QED
        BY <2>1, <2>2, <2>4, <3>1 DEF RowHolds, HasLeft
    <2> QED
      BY <2>3, <2>4
  <1>8. ASSUME NEW m \in OpenIn(after)
        PROVE  \E k \in 1..Len(txn.file) :
                   txn.file[k].status # "delisted" /\ HoldsIn(symbols, m.inst, txn.file[k].symbol)
    <2>1. m \in members /\ m.inst \in txn.handled \ InHand /\ m.to = Forever
      BY <1>2, <1>6 DEF OpenIn
    <2>2. ~DelistedIn(statuses, m.inst)
      BY <2>1 DEF Applying, LeaversGone, IsMember
    <2>3. PICK k \in 1..(txn.n - 1) : txn.file[k].status # "delisted" /\ Holds(m.inst, txn.file[k].symbol)
      BY <2>1, <2>2 DEF Underway, Working, RowsHandled
    <2> QED
      BY <1>2, <2>3 DEF Holds
  <1>9. UpTo(after, txn.eff)
    <2>1. \A m \in Closed(Absent) : m.from <= txn.eff /\ m.to <= txn.eff
      BY <1>3, <1>5 DEF Closed, EndsOn, UpTo
    <2> QED
      BY <1>1, <1>3, <1>4, <2>1 DEF UpTo
  <1> QED
    BY <1>1, <1>3, <1>4, <1>7, <1>8, <1>9 DEF AppliedTo

LEMMA BeginApplies ==
    ASSUME Inv, AppliedInv, NEW u \in Universes, NEW f \in Files, NEW d \in Dates, Begin(u, f, d)
    PROVE  AppliedInv'
  <1>1. txn = None /\ UNCHANGED <<symbols, statuses, members, changes, request>>
    BY DEF Begin, tables
  <1>2. /\ txn'.stage = "resolve" /\ txn'.n = 1 /\ txn'.handled = {} /\ txn'.file = f
        /\ txn'.saved.symbols = symbols /\ txn'.saved.statuses = statuses
        /\ txn'.saved.members = members /\ txn'.saved.changes = changes
    BY DEF Begin
  <1>3. txn' # None
    BY BeginType, NoTransaction DEF Inv
  <1>4. Applying'
    BY <1>2 DEF Applying, RowsApplied, LeaversGone, RowUnderway
  <1>5. txn'.n <= Len(txn'.file) + 1
    <2>1. Len(f) \in Nat
      BY SnapshotAssumption
    <2> QED
      BY <1>2, <2>1
  <1>6. Unchanged'
    BY <1>1, <1>2 DEF Unchanged
  <1> QED
    BY <1>1, <1>2, <1>3, <1>4, <1>5, <1>6 DEF AppliedInv

-----------------------------------------------------------------------------
(* The same file once more: every row finds its work done *)

Settled == AppliedTo(symbols, statuses, members, txn.file, txn.eff)
NothingChanges == UNCHANGED <<symbols, statuses, members, changes>>

LEMMA RowIsSettled ==
    ASSUME Underway, Settled, NEW stage, At(stage)
    PROVE  RowHolds(symbols, statuses, members, Line, txn.eff)
  BY RowDay DEF Settled, AppliedTo, Line

\* The instrument in hand is the one the applied row is about.
LEMMA SameInstrument ==
    ASSUME Underway, Applying, Settled, NEW stage, stage # "resolve", At(stage)
    PROVE  /\ Line.status # "delisted" =>
                  /\ ListedAs(symbols, Line, txn.inst) /\ MayTrade(statuses, Line, txn.inst)
                  /\ Belongs(members, Line, txn.inst)
           /\ Line.status = "delisted" =>
                  DelistedIn(statuses, txn.inst) /\ ~IsMember(members, txn.inst)
  <1>1. txn.stage = stage /\ OnDay(txn.eff)
    BY RowDay, WorkingDay
  <1>2. RowHolds(symbols, statuses, members, Line, txn.eff)
    BY RowIsSettled
  <1>3. CASE Line.status # "delisted"
    <2>1. PICK i \in Instruments :
              /\ ListedAs(symbols, Line, i) /\ MayTrade(statuses, Line, i) /\ Belongs(members, Line, i)
      BY <1>2, <1>3 DEF RowHolds, Stays
    <2>2. Holds(txn.inst, Line.symbol)
      BY <1>1, <1>3 DEF Underway, Working, RowInHand
    <2>3. i = txn.inst
      BY <1>1, <2>1, <2>2, SymbolsFit DEF ListedAs, Holds, HoldsIn
    <2> QED
      BY <1>3, <2>1, <2>3
  <1>4. CASE Line.status = "delisted"
    <2>1. PICK i \in Instruments : /\ LatestOf(symbols, Line.symbol, i)
                                   /\ DelistedIn(statuses, i) /\ ~IsMember(members, i)
      BY <1>2, <1>4 DEF RowHolds, HasLeft
    <2>2. LatestOf(symbols, Line.symbol, txn.inst)
      BY <1>1, <1>4, RowIsUnderway DEF UnderwayOf
    <2>3. PICK r \in symbols : /\ r.symbol = Line.symbol /\ r.inst = i
                               /\ \A s \in symbols : s.symbol = Line.symbol => s.from <= r.from
      BY <2>1 DEF LatestOf
    <2>4. PICK s \in symbols : /\ s.symbol = Line.symbol /\ s.inst = txn.inst
                               /\ \A q \in symbols : q.symbol = Line.symbol => q.from <= s.from
      BY <2>2 DEF LatestOf
    <2>5. r.from = s.from
      <3>1. r.from \in Nat /\ s.from \in Nat
        BY <1>1, SymbolsFit DEF HasDays
      <3>2. r.from <= s.from /\ s.from <= r.from
        BY <2>3, <2>4
      <3> QED
        BY <3>1, <3>2
    <2>6. r = s
      <3>1. Proper(symbols)
        BY <1>1, SymbolsFit DEF Fits
      <3>2. ~Overlap(r, s)  \/ r = s
        BY <1>1, <2>3, <2>4 DEF OnDay, Identity
      <3> QED
        BY <2>5, <3>1, <3>2 DEF Proper, Overlap
    <2> QED
      BY <1>4, <2>1, <2>3, <2>4, <2>6
  <1> QED
    BY <1>3, <1>4

LEMMA RepeatResolve ==
    ASSUME Underway, Applying, Settled, At("resolve")
    PROVE  ~ResolveFails /\ (Resolve => NothingChanges)
  <1>1. /\ OnDay(txn.eff) /\ txn.eff \in Nat /\ HasDays(symbols) /\ UpTo(symbols, txn.eff)
    BY WorkingDay, SymbolsFit DEF OnDay
  <1>2. RowHolds(symbols, statuses, members, Line, txn.eff)
    BY RowIsSettled
  <1>3. \A r \in symbols : Valid(r, txn.eff) <=> r.to = Forever
    BY <1>1, LastDay
  <1>4. CASE Line.status # "delisted"
    <2>1. PICK i \in Instruments : ListedAs(symbols, Line, i) /\ RenamedOn(symbols, Line, i, txn.eff)
      BY <1>2, <1>4 DEF RowHolds, Stays
    <2>2. PICK r \in symbols : r.inst = i /\ r.symbol = Line.symbol /\ r.to = Forever
      BY <2>1 DEF ListedAs
    <2>3. r \in TickerOn(Line.symbol, txn.eff)
      BY <1>3, <2>2 DEF TickerOn, OfTicker
    <2>4. CASE Line.prev = None
      <3>1. IsListed
        BY <2>3, <2>4 DEF IsListed
      <3>2. ~CanRename /\ ~IsUnknown
        BY <2>2, <2>4 DEF CanRename, IsUnknown, OfTicker
      <3> QED
        BY <3>1, <3>2 DEF Resolve, ResolveFails, NothingChanges
    <2>5. CASE Line.prev # None
      <3>1. PICK s \in symbols : s.inst = i /\ s.symbol = Line.prev /\ s.to = txn.eff
        BY <2>1, <2>5 DEF RenamedOn
      <3>2. \A q \in TickerOn(Line.symbol, txn.eff) : q = r
        BY <1>1, <1>3, <2>2, SymbolsFit DEF TickerOn, OfTicker
      <3>3. r \in Current
        BY <1>1, <2>2, <2>3, <3>2 DEF Current, Newest, HasDays
      <3>4. AlreadyRenamed
        BY <2>2, <2>5, <3>1, <3>3 DEF AlreadyRenamed
      <3>5. ~CanRename /\ ~IsUnknown
        BY <2>5, <3>4 DEF CanRename, IsUnknown
      <3> QED
        BY <3>4, <3>5 DEF Resolve, ResolveFails, NothingChanges
    <2> QED
      BY <2>4, <2>5
  <1>5. CASE Line.status = "delisted"
    <2>1. Line.prev = None /\ Ceased(symbols, Line.symbol) /\ \E i : LatestOf(symbols, Line.symbol, i)
      BY <1>2, <1>5 DEF RowHolds, HasLeft
    <2>2. OfTicker(Line.symbol) # {}
      BY <2>1 DEF LatestOf, OfTicker
    <2>3. TickerOn(Line.symbol, txn.eff) = {}
      BY <1>3, <2>1 DEF TickerOn, OfTicker, Ceased
    <2>4. WasListed /\ ~CanRename /\ ~IsUnknown
      BY <1>5, <2>1, <2>2, <2>3 DEF WasListed, CanRename, IsUnknown
    <2> QED
      BY <2>4 DEF Resolve, ResolveFails, NothingChanges
  <1> QED
    BY <1>4, <1>5

LEMMA RepeatExchange ==
    ASSUME Underway, Applying, Settled, At("exchange")
    PROVE  ~ExchangeFails /\ (Exchange => NothingChanges)
  <1>1. Listing = OpenSymbol(txn.inst) /\ \A r, s \in OpenSymbol(txn.inst) : r = s
    BY TickerOfTheDay DEF Listing
  <1>2. CASE Line.status # "delisted"
    <2>1. PICK r \in symbols : /\ r.inst = txn.inst /\ r.to = Forever
                               /\ Line.exchange # None => r.exchange = Line.exchange
      BY <1>2, SameInstrument DEF ListedAs
    <2>2. Listing = {r}
      BY <1>1, <2>1 DEF OpenSymbol
    <2>3. NamesExchange => /\ KeepsExchange(r, Line.exchange) /\ ~SetsExchange(r)
                           /\ ~MovesExchange(r, Line.exchange, txn.eff)
      BY <2>1 DEF NamesExchange, KeepsExchange, SetsExchange, MovesExchange
    <2>4. ~ExchangeFails
      BY <2>2, <2>3 DEF ExchangeFails
    <2>5. Exchange => NothingChanges
      BY <2>2, <2>3 DEF Exchange, NothingChanges
    <2> QED
      BY <2>4, <2>5
  <1>3. CASE Line.status = "delisted"
    <2>1. Listing = {}
      <3>1. DelistedIn(statuses, txn.inst)
        BY <1>3, SameInstrument
      <3>2. \A r \in symbols : r.inst = txn.inst => r.to # Forever
        BY <3>1, WorkingDay DEF Terminal, DelistedIn
      <3> QED
        BY <1>1, <3>2 DEF OpenSymbol
    <2>2. ~NamesExchange
      BY <2>1 DEF NamesExchange
    <2> QED
      BY <2>2 DEF ExchangeFails, Exchange, NothingChanges
  <1> QED
    BY <1>2, <1>3

LEMMA RepeatStatus ==
    ASSUME Underway, Applying, Settled, At("status")
    PROVE  ~StatusFails /\ (Status => NothingChanges)
  <1>1. /\ Line.status \in STATUSES /\ txn.eff \in Nat /\ HasDays(statuses) /\ UpTo(statuses, txn.eff)
        /\ Terminal(symbols, statuses)
    BY RowDay, WorkingDay, StatusesFit DEF Row, StatusDay, Fits
  <1>2. CASE Line.status = "active"
    <2>1. \A s \in statuses : s.inst = txn.inst => s.to # Forever
      BY <1>2, SameInstrument DEF MayTrade
    <2>2. {r \in statuses : r.inst = txn.inst /\ Valid(r, txn.eff)} = {}
      BY <1>1, <2>1, LastDay
    <2>3. StatusOn(txn.inst, txn.eff) = {"active"}
      BY <2>2 DEF StatusOn
    <2>4. ~StatusFails
      BY <1>2, <2>3 DEF StatusFails
    <2>5. Status => NothingChanges
      BY <1>2, <2>3 DEF Status, NothingChanges
    <2> QED
      BY <2>4, <2>5
  <1>3. CASE Line.status = "suspended"
    <2>1. PICK s \in statuses : s.inst = txn.inst /\ s.to = Forever /\ s.status = "suspended"
      BY <1>3, SameInstrument DEF MayTrade
    <2>2. s \in OpenStatus(txn.inst)
      BY <2>1 DEF OpenStatus
    <2>3. NoNews(txn.inst, "suspended") /\ ~Suspends(txn.inst, txn.eff)
      BY <2>1, <2>2 DEF NoNews, Suspends
    <2> QED
      BY <1>3, <2>3 DEF StatusFails, Status, NothingChanges
  <1>4. CASE Line.status = "delisted"
    <2>1. DelistedIn(statuses, txn.inst)
      BY <1>4, SameInstrument
    <2>2. NoNews(txn.inst, "delisted")
      BY <1>1, <2>1 DEF NoNews, OpenStatus, DelistedIn, Terminal
    <2> QED
      BY <1>4, <2>2 DEF StatusFails, Status, NothingChanges
  <1> QED
    BY <1>1, <1>2, <1>3, <1>4 DEF STATUSES

LEMMA RepeatMember ==
    ASSUME Underway, Applying, Settled, At("member")
    PROVE  ~MemberFails /\ (Member => NothingChanges)
  <1>1. Mine = {m \in members : m.inst = txn.inst /\ m.to = Forever}
    BY MineIsOpen
  <1>2. CASE Line.status # "delisted"
    <2>1. PICK m \in members : m.inst = txn.inst /\ m.to = Forever /\ m.weight = Line.weight
      BY <1>2, SameInstrument DEF Belongs
    <2>2. \A r, s \in Mine : r = s
      <3>1. Apart(members)
        BY WorkingDay DEF Fits
      <3> QED
        BY <1>1, <3>1, OneOpen
    <2>3. Mine = {m}
      BY <1>1, <2>1, <2>2
    <2>4. Mine # {} /\ SameWeight
      BY <2>1, <2>3 DEF SameWeight
    <2>5. ~MemberFails
      BY <1>2, <2>4 DEF MemberFails
    <2>6. Member => NothingChanges
      BY <1>2, <2>4 DEF Member, InPlace, Rolls, NothingChanges
    <2> QED
      BY <2>5, <2>6
  <1>3. CASE Line.status = "delisted"
    <2>1. Mine = {}
      BY <1>1, <1>3, SameInstrument DEF IsMember
    <2>2. ~MemberFails
      BY <1>3, <2>1 DEF MemberFails, Closable
    <2>3. Member => NothingChanges
      BY <1>3, <2>1 DEF Member, NothingChanges
    <2> QED
      BY <2>2, <2>3
  <1> QED
    BY <1>2, <1>3

LEMMA RepeatEnd ==
    ASSUME Underway, Applying, Settled, AtEnd
    PROVE  Absent = {} /\ Closable(Absent)
  <1>1. /\ InHand = {} /\ txn.n \in Nat /\ Len(txn.file) \in Nat /\ Len(txn.file) < txn.n
    BY EndDay DEF AtEnd
  <1>2. ASSUME NEW m \in Absent PROVE FALSE
    <2>1. m \in OpenIn(members) /\ m.inst \notin txn.handled
      BY AbsentIsUnhandled DEF OpenIn
    <2>2. PICK k \in 1..Len(txn.file) :
              txn.file[k].status # "delisted" /\ HoldsIn(symbols, m.inst, txn.file[k].symbol)
      BY <2>1 DEF Settled, AppliedTo
    <2>3. k \in 1..(txn.n - 1)
      BY <1>1
    <2> QED
      BY <2>1, <2>2, <2>3 DEF Applying, RowsApplied, Holds
  <1> QED
    BY <1>2 DEF Closable

\* A transaction that finds its file applied fails nowhere, and changes nothing.
LEMMA RepeatStep ==
    ASSUME Underway, Applying, Settled
    PROVE  ~Fails /\ (Resolve \/ Exchange \/ Status \/ Member => NothingChanges)
  <1>1. ~Fails
    BY RepeatResolve, RepeatExchange, RepeatStatus, RepeatMember, RepeatEnd DEF Fails
  <1>2. Resolve => NothingChanges
    BY RepeatResolve DEF Resolve
  <1>3. Exchange => NothingChanges
    BY RepeatExchange DEF Exchange
  <1>4. Status => NothingChanges
    BY RepeatStatus DEF Status
  <1>5. Member => NothingChanges
    BY RepeatMember DEF Member
  <1> QED
    BY <1>1, <1>2, <1>3, <1>4, <1>5

-----------------------------------------------------------------------------
(* ... so a snapshot takes hold *)

LEMMA StageIsOfTheFile ==
    ASSUME Underway, Resolve \/ Exchange \/ Status \/ Member
    PROVE  /\ txn'.file = txn.file /\ txn'.eff = txn.eff /\ txn'.universe = txn.universe
           /\ txn'.saved = txn.saved /\ txn'.n <= Len(txn'.file) + 1 /\ request' = request
  <1>1. PICK stage : At(stage)
    BY DEF Resolve, Exchange, Status, Member
  <1>2. /\ txn \in Txn /\ txn.n \in Nat /\ Len(txn.file) \in Nat /\ txn.n <= Len(txn.file)
    <2>1. txn \in Txn
      BY WorkingDay
    <2> QED
      BY <1>1, <2>1, RowDay
  <1>3. request' = request
    BY DEF Resolve, Exchange, Status, Member
  <1>4. ASSUME NEW i, NEW isNew, Is(i, isNew)
        PROVE  /\ txn'.file = txn.file /\ txn'.eff = txn.eff /\ txn'.universe = txn.universe
               /\ txn'.saved = txn.saved /\ txn'.n = txn.n
    BY <1>2, <1>4 DEF Is, Txn
  <1>5. ASSUME NEW next, txn' = [txn EXCEPT !.stage = next]
        PROVE  /\ txn'.file = txn.file /\ txn'.eff = txn.eff /\ txn'.universe = txn.universe
               /\ txn'.saved = txn.saved /\ txn'.n = txn.n
    BY <1>2, <1>5 DEF Txn
  <1>6. ASSUME NEW gone, NextLine(gone)
        PROVE  /\ txn'.file = txn.file /\ txn'.eff = txn.eff /\ txn'.universe = txn.universe
               /\ txn'.saved = txn.saved /\ txn'.n = txn.n + 1
    BY <1>2, <1>6 DEF NextLine, Txn
  <1>7. CASE Resolve
    <2>1. \E i, isNew : Is(i, isNew)
      BY <1>7 DEF Resolve
    <2> QED
      BY <1>2, <1>3, <1>4, <2>1
  <1>8. CASE Exchange \/ Status
    <2>1. \E next : txn' = [txn EXCEPT !.stage = next]
      BY <1>8 DEF Exchange, Status
    <2> QED
      BY <1>2, <1>3, <1>5, <2>1
  <1>9. CASE Member
    <2>1. \E gone : NextLine(gone)
      BY <1>9 DEF Member
    <2> QED
      BY <1>2, <1>3, <1>6, <2>1
  <1> QED
    BY <1>7, <1>8, <1>9

LEMMA RepeatIsSettled ==
    ASSUME AppliedInv, txn # None, Repeats
    PROVE  Settled /\ Unchanged
  BY DEF AppliedInv, Repeats, Again, Unchanged, Settled

LEMMA AppliedStep ==
    ASSUME OneRecord, Inv, TerminalInv, SyncInv, Inv', TerminalInv', AppliedInv, [Next]_vars
    PROVE  AppliedInv'
  <1>1. CASE UNCHANGED vars
    <2>1. UNCHANGED <<symbols, statuses, members, changes, txn, request>>
      BY <1>1 DEF vars, tables
    <2>2. Line' = Line /\ InHand' = InHand /\ (Repeats' <=> Repeats) /\ (Unchanged' <=> Unchanged)
      BY <2>1 DEF Line, InHand, Repeats, Again, Unchanged
    <2>3. Applying => Applying'
      BY <2>1, <2>2 DEF Applying, RowsApplied, LeaversGone, RowUnderway, Holds
    <2> QED
      BY <2>1, <2>2, <2>3 DEF AppliedInv
  <1>2. CASE \E u \in Universes, f \in Files, d \in Dates : Begin(u, f, d)
    BY <1>2, BeginApplies
  <1>3. CASE Resolve \/ Exchange \/ Status \/ Member
    <2>1. txn # None
      BY <1>3 DEF Resolve, Exchange, Status, Member, At
    <2>2. Underway /\ Applying
      BY <2>1 DEF Underway, SyncInv, AppliedInv
    <2>3. Applying'
      BY <1>3, <2>2, ResolveApplies, ExchangeApplies, StatusApplies, MemberApplies
    <2>4. /\ txn'.file = txn.file /\ txn'.eff = txn.eff /\ txn'.universe = txn.universe
          /\ txn'.saved = txn.saved /\ txn'.n <= Len(txn'.file) + 1 /\ request' = request
      BY <1>3, <2>2, StageIsOfTheFile
    <2>5. txn' # None
      BY <1>3, <2>2, ResolveWorks, ExchangeWorks, StatusWorks, MemberWorks
    <2>6. Repeats' => Unchanged'
      <3> HAVE Repeats'
      <3>1. Repeats
        BY <2>1, <2>4 DEF Repeats, Again
      <3>2. Settled /\ Unchanged
        BY <2>1, <3>1, RepeatIsSettled
      <3>3. NothingChanges
        BY <1>3, <2>2, <3>2, RepeatStep
      <3> QED
        BY <2>4, <3>2, <3>3 DEF Unchanged, NothingChanges
    <2> QED
      BY <2>1, <2>3, <2>4, <2>5, <2>6 DEF AppliedInv
  <1>4. CASE Commit
    <2>1. Underway /\ Applying /\ txn.n <= Len(txn.file) + 1
      BY <1>4 DEF Commit, AtEnd, Underway, SyncInv, AppliedInv
    <2>2. AppliedTo(symbols', statuses', members', txn.file, txn.eff)
      BY <1>4, <2>1, CommitApplies
    <2>3. txn' = None /\ request'.file = txn.file /\ request'.eff = txn.eff
      BY <1>4 DEF Commit
    <2> QED
      BY <2>2, <2>3 DEF AppliedInv
  <1>5. CASE Abort
    <2>1. txn # None
      BY <1>5 DEF Abort, Fails, At, AtEnd
    <2> QED
      BY <1>5, <2>1 DEF AppliedInv, Abort
  <1>6. CASE \/ \E old, new \in Tickers, d \in Dates : InstrumentRename(old, new, d)
             \/ \E t \in Tickers, ex \in Exchanges, d \in Dates : InstrumentExchange(t, ex, d)
             \/ \E t \in Tickers, want \in STATUSES, d \in Dates : InstrumentStatus(t, want, d)
    BY <1>6 DEF OneRecord, InstrumentRename, InstrumentExchange, InstrumentStatus, Command
  <1> QED
    BY <1>1, <1>2, <1>3, <1>4, <1>5, <1>6 DEF Next

LEMMA AppliedHolds ==
    ASSUME OneRecord
    PROVE  Spec => []AppliedInv
  <1>1. Init => AppliedInv
    BY DEF Init, AppliedInv
  <1>2. Inv /\ TerminalInv /\ SyncInv /\ Inv' /\ TerminalInv' /\ AppliedInv /\ [Next]_vars => AppliedInv'
    BY AppliedStep
  <1> QED
    BY <1>1, <1>2, InvHolds, TerminalHolds, SyncHolds, PTL DEF Spec

LEMMA RepeatChangesNothing ==
    ASSUME OneRecord, Inv, TerminalInv, SyncInv, AppliedInv
    PROVE  Repeatable
  <1> SUFFICES ASSUME request # None, Again({request.eff}) PROVE ~Fails /\ Now = txn.saved
    BY DEF Repeatable
  <1>1. txn # None /\ Repeats
    BY DEF Again, Repeats
  <1>2. Underway /\ Applying
    BY <1>1 DEF Underway, SyncInv, AppliedInv
  <1>3. Settled /\ Unchanged
    BY <1>1, RepeatIsSettled
  <1>4. ~Fails
    BY <1>2, <1>3, RepeatStep
  <1>5. txn.saved \in Saved
    BY <1>1 DEF Inv, TypeOK, Txn
  <1>6. Now = txn.saved
    BY <1>3, <1>5 DEF Now, Saved, Unchanged
  <1> QED
    BY <1>4, <1>6

LEMMA AppliedIsApplied ==
    ASSUME OneRecord, Inv, AppliedInv
    PROVE  SnapshotIsApplied
  <1> SUFFICES ASSUME txn = None, request # None PROVE SnapshotIsApplied
    BY DEF SnapshotIsApplied
  <1>1. PICK u, f, d : u = request.universe /\ f = request.file /\ d = request.eff
    OBVIOUS
  <1>2. TypeOK /\ Identity(symbols)
    BY DEF Inv
  <1>3. u \in Universes /\ f \in Seq(Row) /\ d \in Nat /\ Len(f) \in Nat
    BY <1>1, <1>2 DEF TypeOK
  <1>4. ASSUME NEW k \in 1..Len(f) PROVE f[k].status \in STATUSES
    <2>1. f[k] \in Row
      BY <1>3
    <2> QED
      BY <2>1 DEF Row
  <1>5. AppliedTo(symbols, statuses, members, f, d)
    BY <1>1 DEF AppliedInv
  <1>6. /\ HasDays(symbols) /\ HasDays(statuses) /\ HasDays(members)
        /\ UpTo(symbols, d) /\ UpTo(statuses, d) /\ UpTo(members, d)
    BY <1>2, <1>5, TablesAreDated DEF AppliedTo
  <1>7. /\ \A r \in symbols : Valid(r, d) <=> r.to = Forever
        /\ \A r \in statuses : Valid(r, d) <=> r.to = Forever
        /\ \A r \in members : Valid(r, d) <=> r.to = Forever
    BY <1>3, <1>6, LastDay
  <1>8. \A r, s \in symbols : r.to = Forever /\ s.to = Forever /\ (r.inst = s.inst \/ r.symbol = s.symbol) => r = s
    BY <1>2, SymbolsFit, <1>3, <1>6 DEF OnDay
  <1>9. \A m \in members : m.universe = u /\ m.inst \in Instruments
    BY <1>2, <1>3 DEF TypeOK, Membership, OneRecord
  <1>10. \A i : i \in MembersOn(u, d) <=> IsMember(members, i) /\ \E r \in symbols : r.inst = i /\ r.to = Forever
    BY <1>7, <1>9 DEF MembersOn, IsMember, SymbolOn
  <1>11. \A is, t : t \in TickersOf(is, d) <=> \E r \in symbols : r.inst \in is /\ r.to = Forever /\ r.symbol = t
    BY <1>7 DEF TickersOf
  <1>12. \A want, t : t \in Listed(f, want) <=> \E k \in 1..Len(f) : f[k].status \in want /\ f[k].symbol = t
    BY DEF Listed
  \* A ticker of a member is listed, and the row is about that member.
  <1>13. ASSUME NEW r \in symbols, r.to = Forever, r.inst \in MembersOn(u, d)
         PROVE  \E k \in 1..Len(f) : f[k].status # "delisted" /\ f[k].symbol = r.symbol /\ MayTrade(statuses, f[k], r.inst)
    <2>1. PICK m \in OpenIn(members) : m.inst = r.inst
      BY <1>10, <1>13 DEF IsMember, OpenIn
    <2>2. PICK k \in 1..Len(f) : f[k].status # "delisted" /\ HoldsIn(symbols, r.inst, f[k].symbol)
      BY <1>5, <2>1 DEF AppliedTo
    <2>3. f[k].symbol = r.symbol
      BY <1>8, <1>13, <2>2 DEF HoldsIn
    <2>4. PICK l : l = f[k]
      OBVIOUS
    <2>5. RowHolds(symbols, statuses, members, l, d)
      BY <1>5, <2>4 DEF AppliedTo
    <2>6. PICK i \in Instruments : ListedAs(symbols, l, i) /\ MayTrade(statuses, l, i)
      BY <2>2, <2>4, <2>5 DEF RowHolds, Stays
    <2>7. i = r.inst
      BY <1>8, <1>13, <2>3, <2>4, <2>6 DEF ListedAs
    <2> QED
      BY <2>2, <2>3, <2>4, <2>6, <2>7
  \* A listed ticker is a member's.
  <1>14. ASSUME NEW k \in 1..Len(f), f[k].status # "delisted"
         PROVE  \E r \in symbols : /\ r.to = Forever /\ r.symbol = f[k].symbol /\ r.inst \in MembersOn(u, d)
                                   /\ MayTrade(statuses, f[k], r.inst)
    <2>1. PICK l : l = f[k]
      OBVIOUS
    <2>2. RowHolds(symbols, statuses, members, l, d)
      BY <1>5, <2>1 DEF AppliedTo
    <2>3. PICK i \in Instruments : ListedAs(symbols, l, i) /\ MayTrade(statuses, l, i) /\ Belongs(members, l, i)
      BY <1>14, <2>1, <2>2 DEF RowHolds, Stays
    <2>4. PICK r \in symbols : r.inst = i /\ r.symbol = l.symbol /\ r.to = Forever
      BY <2>3 DEF ListedAs
    <2>5. i \in MembersOn(u, d)
      BY <1>10, <2>3, <2>4 DEF Belongs, IsMember
    <2> QED
      BY <2>1, <2>3, <2>4, <2>5
  <1>15. TickersOf(MembersOn(u, d), d) = Listed(f, {"active", "suspended"})
    <2>1. ASSUME NEW t \in TickersOf(MembersOn(u, d), d) PROVE t \in Listed(f, {"active", "suspended"})
      <3>1. PICK r \in symbols : r.inst \in MembersOn(u, d) /\ r.to = Forever /\ r.symbol = t
        BY <1>11
      <3>2. PICK k \in 1..Len(f) : f[k].status # "delisted" /\ f[k].symbol = t
        BY <1>13, <3>1
      <3>3. f[k].status \in {"active", "suspended"}
        BY <1>4, <3>2 DEF STATUSES
      <3> QED
        BY <1>12, <3>2, <3>3
    <2>2. ASSUME NEW t \in Listed(f, {"active", "suspended"}) PROVE t \in TickersOf(MembersOn(u, d), d)
      <3>1. PICK k \in 1..Len(f) : f[k].status \in {"active", "suspended"} /\ f[k].symbol = t
        BY <1>12
      <3>2. PICK r \in symbols : r.to = Forever /\ r.symbol = t /\ r.inst \in MembersOn(u, d)
        BY <1>14, <3>1
      <3> QED
        BY <1>11, <3>2
    <2> QED
      BY <2>1, <2>2
  <1>16. \A i : i \in TradableOn(u, d) <=> i \in MembersOn(u, d) /\ StatusOn(i, d) = {"active"}
    BY DEF TradableOn
  <1>17. TickersOf(TradableOn(u, d), d) = Listed(f, {"active"})
    <2>1. ASSUME NEW t \in TickersOf(TradableOn(u, d), d) PROVE t \in Listed(f, {"active"})
      <3>1. PICK r \in symbols : r.inst \in TradableOn(u, d) /\ r.to = Forever /\ r.symbol = t
        BY <1>11
      <3>2. r.inst \in MembersOn(u, d) /\ StatusOn(r.inst, d) = {"active"}
        BY <1>16, <3>1
      <3>3. PICK k \in 1..Len(f) : f[k].status # "delisted" /\ f[k].symbol = t /\ MayTrade(statuses, f[k], r.inst)
        BY <1>13, <3>1, <3>2
      <3>4. f[k].status # "suspended"
        <4> SUFFICES ASSUME f[k].status = "suspended" PROVE FALSE
          OBVIOUS
        <4>1. PICK s \in statuses : s.inst = r.inst /\ s.to = Forever /\ s.status = "suspended"
          BY <3>3 DEF MayTrade
        <4>2. s \in {q \in statuses : q.inst = r.inst /\ Valid(q, d)}
          BY <1>7, <4>1
        <4>3. "suspended" \in StatusOn(r.inst, d)
          BY <4>1, <4>2 DEF StatusOn
        <4> QED
          BY <3>2, <4>3
      <3> QED
        BY <1>4, <1>12, <3>3, <3>4 DEF STATUSES
    <2>2. ASSUME NEW t \in Listed(f, {"active"}) PROVE t \in TickersOf(TradableOn(u, d), d)
      <3>1. PICK k \in 1..Len(f) : f[k].status = "active" /\ f[k].symbol = t
        BY <1>12
      <3>2. PICK r \in symbols : /\ r.to = Forever /\ r.symbol = t /\ r.inst \in MembersOn(u, d)
                                 /\ MayTrade(statuses, f[k], r.inst)
        BY <1>14, <3>1
      <3>3. {q \in statuses : q.inst = r.inst /\ Valid(q, d)} = {}
        BY <1>7, <3>1, <3>2 DEF MayTrade
      <3>4. StatusOn(r.inst, d) = {"active"}
        BY <3>3 DEF StatusOn
      <3> QED
        BY <1>11, <1>16, <3>2, <3>4
    <2> QED
      BY <2>1, <2>2
  <1> QED
    BY <1>1, <1>15, <1>17 DEF SnapshotIsApplied

\* A snapshot of one universe that commits leaves its file applied: the members on the
\* effective date, and those of them that may trade, are the tickers it lists so.  And the
\* same file synced again on the same date, with nothing in between, fails nowhere and
\* changes no table (apply_snapshot; idempotent, docs/PROGRESS.md:20).
THEOREM SnapshotTakesHoldAlways ==
    ASSUME OneRecord
    PROVE  Spec => []SnapshotTakesHold
  <1>1. OneRecord /\ Inv /\ TerminalInv /\ SyncInv /\ AppliedInv => SnapshotTakesHold
    BY RepeatChangesNothing, AppliedIsApplied DEF SnapshotTakesHold
  <1> QED
    BY <1>1, InvHolds, TerminalHolds, SyncHolds, AppliedHolds, PTL
=============================================================================
