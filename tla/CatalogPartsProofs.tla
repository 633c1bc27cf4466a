-------------------------- MODULE CatalogPartsProofs --------------------------
(***************************************************************************)
(* HostCatalog takes the lock of the catalog as one variable and the loop  *)
(* of `resolve` as one step.  The proofs here are about the two modules    *)
(* that take them apart: ResolveLoop computes, one declaration at a time   *)
(* and through a slice whose array may move, what PortAllocation says a    *)
(* prepare computes; LockFile's flock and the pid in the file are a lock.  *)
(* They hold for every set of checkouts, services, ports, catalogs and     *)
(* adapters, and for every set of processes and every pids.                *)
(***************************************************************************)
EXTENDS ResolveLoop, LockFile, PortAllocationProofs, FiniteSetTheorems,
        FunctionTheorems

-----------------------------------------------------------------------------
(* The selection of rows *)

\* Selected takes every element at a position in T once, and no other.
LEMMA SelectedElements ==
    ASSUME NEW S, NEW seq \in Seq(S), NEW T \in SUBSET (DOMAIN seq)
    PROVE  /\ Selected(seq, T) \in Seq(S)
           /\ \E at \in [DOMAIN Selected(seq, T) -> T] :
                 /\ \A n \in DOMAIN Selected(seq, T) :
                       Selected(seq, T)[n] = seq[at[n]]
                 /\ \A m, n \in DOMAIN Selected(seq, T) :
                       at[m] = at[n] => m = n
                 /\ \A i \in T : \E n \in DOMAIN Selected(seq, T) : at[n] = i
<1> DEFINE upTo(i) == {j \in T : j <= i}
           size    == Cardinality(T)
           rank    == [i \in T |-> Cardinality(upTo(i))]
           take(n) == CHOOSE i \in T : Cardinality(upTo(i)) = n
           at      == [n \in 1 .. size |-> take(n)]
<1>1. T \subseteq Nat /\ IsFiniteSet(T) /\ size \in Nat
  <2>1. /\ Len(seq) \in Nat
        /\ DOMAIN seq = 1 .. Len(seq)
    OBVIOUS
  <2>2. \A i \in T : i <= Len(seq)
    BY <2>1
  <2>3. T \in SUBSET Nat
    BY <2>1
  <2>4. IsFiniteSet(T)
    BY <2>1, <2>2, <2>3, FS_BoundedSetOfNaturals
  <2>5. QED
    BY <2>3, <2>4, FS_CardinalityType
<1>2. ASSUME NEW i \in T
      PROVE  /\ IsFiniteSet(upTo(i))
             /\ rank[i] \in 1 .. size
  <2>1. upTo(i) \in SUBSET T
    OBVIOUS
  <2>2. /\ IsFiniteSet(upTo(i))
        /\ Cardinality(upTo(i)) <= size
        /\ Cardinality(upTo(i)) \in Nat
    BY <1>1, <2>1, FS_Subset, FS_CardinalityType
  <2>3. i \in upTo(i)
    BY <1>1
  <2>4. Cardinality(upTo(i)) # 0
    BY <2>2, <2>3, FS_EmptySet
  <2> HIDE DEF upTo, size
  <2>5. QED
    BY <1>1, <2>2, <2>4
<1>3. ASSUME NEW i \in T, NEW k \in T, i < k
      PROVE  rank[i] # rank[k]
  <2>1. upTo(i) \in SUBSET upTo(k)
    BY <1>1, <1>3
  <2>2. k \in upTo(k) /\ k \notin upTo(i)
    BY <1>1, <1>3
  <2>3. Cardinality(upTo(i)) # Cardinality(upTo(k))
    <3>1. IsFiniteSet(upTo(k))
      BY <1>2
    <3> HIDE DEF upTo
    <3>2. QED
      BY <2>1, <2>2, <3>1, FS_Subset
  <2>4. QED
    BY <2>3
<1>4. \A i, k \in T : rank[i] = rank[k] => i = k
  <2> SUFFICES ASSUME NEW i \in T, NEW k \in T, i # k PROVE rank[i] # rank[k]
    OBVIOUS
  <2>1. i < k \/ k < i
    BY <1>1
  <2> HIDE DEF rank
  <2>2. QED
    BY <1>3, <2>1
<1>5. \A n \in 1 .. size : \E i \in T : rank[i] = n
  <2>1. rank \in [T -> 1 .. size]
    BY <1>2
  <2> HIDE DEF rank
  <2>2. rank \in Injection(T, 1 .. size)
    BY <1>4, <2>1, Fun_IsInj
  <2>3. IsFiniteSet(1 .. size) /\ Cardinality(1 .. size) = size
    BY <1>1, FS_Interval
  <2>4. rank \in Surjection(T, 1 .. size)
    BY <2>2, <2>3, FS_Injection
  <2>5. QED
    BY <2>4 DEF Surjection
<1>6. \A n \in 1 .. size : at[n] \in T /\ rank[at[n]] = n
  <2> SUFFICES ASSUME NEW n \in 1 .. size PROVE at[n] \in T /\ rank[at[n]] = n
    OBVIOUS
  <2>1. \E i \in T : Cardinality(upTo(i)) = n
    BY <1>5
  <2>2. /\ at[n] \in T
        /\ Cardinality(upTo(at[n])) = n
    <3> HIDE DEF upTo, size
    <3>1. QED
      BY <2>1
  <2>3. QED
    BY <2>2
<1>7. Selected(seq, T) = [n \in 1 .. size |-> seq[at[n]]]
  BY DEF Selected
<1> HIDE DEF rank, size, take
<1>8. Selected(seq, T) \in Seq(S) /\ DOMAIN Selected(seq, T) = 1 .. size
  <2>1. \A n \in 1 .. size : seq[at[n]] \in S
    BY <1>6
  <2>2. QED
    BY <1>1, <1>7, <2>1
<1>9. at \in [1 .. size -> T]
  BY <1>6
<1> HIDE DEF at
<1>10. ASSUME NEW i \in T PROVE \E n \in 1 .. size : at[n] = i
  <2>1. rank[i] \in 1 .. size
    BY <1>2
  <2>2. at[rank[i]] \in T /\ rank[at[rank[i]]] = rank[i]
    BY <1>6, <2>1
  <2>3. at[rank[i]] = i
    BY <1>4, <2>2
  <2>4. QED
    BY <2>1, <2>3
<1>11. \A m, n \in 1 .. size : at[m] = at[n] => m = n
  BY <1>6
<1>12. QED
  <2>1. at \in [DOMAIN Selected(seq, T) -> T]
    BY <1>8, <1>9
  <2>2. /\ \A n \in DOMAIN Selected(seq, T) : Selected(seq, T)[n] = seq[at[n]]
        /\ \A m, n \in DOMAIN Selected(seq, T) : at[m] = at[n] => m = n
        /\ \A i \in T : \E n \in DOMAIN Selected(seq, T) : at[n] = i
    BY <1>7, <1>8, <1>10, <1>11
  <2>3. QED
    BY <1>8, <2>1, <2>2

-----------------------------------------------------------------------------
(* Rows and the catalog they stand for *)

\* The rows are those of the catalog, one for each key.
Represents(rows, cat) ==
    /\ \A i \in DOMAIN rows :
          cat[rows[i].key] = [port |-> rows[i].port, mode |-> rows[i].mode]
    /\ \A i, j \in DOMAIN rows : rows[i].key = rows[j].key => i = j
    /\ \A k \in Keys : cat[k] # NoRow => \E i \in DOMAIN rows : rows[i].key = k

\* A row of a slice is a row of the catalog it stands for, and no NoRow.
LEMMA RowOfSlice ==
    ASSUME NEW rows \in Seq(Rows), NEW cat, Represents(rows, cat),
           NEW i \in DOMAIN rows
    PROVE  /\ rows[i].key \in Keys
           /\ cat[rows[i].key] = [port |-> rows[i].port, mode |-> rows[i].mode]
           /\ cat[rows[i].key] # NoRow
<1>1. rows[i] \in Rows
  OBVIOUS
<1>2. rows[i].key \in Keys /\ rows[i].port # NoPort
  BY <1>1, PortsAssumption DEF Rows
<1>3. QED
  BY <1>2 DEF Represents, NoRow

\* Contents finds the catalog.
LEMMA ContentsOfRows ==
    ASSUME NEW rows \in Seq(Rows), NEW cat \in Catalogs, Represents(rows, cat)
    PROVE  Contents(rows) = cat
<1>1. ASSUME NEW k \in Keys PROVE Contents(rows)[k] = cat[k]
  <2>1. CASE \E i \in DOMAIN rows : rows[i].key = k
    <3> DEFINE i == CHOOSE n \in DOMAIN rows : rows[n].key = k
    <3>1. i \in DOMAIN rows /\ rows[i].key = k
      BY <2>1
    <3>2. Contents(rows)[k] = [port |-> rows[i].port, mode |-> rows[i].mode]
      BY <2>1 DEF Contents
    <3> HIDE DEF i
    <3>3. QED
      BY <3>1, <3>2, RowOfSlice
  <2>2. CASE ~ \E i \in DOMAIN rows : rows[i].key = k
    BY <2>2 DEF Contents, Represents
  <2>3. QED
    BY <2>1, <2>2
<1>2. Contents(rows) = [k \in Keys |-> Contents(rows)[k]]
  BY DEF Contents
<1>3. cat = [k \in Keys |-> cat[k]]
  BY DEF Catalogs
<1>4. QED
  BY <1>1, <1>2, <1>3

\* A row is replaced in place.
LEMMA RepresentsReplaced ==
    ASSUME NEW rows \in Seq(Rows), NEW cat \in Catalogs, Represents(rows, cat),
           NEW i \in DOMAIN rows, NEW port \in Ports, NEW mode \in Modes
    PROVE  LET row == Row(rows[i].key, port, mode)
           IN /\ [rows EXCEPT ![i] = row] \in Seq(Rows)
              /\ Represents([rows EXCEPT ![i] = row],
                     [cat EXCEPT ![rows[i].key] = [port |-> port, mode |-> mode]])
<1> DEFINE row == Row(rows[i].key, port, mode)
           new == [rows EXCEPT ![i] = row]
           cat2 == [cat EXCEPT ![rows[i].key] = [port |-> port, mode |-> mode]]
<1>1. \A j \in DOMAIN rows : rows[j] \in Rows /\ rows[j].key \in Keys
  <2>1. \A j \in DOMAIN rows : rows[j] \in Rows
    OBVIOUS
  <2>2. QED
    BY <2>1 DEF Rows
<1>2. row \in Rows /\ row.key = rows[i].key /\ row.port = port /\ row.mode = mode
  BY <1>1 DEF Row, Rows
<1>3. new \in Seq(Rows) /\ DOMAIN new = DOMAIN rows
  BY <1>2
<1>4. /\ new[i] = row
      /\ \A j \in DOMAIN rows : j # i => new[j] = rows[j]
      /\ \A j \in DOMAIN rows : new[j].key = rows[j].key
  BY <1>2
<1>5. /\ DOMAIN cat = Keys /\ DOMAIN cat2 = Keys
      /\ cat2[rows[i].key] = [port |-> port, mode |-> mode]
      /\ \A k \in Keys : k # rows[i].key => cat2[k] = cat[k]
  BY <1>1 DEF Catalogs
<1>6. \A j \in DOMAIN rows : j # i => rows[j].key # rows[i].key
  BY DEF Represents
<1> HIDE DEF new, cat2, row
<1>7. ASSUME NEW j \in DOMAIN rows
      PROVE  cat2[new[j].key] = [port |-> new[j].port, mode |-> new[j].mode]
  BY <1>1, <1>2, <1>4, <1>5, <1>6 DEF Represents
<1>8. \A j, n \in DOMAIN rows : new[j].key = new[n].key => j = n
  BY <1>4 DEF Represents
<1>9. \A k \in Keys : cat2[k] # NoRow => \E j \in DOMAIN rows : new[j].key = k
  BY <1>4, <1>5 DEF Represents
<1>10. Represents(new, cat2)
  BY <1>3, <1>7, <1>8, <1>9 DEF Represents
<1>11. QED
  BY <1>3, <1>10 DEF new, cat2, row

\* A row is appended for a key that has none.
LEMMA RepresentsAppended ==
    ASSUME NEW rows \in Seq(Rows), NEW cat \in Catalogs, Represents(rows, cat),
           NEW k \in Keys, cat[k] = NoRow, NEW port \in Ports, NEW mode \in Modes
    PROVE  /\ Append(rows, Row(k, port, mode)) \in Seq(Rows)
           /\ Represents(Append(rows, Row(k, port, mode)),
                  [cat EXCEPT ![k] = [port |-> port, mode |-> mode]])
<1> DEFINE row == Row(k, port, mode)
           new == Append(rows, row)
           cat2 == [cat EXCEPT ![k] = [port |-> port, mode |-> mode]]
           last == Len(rows) + 1
<1>1. row \in Rows /\ row.key = k /\ row.port = port /\ row.mode = mode
  BY DEF Row, Rows
<1>2. /\ new \in Seq(Rows)
      /\ DOMAIN new = DOMAIN rows \cup {last} /\ last \notin DOMAIN rows
      /\ new[last] = row
      /\ \A j \in DOMAIN rows : new[j] = rows[j]
  BY <1>1
<1>3. /\ cat2[k] = [port |-> port, mode |-> mode]
      /\ \A key \in Keys : key # k => cat2[key] = cat[key]
  BY DEF Catalogs
<1>4. \A j \in DOMAIN rows : rows[j].key \in Keys /\ rows[j].key # k
  BY RowOfSlice
<1> HIDE DEF new, cat2, row, last
<1>5. ASSUME NEW j \in DOMAIN new
      PROVE  cat2[new[j].key] = [port |-> new[j].port, mode |-> new[j].mode]
  <2>1. CASE j = last
    BY <1>1, <1>2, <1>3, <2>1
  <2>2. CASE j \in DOMAIN rows
    BY <1>2, <1>3, <1>4, <2>2 DEF Represents
  <2>3. QED
    BY <1>2, <2>1, <2>2
<1>6. \A j, n \in DOMAIN new : new[j].key = new[n].key => j = n
  BY <1>1, <1>2, <1>4 DEF Represents
<1>7. \A key \in Keys : cat2[key] # NoRow => \E j \in DOMAIN new : new[j].key = key
  BY <1>1, <1>2, <1>3 DEF Represents
<1>8. Represents(new, cat2)
  BY <1>5, <1>6, <1>7 DEF Represents
<1>9. QED
  BY <1>2, <1>8 DEF new, cat2, row

\* loadCatalog gives the rows of the catalog.
LEMMA LoadedRows ==
    ASSUME NEW cat \in Catalogs
    PROVE  RowsOf(cat) \in Seq(Rows) /\ Represents(RowsOf(cat), cat)
<1> DEFINE T == {i \in DOMAIN KeyOrder : cat[KeyOrder[i]] # NoRow}
           present == Selected(KeyOrder, T)
<1>1. T \in SUBSET (DOMAIN KeyOrder) /\ KeyOrder \in Seq(Keys)
  BY KeyOrderAssumption
<1>2. PICK at \in [DOMAIN present -> T] :
        /\ \A n \in DOMAIN present : present[n] = KeyOrder[at[n]]
        /\ \A m, n \in DOMAIN present : at[m] = at[n] => m = n
        /\ \A i \in T : \E n \in DOMAIN present : at[n] = i
  <2> HIDE DEF T
  <2>1. QED
    BY <1>1, SelectedElements
<1>3. present \in Seq(Keys)
  <2> HIDE DEF T
  <2>1. QED
    BY <1>1, SelectedElements
<1>4. RowsOf(cat) = [n \in DOMAIN present |->
                        Row(present[n], cat[present[n]].port,
                            cat[present[n]].mode)]
  BY DEF RowsOf
<1>5. ASSUME NEW n \in DOMAIN present
      PROVE  /\ present[n] \in Keys
             /\ cat[present[n]] \in Allocations
  <2>1. present[n] \in Keys /\ at[n] \in T /\ present[n] = KeyOrder[at[n]]
    BY <1>2, <1>3
  <2>2. QED
    BY <2>1 DEF Catalogs
<1>6. \A k \in Keys : cat[k] # NoRow => \E n \in DOMAIN present : present[n] = k
  <2> SUFFICES ASSUME NEW k \in Keys, cat[k] # NoRow
               PROVE  \E n \in DOMAIN present : present[n] = k
    OBVIOUS
  <2>1. PICK i \in DOMAIN KeyOrder : KeyOrder[i] = k
    BY KeyOrderAssumption
  <2>2. i \in T
    BY <2>1
  <2>3. QED
    BY <1>2, <2>1, <2>2
<1>7. \A m, n \in DOMAIN present : present[m] = present[n] => m = n
  <2> SUFFICES ASSUME NEW m \in DOMAIN present, NEW n \in DOMAIN present,
                      present[m] = present[n]
               PROVE  m = n
    OBVIOUS
  <2>1. at[m] \in DOMAIN KeyOrder /\ at[n] \in DOMAIN KeyOrder
    BY <1>2
  <2>2. KeyOrder[at[m]] = KeyOrder[at[n]]
    BY <1>2
  <2>3. QED
    BY <1>2, <2>1, <2>2, KeyOrderAssumption
<1> HIDE DEF present, T
<1>8. RowsOf(cat) \in Seq(Rows) /\ DOMAIN RowsOf(cat) = DOMAIN present
  <2>1. \A n \in DOMAIN present :
           Row(present[n], cat[present[n]].port, cat[present[n]].mode) \in Rows
    BY <1>5 DEF Row, Rows, Allocations
  <2>2. DOMAIN present = 1 .. Len(present) /\ Len(present) \in Nat
    BY <1>3
  <2>3. QED
    BY <1>4, <2>1, <2>2
<1>9. ASSUME NEW n \in DOMAIN present
      PROVE  /\ RowsOf(cat)[n].key = present[n]
             /\ cat[present[n]] = [port |-> RowsOf(cat)[n].port,
                                   mode |-> RowsOf(cat)[n].mode]
  BY <1>4, <1>5 DEF Row, Allocations
<1>10. \A n \in DOMAIN RowsOf(cat) :
          cat[RowsOf(cat)[n].key] = [port |-> RowsOf(cat)[n].port,
                                     mode |-> RowsOf(cat)[n].mode]
  BY <1>8, <1>9
<1>11. \A m, n \in DOMAIN RowsOf(cat) :
          RowsOf(cat)[m].key = RowsOf(cat)[n].key => m = n
  BY <1>7, <1>8, <1>9
<1>12. ASSUME NEW k \in Keys, cat[k] # NoRow
       PROVE  \E n \in DOMAIN RowsOf(cat) : RowsOf(cat)[n].key = k
  <2>1. PICK n \in DOMAIN present : present[n] = k
    BY <1>6, <1>12
  <2>2. QED
    BY <1>8, <1>9, <2>1
<1>13. QED
  BY <1>8, <1>10, <1>11, <1>12 DEF Represents

\* pruneUndeclaredAllocations leaves the rows of the pruned catalog.
LEMMA PrunedRows ==
    ASSUME NEW rows \in Seq(Rows), NEW cat \in Catalogs, Represents(rows, cat),
           NEW c
    PROVE  LET kept(row) == row.key[1] = c.at => Declares(c.adapter, row.key[2])
               left == Selected(rows, {i \in DOMAIN rows : kept(rows[i])})
           IN left \in Seq(Rows) /\ Represents(left, pruneUndeclared(cat, c))
<1> DEFINE kept(row) == row.key[1] = c.at => Declares(c.adapter, row.key[2])
           T    == {i \in DOMAIN rows : kept(rows[i])}
           left == Selected(rows, T)
           new  == pruneUndeclared(cat, c)
<1>0. T \in SUBSET (DOMAIN rows)
  OBVIOUS
<1>1. PICK at \in [DOMAIN left -> T] :
        /\ \A n \in DOMAIN left : left[n] = rows[at[n]]
        /\ \A m, n \in DOMAIN left : at[m] = at[n] => m = n
        /\ \A i \in T : \E n \in DOMAIN left : at[n] = i
  <2> HIDE DEF T
  <2>1. QED
    BY <1>0, SelectedElements
<1>2. left \in Seq(Rows)
  <2> HIDE DEF T
  <2>1. QED
    BY <1>0, SelectedElements
<1>3. \A n \in DOMAIN left : at[n] \in DOMAIN rows /\ at[n] \in T
  BY <1>1
<1> HIDE DEF left
<1>4. ASSUME NEW n \in DOMAIN left
      PROVE  new[left[n].key] = [port |-> left[n].port, mode |-> left[n].mode]
  <2>1. rows[at[n]].key \in Keys
    BY <1>3, RowOfSlice
  <2>2. new[rows[at[n]].key] = cat[rows[at[n]].key]
    BY <1>3, <2>1 DEF pruneUndeclared
  <2>3. QED
    BY <1>1, <1>3, <2>2 DEF Represents
<1>5. \A m, n \in DOMAIN left : left[m].key = left[n].key => m = n
  BY <1>1, <1>3 DEF Represents
<1>6. ASSUME NEW k \in Keys, new[k] # NoRow
      PROVE  \E n \in DOMAIN left : left[n].key = k
  <2>1. cat[k] # NoRow /\ (k[1] = c.at => Declares(c.adapter, k[2]))
    BY <1>6 DEF pruneUndeclared
  <2>2. PICK i \in DOMAIN rows : rows[i].key = k
    BY <2>1 DEF Represents
  <2>3. i \in T
    BY <2>1, <2>2
  <2>4. QED
    BY <1>1, <2>2, <2>3
<1>7. QED
  BY <1>2, <1>4, <1>5, <1>6 DEF Represents, left

-----------------------------------------------------------------------------
(* The rows a part of the loop leaves *)

\* The catalog once the declarations before the n-th have their ports: the
\* rows that prepareRows writes for them, and all others as they were.
WrittenTo(cat, c, ports, n, moved) ==
    [k \in Keys |->
        IF /\ k[1] = c.at /\ Declares(c.adapter, k[2])
           /\ IndexOf(c.adapter, k[2]) < n
           /\ ~LostWrite(cat, c, moved, IndexOf(c.adapter, k[2]))
        THEN [port |-> ports[IndexOf(c.adapter, k[2])], mode |-> c.mode]
        ELSE cat[k]]

\* What is left of it in the array that byService points into.
OldRows(cat, new) == [k \in Keys |-> IF cat[k] = NoRow THEN NoRow ELSE new[k]]

\* IndexOf is the inverse of the names of the declarations.
LEMMA IndexOfName ==
    ASSUME NEW c \in WellFormed, NEW i \in DOMAIN c.adapter.ports
    PROVE  /\ Declares(c.adapter, c.adapter.ports[i].name)
           /\ IndexOf(c.adapter, c.adapter.ports[i].name) = i
<1>1. Declares(c.adapter, c.adapter.ports[i].name)
  BY DEF Declares
<1>2. LET n == IndexOf(c.adapter, c.adapter.ports[i].name)
      IN /\ n \in DOMAIN c.adapter.ports
         /\ c.adapter.ports[n].name = c.adapter.ports[i].name
  BY <1>1, CommandType, DeclarationOf
<1>3. QED
  BY <1>1, <1>2, CommandType DEF AdapterConfigs

LEMMA WrittenType ==
    ASSUME NEW c \in WellFormed, NEW cat \in Catalogs, NEW n \in Nat, NEW moved,
           NEW ports \in Seq(Ports), n <= Len(ports) + 1
    PROVE  /\ WrittenTo(cat, c, ports, n, moved) \in Catalogs
           /\ OldRows(cat, WrittenTo(cat, c, ports, n, moved)) \in Catalogs
<1>1. ASSUME NEW k \in Keys
      PROVE  WrittenTo(cat, c, ports, n, moved)[k] \in Allocations \cup {NoRow}
  <2>1. CASE /\ k[1] = c.at /\ Declares(c.adapter, k[2])
             /\ IndexOf(c.adapter, k[2]) < n
             /\ ~LostWrite(cat, c, moved, IndexOf(c.adapter, k[2]))
    <3> DEFINE i == IndexOf(c.adapter, k[2])
    <3>1. i \in DOMAIN c.adapter.ports
      BY <2>1, CommandType, DeclarationOf
    <3>2. i \in 1 .. Len(ports)
      BY <2>1, <3>1, CommandType
    <3>3. ports[i] \in Ports
      BY <3>2
    <3>4. WrittenTo(cat, c, ports, n, moved)[k] = [port |-> ports[i], mode |-> c.mode]
      BY <2>1 DEF WrittenTo
    <3> HIDE DEF i
    <3>5. QED
      BY <3>3, <3>4, CommandType DEF Allocations
  <2>2. CASE ~ (/\ k[1] = c.at /\ Declares(c.adapter, k[2])
                /\ IndexOf(c.adapter, k[2]) < n
                /\ ~LostWrite(cat, c, moved, IndexOf(c.adapter, k[2])))
    BY <2>2 DEF WrittenTo, Catalogs
  <2>3. QED
    BY <2>1, <2>2
<1>2. WrittenTo(cat, c, ports, n, moved)
          = [k \in Keys |-> WrittenTo(cat, c, ports, n, moved)[k]]
  BY DEF WrittenTo
<1>3. WrittenTo(cat, c, ports, n, moved) \in Catalogs
  BY <1>1, <1>2 DEF Catalogs
<1>4. QED
  BY <1>3 DEF OldRows, Catalogs

\* Before the first declaration nothing is written.
LEMMA WrittenNothing ==
    ASSUME NEW c \in WellFormed, NEW cat \in Catalogs, NEW moved, NEW ports
    PROVE  /\ WrittenTo(cat, c, ports, 1, moved) = cat
           /\ OldRows(cat, WrittenTo(cat, c, ports, 1, moved)) = cat
<1>1. \A k \in Keys : Declares(c.adapter, k[2])
                          => ~ (IndexOf(c.adapter, k[2]) < 1)
  BY CommandType, DeclarationOf
<1>2. WrittenTo(cat, c, ports, 1, moved) = [k \in Keys |-> cat[k]]
  BY <1>1 DEF WrittenTo
<1>3. cat = [k \in Keys |-> cat[k]]
  BY DEF Catalogs
<1>4. OldRows(cat, cat) = [k \in Keys |-> cat[k]]
  BY DEF OldRows
<1>5. QED
  BY <1>2, <1>3, <1>4

\* After the last one, everything is.
LEMMA WrittenAll ==
    ASSUME NEW c \in WellFormed, NEW cat \in Catalogs, NEW moved, NEW ports
    PROVE  WrittenTo(cat, c, ports, Len(c.adapter.ports) + 1, moved)
               = WriteRows(cat, c, ports, moved)
<1>1. \A k \in Keys : Declares(c.adapter, k[2])
          => IndexOf(c.adapter, k[2]) < Len(c.adapter.ports) + 1
  BY CommandType, DeclarationOf
<1>2. QED
  BY <1>1 DEF WrittenTo, WriteRows

\* One more declaration: its row is written, unless it is an old row whose
\* address leads to an array that is no longer the slice's.
LEMMA WrittenNext ==
    ASSUME NEW c \in WellFormed, NEW cat \in Catalogs,
           NEW n \in DOMAIN c.adapter.ports, NEW moved,
           NEW ports \in Seq(Ports), Len(ports) = n - 1, NEW port \in Ports
    PROVE  LET key == <<c.at, c.adapter.ports[n].name>>
               row == [port |-> port, mode |-> c.mode]
               old == WrittenTo(cat, c, ports, n, moved)
               new == WrittenTo(cat, c, Append(ports, port), n + 1, moved)
           IN /\ new = IF LostWrite(cat, c, moved, n) THEN old
                       ELSE [old EXCEPT ![key] = row]
              /\ old[key] = cat[key]
<1> DEFINE key == <<c.at, c.adapter.ports[n].name>>
           row == [port |-> port, mode |-> c.mode]
           old == WrittenTo(cat, c, ports, n, moved)
           new == WrittenTo(cat, c, Append(ports, port), n + 1, moved)
           more == Append(ports, port)
           at(k) == IndexOf(c.adapter, k[2])
<1>1. n \in Nat /\ key \in Keys /\ key[1] = c.at /\ key[2] = c.adapter.ports[n].name
  <2>1. key \in Keys
    BY KeysDiffer
  <2>2. n \in Nat
    BY CommandType
  <2>3. QED
    BY <2>1, <2>2
<1>2. Declares(c.adapter, key[2]) /\ at(key) = n
  BY <1>1, IndexOfName
<1>3. \A k \in Keys : k[1] = c.at /\ Declares(c.adapter, k[2]) =>
          /\ at(k) \in DOMAIN c.adapter.ports /\ at(k) \in Nat
          /\ at(k) = n => k = key
  BY CommandType, DeclarationOf DEF Keys
<1>4. /\ more[n] = port
      /\ \A i \in DOMAIN c.adapter.ports : i < n => more[i] = ports[i]
  BY <1>1, CommandType
<1>5. old[key] = cat[key]
  BY <1>1, <1>2 DEF WrittenTo
<1>6. ASSUME NEW k \in Keys, k # key PROVE new[k] = old[k]
  <2>1. CASE k[1] = c.at /\ Declares(c.adapter, k[2])
    <3>1. at(k) < n + 1 <=> at(k) < n
      BY <1>1, <1>3, <1>6, <2>1
    <3>2. at(k) < n => more[at(k)] = ports[at(k)]
      BY <1>3, <1>4, <2>1
    <3> HIDE DEF at, more
    <3>3. QED
      BY <3>1, <3>2 DEF WrittenTo, at, more
  <2>2. CASE ~ (k[1] = c.at /\ Declares(c.adapter, k[2]))
    BY <2>2 DEF WrittenTo
  <2>3. QED
    BY <2>1, <2>2
<1>7. new[key] = IF LostWrite(cat, c, moved, n) THEN cat[key] ELSE row
  BY <1>1, <1>2, <1>4 DEF WrittenTo
<1>8. /\ old = [k \in Keys |-> old[k]]
      /\ new = [k \in Keys |-> new[k]]
  BY DEF WrittenTo
<1> HIDE DEF old, new, key, row
<1>9. CASE LostWrite(cat, c, moved, n)
  <2>1. \A k \in Keys : new[k] = old[k]
    BY <1>5, <1>6, <1>7, <1>9
  <2>2. new = old
    BY <1>8, <2>1
  <2>3. QED
    BY <1>5, <1>9, <2>2 DEF old, new, key, row
<1>10. CASE ~LostWrite(cat, c, moved, n)
  <2>1. \A k \in Keys : new[k] = [old EXCEPT ![key] = row][k]
    BY <1>6, <1>7, <1>8, <1>10
  <2>2. [old EXCEPT ![key] = row] = [k \in Keys |-> [old EXCEPT ![key] = row][k]]
    BY <1>8
  <2>3. new = [old EXCEPT ![key] = row]
    BY <1>8, <2>1, <2>2
  <2>4. QED
    BY <1>5, <1>10, <2>3 DEF old, new, key, row
<1>11. QED
  BY <1>9, <1>10

\* The same of the old rows, which keep their addresses.
LEMMA OldRowsNext ==
    ASSUME NEW c \in WellFormed, NEW cat \in Catalogs,
           NEW n \in DOMAIN c.adapter.ports,
           NEW ports \in Seq(Ports), Len(ports) = n - 1, NEW port \in Ports
    PROVE  LET key == <<c.at, c.adapter.ports[n].name>>
               row == [port |-> port, mode |-> c.mode]
               old == OldRows(cat, WrittenTo(cat, c, ports, n, Unmoved(c)))
               new == OldRows(cat, WrittenTo(cat, c, Append(ports, port), n + 1,
                                             Unmoved(c)))
           IN /\ new = IF cat[key] = NoRow THEN old ELSE [old EXCEPT ![key] = row]
              /\ old[key] = cat[key]
<1> DEFINE key == <<c.at, c.adapter.ports[n].name>>
           row == [port |-> port, mode |-> c.mode]
           was == WrittenTo(cat, c, ports, n, Unmoved(c))
           is  == WrittenTo(cat, c, Append(ports, port), n + 1, Unmoved(c))
<1>1. ~LostWrite(cat, c, Unmoved(c), n)
  BY CommandType DEF LostWrite, Unmoved
<1>2. is = [was EXCEPT ![key] = row] /\ was[key] = cat[key]
  BY <1>1, WrittenNext
<1>3. was = [k \in Keys |-> was[k]]
  BY DEF WrittenTo
<1>4. key \in Keys
  BY KeysDiffer
<1> HIDE DEF was, is, key, row
<1>5. ASSUME NEW k \in Keys
      PROVE  /\ OldRows(cat, is)[k] = IF cat[k] = NoRow THEN NoRow
                                      ELSE IF k = key THEN row ELSE was[k]
             /\ OldRows(cat, was)[k] = IF cat[k] = NoRow THEN NoRow ELSE was[k]
  BY <1>2, <1>3 DEF OldRows
<1>6. /\ OldRows(cat, is) = [k \in Keys |-> OldRows(cat, is)[k]]
      /\ OldRows(cat, was) = [k \in Keys |-> OldRows(cat, was)[k]]
  BY DEF OldRows
<1>7. OldRows(cat, was)[key] = cat[key]
  BY <1>2, <1>4, <1>5
<1>8. CASE cat[key] = NoRow
  <2>1. \A k \in Keys : OldRows(cat, is)[k] = OldRows(cat, was)[k]
    BY <1>5, <1>8
  <2>2. OldRows(cat, is) = OldRows(cat, was)
    BY <1>6, <2>1
  <2>3. QED
    BY <1>7, <1>8, <2>2 DEF was, is, key, row
<1>9. CASE cat[key] # NoRow
  <2> DEFINE before == OldRows(cat, was)
             after  == OldRows(cat, is)
  <2>1. /\ before = [k \in Keys |-> before[k]]
        /\ after = [k \in Keys |-> after[k]]
        /\ \A k \in Keys : after[k] = IF k = key THEN row ELSE before[k]
    BY <1>5, <1>6, <1>9
  <2> HIDE DEF before, after
  <2>2. after = [before EXCEPT ![key] = row]
    BY <2>1
  <2>3. QED
    BY <1>7, <1>9, <2>2 DEF was, is, key, row, before, after
<1>10. QED
  BY <1>8, <1>9

\* Until the loop is past the place where the array moved, nothing is lost.
LEMMA NothingLostYet ==
    ASSUME NEW c \in WellFormed, NEW cat, NEW ports,
           NEW n \in DOMAIN c.adapter.ports, NEW moved,
           moved = n \/ moved = Unmoved(c)
    PROVE  WrittenTo(cat, c, ports, n + 1, moved)
               = WrittenTo(cat, c, ports, n + 1, Unmoved(c))
<1>1. \A k \in Keys :
          Declares(c.adapter, k[2]) /\ IndexOf(c.adapter, k[2]) < n + 1 =>
              /\ ~LostWrite(cat, c, moved, IndexOf(c.adapter, k[2]))
              /\ ~LostWrite(cat, c, Unmoved(c), IndexOf(c.adapter, k[2]))
  BY CommandType, DeclarationOf DEF LostWrite, Unmoved
<1>2. QED
  BY <1>1 DEF WrittenTo

-----------------------------------------------------------------------------
(* The order of the candidates *)

\* How many ports the pool hint of a declaration names, and the host range.
HintSize(cfg) ==
    IF poolHintWithinRange(cfg.hint) /\ cfg.hint[1] <= cfg.hint[2]
    THEN cfg.hint[2] + 1 - cfg.hint[1] ELSE 0

RangeSize == RangeEnd + 1 - RangeStart

\* A hint that counts is a pair of numbers.
LEMMA HintType ==
    ASSUME NEW cfg \in PortConfigs, poolHintWithinRange(cfg.hint)
    PROVE  cfg.hint[1] \in Nat /\ cfg.hint[2] \in Nat
<1>1. cfg.hint = <<>> \/ cfg.hint \in Ports \X Ports
  BY DEF PortConfigs, Hints
<1>2. cfg.hint # <<>>
  <2>1. Len(<<>>) = 0
    OBVIOUS
  <2>2. QED
    BY <2>1 DEF poolHintWithinRange
<1>3. QED
  BY <1>1, <1>2, PortsAssumption

\* The numbers from low to high, as a sequence.
LEMMA NumbersFromTo ==
    ASSUME NEW low \in Nat, NEW high \in Nat, low <= high
    PROVE  LET s == [i \in 1 .. (high + 1 - low) |-> low + i - 1]
           IN /\ s \in Seq(Nat) /\ Len(s) = high + 1 - low
              /\ \A i \in 1 .. (high + 1 - low) : s[i] = low + i - 1
<1> DEFINE n == high + 1 - low
           s == [i \in 1 .. n |-> low + i - 1]
<1>1. n \in Nat
  OBVIOUS
<1>2. \A i \in 1 .. n : low + i - 1 \in Nat
  OBVIOUS
<1> HIDE DEF n
<1>3. s \in Seq(Nat) /\ Len(s) = n /\ \A i \in 1 .. n : s[i] = low + i - 1
  BY <1>1, <1>2
<1>4. QED
  BY <1>3 DEF n

\* Where each candidate stands: the default first, then the hinted pool, then
\* the range, both from their lowest port on.
LEMMA CandidatePositions ==
    ASSUME NEW cfg \in PortConfigs
    PROVE  LET size == HintSize(cfg)
               tried == devCandidates(cfg)
           IN /\ size \in Nat /\ RangeSize \in Nat
              /\ DOMAIN tried = 1 .. (1 + size + RangeSize)
              /\ tried[1] = cfg.default
              /\ \A i \in 2 .. (1 + size) : tried[i] = cfg.hint[1] + i - 2
              /\ \A i \in (2 + size) .. (1 + size + RangeSize) :
                    tried[i] = RangeStart + i - 2 - size
<1> DEFINE range(low, high) == [i \in 1 .. (high + 1 - low) |-> low + i - 1]
           hinted == poolHintWithinRange(cfg.hint)
           hint == IF hinted THEN range(cfg.hint[1], cfg.hint[2]) ELSE <<>>
           size == HintSize(cfg)
<1>1. cfg.default \in Nat
  BY PortsAssumption DEF PortConfigs
<1>2. /\ RangeStart \in Nat /\ RangeEnd \in Nat /\ RangeStart <= RangeEnd
      /\ RangeSize \in Nat
  BY RangeAssumption DEF RangeSize
<1>3. /\ hint \in Seq(Nat) /\ Len(hint) = size /\ size \in Nat
      /\ \A i \in 1 .. size : hint[i] = cfg.hint[1] + i - 1
  <2>1. CASE hinted /\ cfg.hint[1] <= cfg.hint[2]
    <3>1. hint = range(cfg.hint[1], cfg.hint[2])
      BY <2>1
    <3>2. size = cfg.hint[2] + 1 - cfg.hint[1] /\ size \in Nat
      BY <2>1, HintType DEF HintSize
    <3>3. QED
      BY <2>1, <3>1, <3>2, HintType, NumbersFromTo
  <2>2. CASE ~ (hinted /\ cfg.hint[1] <= cfg.hint[2])
    <3>1. hint = <<>>
      <4>1. CASE hinted
        <5>1. cfg.hint[1] \in Nat /\ cfg.hint[2] \in Nat
          BY <4>1, HintType
        <5>2. 1 .. (cfg.hint[2] + 1 - cfg.hint[1]) = {}
          BY <2>2, <4>1, <5>1
        <5>3. QED
          BY <4>1, <5>2
      <4>2. QED
        BY <4>1
    <3>2. size = 0
      BY <2>2 DEF HintSize
    <3> HIDE DEF hint, size
    <3>3. QED
      BY <3>1, <3>2
  <2>3. QED
    BY <2>1, <2>2
<1> DEFINE last == range(RangeStart, RangeEnd)
<1>4. /\ last \in Seq(Nat) /\ Len(last) = RangeSize
      /\ \A i \in 1 .. RangeSize : last[i] = RangeStart + i - 1
  BY <1>2, NumbersFromTo DEF RangeSize
<1>5. devCandidates(cfg) = (<<cfg.default>> \o hint) \o last
  BY DEF devCandidates
<1> HIDE DEF hint, last, size
<1> DEFINE front == <<cfg.default>> \o hint
<1>6. /\ front \in Seq(Nat) /\ Len(front) = 1 + size
      /\ front[1] = cfg.default
      /\ \A i \in 2 .. (1 + size) : front[i] = hint[i - 1]
  BY <1>1, <1>3
<1> HIDE DEF front
<1>7. /\ DOMAIN devCandidates(cfg) = 1 .. (1 + size + RangeSize)
      /\ \A i \in 1 .. (1 + size) : devCandidates(cfg)[i] = front[i]
      /\ \A i \in (2 + size) .. (1 + size + RangeSize) :
            devCandidates(cfg)[i] = last[i - 1 - size]
  <2>1. devCandidates(cfg) = front \o last
    BY <1>5 DEF front
  <2>2. Len(front \o last) = 1 + size + RangeSize
    <3>1. front \in Seq(Nat) /\ last \in Seq(Nat)
      BY <1>4, <1>6
    <3>2. Len(front \o last) = Len(front) + Len(last)
      BY <3>1
    <3>3. QED
      BY <1>2, <1>3, <1>4, <1>6, <3>2
  <2>3. DOMAIN (front \o last) = 1 .. (1 + size + RangeSize)
    BY <1>3, <1>4, <1>6, <2>2
  <2>4. \A i \in 1 .. (1 + size) : (front \o last)[i] = front[i]
    BY <1>2, <1>3, <1>4, <1>6
  <2>5. ASSUME NEW i \in (2 + size) .. (1 + size + RangeSize)
        PROVE  (front \o last)[i] = last[i - 1 - size]
    <3>1. /\ i \in 1 .. (Len(front) + Len(last)) /\ ~ (i <= Len(front))
          /\ i - Len(front) = i - 1 - size
      BY <1>2, <1>3, <1>4, <1>6
    <3>2. (front \o last)[i] = last[i - Len(front)]
      BY <1>4, <1>6, <3>1
    <3>3. QED
      BY <3>1, <3>2
  <2>6. QED
    BY <2>1, <2>3, <2>4, <2>5
<1>8. \A i \in 2 .. (1 + size) : hint[i - 1] = cfg.hint[1] + i - 2
  <2> SUFFICES ASSUME NEW i \in 2 .. (1 + size)
               PROVE  hint[i - 1] = cfg.hint[1] + i - 2
    OBVIOUS
  <2>1. i - 1 \in 1 .. size /\ poolHintWithinRange(cfg.hint)
    BY <1>3 DEF size, HintSize
  <2>2. hint[i - 1] = cfg.hint[1] + (i - 1) - 1
    BY <1>3, <2>1
  <2>3. QED
    BY <1>3, <2>1, <2>2, HintType
<1>9. \A i \in (2 + size) .. (1 + size + RangeSize) :
          last[i - 1 - size] = RangeStart + i - 2 - size
  BY <1>2, <1>3, <1>4
<1>10. devCandidates(cfg)[1] = cfg.default
  BY <1>3, <1>6, <1>7
<1>11. \A i \in 2 .. (1 + size) :
           devCandidates(cfg)[i] = cfg.hint[1] + i - 2
  BY <1>3, <1>6, <1>7, <1>8
<1>12. QED
  BY <1>2, <1>3, <1>7, <1>9, <1>10, <1>11 DEF size

\* What is tried is a candidate, and every earlier candidate was tried before.
LEMMA TriedInOrder ==
    ASSUME NEW cfg \in PortConfigs, NEW i \in DOMAIN devCandidates(cfg),
           NEW q \in Ports, q = devCandidates(cfg)[i], q > 0
    PROVE  /\ q \in CandidatePorts(cfg)
           /\ \A p \in CandidatePorts(cfg) : EarlierCandidate(cfg, p, q) =>
                 \E j \in 1 .. (i - 1) :
                     j \in DOMAIN devCandidates(cfg) /\ devCandidates(cfg)[j] = p
<1> DEFINE tried == devCandidates(cfg)
           size  == HintSize(cfg)
           low   == cfg.hint[1]
           hinted(x) == poolHintWithinRange(cfg.hint)
                            /\ x \in cfg.hint[1] .. cfg.hint[2]
<1>1. /\ size \in Nat /\ RangeSize \in Nat
      /\ DOMAIN tried = 1 .. (1 + size + RangeSize)
      /\ tried[1] = cfg.default
      /\ \A n \in 2 .. (1 + size) : tried[n] = low + n - 2
      /\ \A n \in (2 + size) .. (1 + size + RangeSize) :
            tried[n] = RangeStart + n - 2 - size
  BY CandidatePositions
<1>2. /\ RangeStart \in Nat /\ RangeEnd \in Nat
      /\ RangeSize = RangeEnd + 1 - RangeStart
      /\ Ports \subseteq Nat
  BY PortsAssumption, RangeAssumption DEF RangeSize
<1>3. \A x \in Nat : hinted(x) <=> /\ size > 0 /\ low \in Nat
                                   /\ low <= x /\ x < low + size
  <2>1. poolHintWithinRange(cfg.hint) => low \in Nat /\ cfg.hint[2] \in Nat
    BY HintType
  <2>2. CASE poolHintWithinRange(cfg.hint)
    BY <2>1, <2>2 DEF HintSize
  <2>3. CASE ~poolHintWithinRange(cfg.hint)
    BY <2>3 DEF HintSize
  <2>4. QED
    BY <2>2, <2>3
<1>4. i \in 1 .. (1 + size + RangeSize) /\ q = tried[i] /\ q \in Nat
  BY <1>1, <1>2
<1>5. \/ i = 1 /\ q = cfg.default
      \/ i \in 2 .. (1 + size) /\ hinted(q) /\ q = low + i - 2
      \/ /\ i \in (2 + size) .. (1 + size + RangeSize)
         /\ q = RangeStart + i - 2 - size /\ q \in RangeStart .. RangeEnd
  <2>1. CASE i = 1
    BY <1>1, <1>4, <2>1
  <2>2. CASE i \in 2 .. (1 + size)
    <3>1. size > 0 /\ poolHintWithinRange(cfg.hint)
      BY <1>1, <2>2 DEF HintSize
    <3>2. low \in Nat
      BY <3>1, HintType
    <3>3. q = low + i - 2
      BY <1>1, <1>4, <2>2
    <3>4. hinted(q)
      <4> HIDE DEF hinted, size, low
      <4>1. QED
        BY <1>1, <1>3, <1>4, <2>2, <3>1, <3>2, <3>3
    <3>5. QED
      BY <2>2, <3>3, <3>4
  <2>3. CASE i \in (2 + size) .. (1 + size + RangeSize)
    <3>1. q = RangeStart + i - 2 - size
      BY <1>1, <1>4, <2>3
    <3> HIDE DEF hinted, size, low
    <3>2. QED
      BY <1>1, <1>2, <2>3, <3>1
  <2>4. QED
    BY <1>1, <1>4, <2>1, <2>2, <2>3
<1>6. q \in CandidatePorts(cfg)
  BY <1>5 DEF CandidatePorts
<1>7. ASSUME NEW p \in CandidatePorts(cfg), EarlierCandidate(cfg, p, q)
      PROVE  \E j \in 1 .. (i - 1) : j \in DOMAIN tried /\ tried[j] = p
  <2>1. p \in Nat
    BY <1>2 DEF CandidatePorts
  <2>2. \/ p = cfg.default
        \/ hinted(p)
        \/ p \in RangeStart .. RangeEnd
    BY DEF CandidatePorts
  <2>3. CASE p = cfg.default \/ q = cfg.default
    <3>1. p = cfg.default /\ p # q
      BY <1>7, <2>3 DEF EarlierCandidate
    <3>2. i # 1 /\ 1 \in 1 .. (i - 1)
      BY <1>1, <1>4, <3>1
    <3>3. QED
      BY <1>1, <3>1, <3>2
  <2>4. CASE p # cfg.default /\ q # cfg.default
    <3>1. IF hinted(p) # hinted(q) THEN hinted(p) ELSE p < q
      BY <1>7, <2>4 DEF EarlierCandidate
    <3>2. i \in 2 .. (1 + size + RangeSize)
      BY <1>1, <1>4, <1>5, <2>4
    <3> HIDE DEF hinted, size, low
    <3>3. CASE hinted(p)
      <4> DEFINE j == p - low + 2
      <4>1. low \in Nat /\ j \in 2 .. (1 + size) /\ tried[j] = p
        BY <1>1, <1>3, <2>1, <3>3
      <4>2. j < i
        <5>1. CASE i \in 2 .. (1 + size)
          <6>1. hinted(q) /\ q = low + i - 2
            BY <1>1, <1>5, <3>2, <5>1
          <6>2. p < q
            BY <3>1, <3>3, <6>1
          <6>3. QED
            BY <1>4, <2>1, <4>1, <5>1, <6>1, <6>2
        <5>2. CASE i \in (2 + size) .. (1 + size + RangeSize)
          BY <1>1, <4>1, <5>2
        <5>3. QED
          BY <1>1, <3>2, <5>1, <5>2
      <4>3. QED
        BY <1>1, <1>4, <4>1, <4>2
    <3>4. CASE ~hinted(p)
      <4>1. p < q /\ ~hinted(q) /\ p \in RangeStart .. RangeEnd
        BY <2>2, <2>4, <3>1, <3>4
      <4>2. /\ i \in (2 + size) .. (1 + size + RangeSize)
            /\ q = RangeStart + i - 2 - size
        BY <1>5, <2>4, <4>1
      <4> DEFINE j == p - RangeStart + 2 + size
      <4>3. j \in (2 + size) .. (1 + size + RangeSize) /\ j < i
        BY <1>1, <1>2, <1>4, <2>1, <4>1, <4>2
      <4>4. tried[j] = p
        BY <1>1, <1>2, <2>1, <4>3
      <4>5. QED
        BY <1>1, <1>4, <4>3, <4>4
    <3>5. QED
      BY <3>3, <3>4
  <2>5. QED
    BY <2>3, <2>4
<1>8. QED
  BY <1>6, <1>7

-----------------------------------------------------------------------------
(* The invariant of the loop *)

Pruned == pruneUndeclared(start, cmd)

\* inspect writes no row.
Until == IF commit THEN next ELSE 1

\* The rows written so far, if the array moved at the declaration `moved`.
RowsSoFar(moved) == WrittenTo(Pruned, cmd, asg, Until, moved)

\* Before pruning the slice is the catalog as loaded.
NotStarted ==
    status = "prune" =>
        /\ next = 1 /\ asg = <<>> /\ claimed = {} /\ aliased
        /\ array = slice /\ Represents(slice, start)

\* Where the loop is, and why it stopped.
WhereItIs ==
    /\ status = "loop" => next <= Len(cmd.adapter.ports)
    /\ status = "done" => next = Len(cmd.adapter.ports) + 1
    /\ status = "failed" =>
          next <= Len(cmd.adapter.ports) /\ ~Kept(Pruned, cmd, next)

\* Every declaration so far has the port it has in a resolution.
PrefixResolved == \A i \in DOMAIN asg : ResolvedAt(Pruned, cmd, asg, i)

\* held and claimed are the sets PortAllocation names.
HeldIsHeldAt ==
    status # "prune" =>
        \A p \in Ports : p \in held <=> p \in HeldAt(Pruned, cmd, next - 1)

ClaimedIsAssigned == claimed = {asg[i] : i \in DOMAIN asg}

\* Whether or not the array moved, it holds the old rows as they were written.
ArrayHoldsOldRows ==
    status # "prune" =>
        Represents(array, OldRows(Pruned, RowsSoFar(Unmoved(cmd))))

\* The slice holds what was written before the array moved, and the rows
\* appended since.
SliceHoldsRows ==
    status # "prune" =>
        IF aliased
        THEN /\ Represents(slice, RowsSoFar(Unmoved(cmd)))
             /\ \A i \in DOMAIN array : i \in DOMAIN slice /\ slice[i] = array[i]
        ELSE \E moved \in DOMAIN cmd.adapter.ports :
                /\ moved < Until
                /\ RowOf(Pruned, cmd, moved) = NoRow
                /\ Represents(slice, RowsSoFar(moved))

\* The order of the candidates has been respected so far.
PrefixFirstFit ==
    cmd.mode = "dev" =>
        \A i \in DOMAIN asg :
            ~Kept(Pruned, cmd, i) =>
                /\ asg[i] \notin bound
                /\ \A p \in CandidatePorts(cmd.adapter.ports[i]) :
                      EarlierCandidate(cmd.adapter.ports[i], p, asg[i])
                          => p \in bound \cup Taken(Pruned, cmd, asg, i)

LoopInv ==
    /\ LoopTypeOK
    /\ NotStarted
    /\ WhereItIs
    /\ PrefixResolved
    /\ HeldIsHeldAt
    /\ ClaimedIsAssigned
    /\ ArrayHoldsOldRows
    /\ SliceHoldsRows
    /\ PrefixFirstFit

\* What the assumptions say of a command and a catalog.
LEMMA LoopTypes ==
    ASSUME LoopTypeOK
    PROVE  /\ cmd \in WellFormed /\ cmd.op = "prepare"
           /\ start \in Catalogs /\ Pruned \in Catalogs
           /\ Until \in Nat /\ Until <= Len(asg) + 1
           /\ next \in Nat /\ Len(cmd.adapter.ports) \in Nat
           /\ DOMAIN cmd.adapter.ports = 1 .. Len(cmd.adapter.ports)
           /\ DOMAIN asg = 1 .. (next - 1)
<1>1. cmd \in CommandRecords /\ cmd.op = "prepare" /\ start \in Catalogs
  BY LoopAssumption DEF LoopTypeOK
<1>2. cmd \in WellFormed
  BY <1>1 DEF WellFormed
<1>3. Pruned \in Catalogs
  BY <1>1, PruneType DEF Pruned
<1>4. /\ Len(cmd.adapter.ports) \in Nat
      /\ DOMAIN cmd.adapter.ports = 1 .. Len(cmd.adapter.ports)
  BY <1>2, CommandType
<1>5. next \in Nat \ {0} /\ Len(asg) = next - 1 /\ DOMAIN asg = 1 .. Len(asg)
  BY <1>4 DEF LoopTypeOK
<1>6. Until \in Nat /\ Until <= Len(asg) + 1
  BY <1>5 DEF Until
<1>7. QED
  BY <1>1, <1>2, <1>3, <1>4, <1>5, <1>6

\* The row byService has for the declaration the loop is at.
LEMMA ExistingRow ==
    ASSUME LoopInv, status = "loop"
    PROVE  /\ next \in DOMAIN cmd.adapter.ports
           /\ Declaration = cmd.adapter.ports[next]
           /\ Declaration \in PortConfigs
           /\ KeyOf(Declaration.name) = <<cmd.at, cmd.adapter.ports[next].name>>
           /\ KeyOf(Declaration.name) \in Keys
           /\ RowOf(Pruned, cmd, next) = Pruned[KeyOf(Declaration.name)]
           /\ existing = 0 => RowOf(Pruned, cmd, next) = NoRow
           /\ existing # 0 =>
                 /\ existing \in DOMAIN array
                 /\ array[existing].key = KeyOf(Declaration.name)
                 /\ array[existing].port \in Ports
                 /\ RowOf(Pruned, cmd, next) = [port |-> array[existing].port,
                                                mode |-> array[existing].mode]
                 /\ RowOf(Pruned, cmd, next) # NoRow
           /\ Reusable <=> Kept(Pruned, cmd, next)
<1> DEFINE key == KeyOf(Declaration.name)
           old == OldRows(Pruned, RowsSoFar(Unmoved(cmd)))
           hits == {i \in DOMAIN array : array[i].key = key}
<1>1. /\ cmd \in WellFormed /\ Pruned \in Catalogs /\ next \in Nat
      /\ LoopTypeOK
  BY LoopTypes DEF LoopInv
<1>2. next \in DOMAIN cmd.adapter.ports
  BY <1>1, LoopTypes DEF LoopInv, WhereItIs, LoopTypeOK
<1>3. /\ Declaration = cmd.adapter.ports[next]
      /\ Declaration \in PortConfigs
      /\ key = <<cmd.at, cmd.adapter.ports[next].name>>
  BY <1>1, <1>2, CommandType DEF Declaration, KeyOf
<1>4. key \in Keys
  BY <1>1, <1>2, <1>3, KeysDiffer
<1>5. RowOf(Pruned, cmd, next) = Pruned[key]
  BY <1>3 DEF RowOf
<1>6. Represents(array, old) /\ array \in Seq(Rows)
  BY <1>1 DEF LoopInv, ArrayHoldsOldRows, LoopTypeOK
<1>7. old[key] = Pruned[key]
  <2>1. RowsSoFar(Unmoved(cmd))[key] = Pruned[key]
    <3>1. IndexOf(cmd.adapter, key[2]) = next
      BY <1>1, <1>2, <1>3, IndexOfName
    <3>2. ~ (next < Until)
      <4>1. next >= 1
        BY <1>1, <1>2, LoopTypes
      <4>2. QED
        BY <1>1, <4>1 DEF Until
    <3>3. QED
      BY <1>4, <3>1, <3>2 DEF RowsSoFar, WrittenTo
  <2>2. QED
    BY <1>4, <2>1 DEF OldRows
<1>8. existing = IF hits = {} THEN 0 ELSE CHOOSE i \in hits : TRUE
  BY DEF existing
<1>9. 0 \notin hits /\ hits \subseteq DOMAIN array
  BY <1>6
<1> HIDE DEF key, old
<1>10. ASSUME existing = 0 PROVE Pruned[key] = NoRow
  <2>1. hits = {}
    BY <1>8, <1>9, <1>10
  <2>2. QED
    BY <1>4, <1>6, <1>7, <2>1 DEF Represents
<1>11. ASSUME existing # 0
       PROVE  /\ existing \in DOMAIN array
              /\ array[existing].key = key
              /\ array[existing].port \in Ports
              /\ Pruned[key] = [port |-> array[existing].port,
                                mode |-> array[existing].mode]
              /\ Pruned[key] # NoRow
  <2>1. existing \in DOMAIN array /\ array[existing].key = key
    BY <1>8, <1>9, <1>11
  <2>2. array[existing].port \in Ports
    <3>1. array[existing] \in Rows
      BY <1>6, <2>1
    <3>2. QED
      BY <3>1 DEF Rows
  <2>3. /\ old[array[existing].key] = [port |-> array[existing].port,
                                       mode |-> array[existing].mode]
        /\ old[array[existing].key] # NoRow
    BY <1>6, <2>1, RowOfSlice
  <2>4. QED
    BY <1>7, <2>1, <2>2, <2>3
<1>12. Reusable <=> Kept(Pruned, cmd, next)
  BY <1>3, <1>5, <1>10, <1>11 DEF Reusable, Kept, reuseExisting
<1>13. QED
  BY <1>2, <1>3, <1>4, <1>5, <1>10, <1>11, <1>12 DEF key

\* One more declaration displaces at most its own row.
LEMMA HeldNext ==
    ASSUME NEW c \in WellFormed, NEW cat, NEW n \in DOMAIN c.adapter.ports
    PROVE  /\ Kept(cat, c, n) => HeldAt(cat, c, n) = HeldAt(cat, c, n - 1)
           /\ ~Kept(cat, c, n) => HeldAt(cat, c, n) =
                  HeldAt(cat, c, n - 1) \ {RowOf(cat, c, n).port}
<1> DEFINE displaced(m) == {j \in DOMAIN c.adapter.ports :
                               j <= m /\ ~Kept(cat, c, j)}
<1>1. displaced(n) = displaced(n - 1)
                         \cup (IF Kept(cat, c, n) THEN {} ELSE {n})
  BY CommandType
<1>2. \A m : HeldAt(cat, c, m) = {cat[k].port : k \in Keys}
                  \ {RowOf(cat, c, j).port : j \in displaced(m)}
  BY DEF HeldAt
<1> HIDE DEF displaced
<1>3. CASE Kept(cat, c, n)
  <2>1. displaced(n) = displaced(n - 1)
    BY <1>1, <1>3
  <2>2. HeldAt(cat, c, n) = HeldAt(cat, c, n - 1)
    BY <1>2, <2>1
  <2>3. QED
    BY <1>3, <2>2
<1>4. CASE ~Kept(cat, c, n)
  <2>1. displaced(n) = displaced(n - 1) \cup {n}
    BY <1>1, <1>4
  <2>2. {RowOf(cat, c, j).port : j \in displaced(n)}
            = {RowOf(cat, c, j).port : j \in displaced(n - 1)}
                  \cup {RowOf(cat, c, n).port}
    BY <2>1
  <2>3. QED
    BY <1>2, <1>4, <2>2
<1>5. QED
  BY <1>3, <1>4

\* Nothing is displaced before the first declaration.
LEMMA HeldFirst ==
    ASSUME NEW c \in WellFormed, NEW cat
    PROVE  HeldAt(cat, c, 0) = {cat[k].port : k \in Keys}
<1>1. {n \in DOMAIN c.adapter.ports : n <= 0 /\ ~Kept(cat, c, n)} = {}
  BY CommandType
<1>2. QED
  BY <1>1 DEF HeldAt

\* The ports of later declarations do not change what was taken before.
LEMMA PrefixStays ==
    ASSUME NEW ports \in Seq(Ports), NEW port \in Ports, NEW cat, NEW c,
           NEW i \in DOMAIN ports
    PROVE  /\ Append(ports, port)[i] = ports[i]
           /\ Taken(cat, c, Append(ports, port), i) = Taken(cat, c, ports, i)
           /\ ResolvedAt(cat, c, Append(ports, port), i)
                  <=> ResolvedAt(cat, c, ports, i)
<1> DEFINE more == Append(ports, port)
<1>1. /\ DOMAIN more = DOMAIN ports \cup {Len(ports) + 1}
      /\ DOMAIN ports = 1 .. Len(ports) /\ Len(ports) \in Nat
      /\ \A j \in DOMAIN ports : more[j] = ports[j]
  OBVIOUS
<1>2. {n \in DOMAIN more : n < i} = {n \in DOMAIN ports : n < i}
  BY <1>1
<1>3. ClaimedAt(more, i) = ClaimedAt(ports, i)
  BY <1>1, <1>2 DEF ClaimedAt
<1>4. QED
  BY <1>1, <1>3 DEF Taken, ResolvedAt

\* What the next declaration may not have.
LEMMA TakenNext ==
    ASSUME LoopInv, status = "loop", NEW port \in Ports, NEW p \in Ports
    PROVE  /\ ClaimedAt(Append(asg, port), next) = claimed
           /\ p \in Taken(Pruned, cmd, Append(asg, port), next)
                  <=> \/ p \in reservedPorts(cmd.adapter) \cup claimed
                      \/ p \in HeldAt(Pruned, cmd, next)
<1> DEFINE more == Append(asg, port)
<1>1. asg \in Seq(Ports) /\ DOMAIN asg = 1 .. (next - 1) /\ next \in Nat
  BY LoopTypes DEF LoopInv, LoopTypeOK
<1>2. next = Len(asg) + 1
  BY DEF LoopInv, LoopTypeOK
<1>3. /\ DOMAIN more = DOMAIN asg \cup {next}
      /\ \A j \in DOMAIN asg : more[j] = asg[j]
  BY <1>1, <1>2
<1>4. {n \in DOMAIN more : n < next} = DOMAIN asg
  BY <1>1, <1>3
<1>5. ClaimedAt(more, next) = claimed
  BY <1>3, <1>4 DEF ClaimedAt, LoopInv, ClaimedIsAssigned
<1>6. QED
  BY <1>5 DEF Taken

\* The ports held when the next declaration's port is chosen.
LEMMA HeldWhenChoosingIsHeld ==
    ASSUME LoopInv, status = "loop", ~Reusable
    PROVE  \A p \in Ports :
               p \in HeldWhenChoosing <=> p \in HeldAt(Pruned, cmd, next)
<1>1. /\ cmd \in WellFormed /\ next \in DOMAIN cmd.adapter.ports
      /\ ~Kept(Pruned, cmd, next)
  BY ExistingRow, LoopTypes DEF LoopInv
<1>2. \A p \in Ports : p \in held <=> p \in HeldAt(Pruned, cmd, next - 1)
  BY DEF LoopInv, HeldIsHeldAt
<1>3. HeldAt(Pruned, cmd, next) =
          HeldAt(Pruned, cmd, next - 1) \ {RowOf(Pruned, cmd, next).port}
  BY <1>1, HeldNext
<1>4. CASE existing = 0
  <2>1. RowOf(Pruned, cmd, next).port \notin Ports
    BY <1>4, ExistingRow, PortsAssumption DEF NoRow
  <2>2. QED
    BY <1>2, <1>3, <1>4, <2>1 DEF HeldWhenChoosing
<1>5. CASE existing # 0
  <2>1. RowOf(Pruned, cmd, next).port = array[existing].port
    BY <1>5, ExistingRow
  <2>2. QED
    BY <1>2, <1>3, <1>5, <2>1 DEF HeldWhenChoosing
<1>6. QED
  BY <1>4, <1>5

-----------------------------------------------------------------------------
(* One declaration *)

\* A port that is claimed for the next declaration extends the resolution.
LEMMA ClaimKeeps ==
    ASSUME LoopInv, status = "loop", NEW port \in Ports, Claim(port),
           ResolvedAt(Pruned, cmd, Append(asg, port), next),
           held' \subseteq Ports,
           \A p \in Ports : p \in held' <=> p \in HeldAt(Pruned, cmd, next),
           cmd.mode = "dev" /\ ~Kept(Pruned, cmd, next) =>
               /\ port \notin bound
               /\ \A p \in CandidatePorts(cmd.adapter.ports[next]) :
                     EarlierCandidate(cmd.adapter.ports[next], p, port) =>
                         p \in bound \cup Taken(Pruned, cmd, Append(asg, port), next),
           array' \in Seq(Rows), slice' \in Seq(Rows), aliased' \in BOOLEAN
    PROVE  /\ LoopTypeOK' /\ NotStarted' /\ WhereItIs' /\ PrefixResolved'
           /\ HeldIsHeldAt' /\ ClaimedIsAssigned' /\ PrefixFirstFit'
<1> DEFINE more == Append(asg, port)
<1>1. /\ next \in 1 .. Len(cmd.adapter.ports) /\ next \in Nat
      /\ Len(cmd.adapter.ports) \in Nat
      /\ asg \in Seq(Ports) /\ Len(asg) = next - 1
      /\ DOMAIN asg = 1 .. (next - 1)
  BY LoopTypes DEF LoopInv, LoopTypeOK, WhereItIs
<1>2. /\ asg' = more /\ next' = next + 1 /\ claimed' = claimed \cup {port}
      /\ status' = IF next = Len(cmd.adapter.ports) THEN "done" ELSE "loop"
      /\ start' = start /\ cmd' = cmd /\ commit' = commit /\ bound' = bound
      /\ Pruned' = Pruned
  BY DEF Claim, Pruned
<1>3. /\ more \in Seq(Ports) /\ Len(more) = next
      /\ DOMAIN more = DOMAIN asg \cup {next} /\ more[next] = port
      /\ \A i \in DOMAIN asg : more[i] = asg[i]
  BY <1>1
<1> HIDE DEF more
<1>4. LoopTypeOK'
  <2>1. claimed \subseteq Ports
    BY DEF LoopInv, LoopTypeOK
  <2>2. QED
    BY <1>1, <1>2, <1>3, <2>1 DEF LoopInv, LoopTypeOK
<1>5. NotStarted' /\ WhereItIs'
  BY <1>1, <1>2 DEF NotStarted, WhereItIs
<1>6. PrefixResolved'
  <2>1. \A i \in DOMAIN asg : ResolvedAt(Pruned, cmd, more, i)
    BY <1>1, PrefixStays DEF LoopInv, PrefixResolved, more
  <2>2. ResolvedAt(Pruned, cmd, more, next)
    BY DEF more
  <2>3. QED
    BY <1>2, <1>3, <2>1, <2>2 DEF PrefixResolved
<1>7. HeldIsHeldAt'
  BY <1>1, <1>2 DEF HeldIsHeldAt
<1>8. ClaimedIsAssigned'
  <2>1. {more[i] : i \in DOMAIN more} = {asg[i] : i \in DOMAIN asg} \cup {port}
    BY <1>3
  <2>2. QED
    BY <1>2, <2>1 DEF LoopInv, ClaimedIsAssigned
<1>9. PrefixFirstFit'
  <2> SUFFICES ASSUME cmd.mode = "dev", NEW i \in DOMAIN more,
                      ~Kept(Pruned, cmd, i)
               PROVE  /\ more[i] \notin bound
                      /\ \A p \in CandidatePorts(cmd.adapter.ports[i]) :
                            EarlierCandidate(cmd.adapter.ports[i], p, more[i])
                                => p \in bound \cup Taken(Pruned, cmd, more, i)
    BY <1>2 DEF PrefixFirstFit
  <2>1. CASE i = next
    BY <1>3, <2>1 DEF more
  <2>2. CASE i \in DOMAIN asg
    <3>1. more[i] = asg[i] /\ Taken(Pruned, cmd, more, i) = Taken(Pruned, cmd, asg, i)
      BY <1>1, <2>2, PrefixStays DEF more
    <3>2. QED
      BY <2>2, <3>1 DEF LoopInv, PrefixFirstFit
  <2>3. QED
    BY <1>3, <2>1, <2>2
<1>10. QED
  BY <1>4, <1>5, <1>6, <1>7, <1>8, <1>9

\* The candidate that is chosen is one a resolution may have, and the first.
LEMMA ChosenIsFirstFit ==
    ASSUME LoopInv, status = "loop", ~Reusable, NEW port \in Ports, Chosen(port)
    PROVE  /\ ResolvedAt(Pruned, cmd, Append(asg, port), next)
           /\ cmd.mode = "dev" =>
                 /\ port \notin bound
                 /\ \A p \in CandidatePorts(cmd.adapter.ports[next]) :
                       EarlierCandidate(cmd.adapter.ports[next], p, port) =>
                           p \in bound \cup Taken(Pruned, cmd, Append(asg, port), next)
<1> DEFINE cfg   == cmd.adapter.ports[next]
           tried == candidates(cfg, cmd.mode)
           usable(i) == /\ cmd.mode = "dev" => tried[i] > 0
                        /\ available(tried[i])
                        /\ tried[i] \notin bound
           more == Append(asg, port)
<1>1. /\ Declaration = cfg /\ cfg \in PortConfigs /\ cmd \in WellFormed
      /\ ~Kept(Pruned, cmd, next)
  BY ExistingRow, LoopTypes DEF LoopInv
<1>2. PICK i \in DOMAIN tried :
        tried[i] = port /\ usable(i) /\ \A j \in 1 .. (i - 1) : ~usable(j)
  BY <1>1 DEF Chosen
<1>3. \A p \in Ports : available(p) <=> p \notin Taken(Pruned, cmd, more, next)
  <2> SUFFICES ASSUME NEW p \in Ports
               PROVE  available(p) <=> p \notin Taken(Pruned, cmd, more, next)
    OBVIOUS
  <2>1. p \in Taken(Pruned, cmd, more, next)
            <=> \/ p \in reservedPorts(cmd.adapter) \cup claimed
                \/ p \in HeldAt(Pruned, cmd, next)
    BY TakenNext
  <2>2. p \in HeldWhenChoosing <=> p \in HeldAt(Pruned, cmd, next)
    BY HeldWhenChoosingIsHeld
  <2>3. QED
    BY <2>1, <2>2 DEF available
<1>4. port \notin Taken(Pruned, cmd, more, next) /\ port \notin bound
  BY <1>2, <1>3
<1>5. more[next] = port
  BY DEF LoopInv, LoopTypeOK
<1>6. CASE cmd.mode = "dev"
  <2>1. tried = devCandidates(cfg) /\ port > 0
    BY <1>2, <1>6 DEF candidates
  <2>2. /\ port \in CandidatePorts(cfg)
        /\ \A p \in CandidatePorts(cfg) : EarlierCandidate(cfg, p, port) =>
              \E j \in 1 .. (i - 1) : j \in DOMAIN tried /\ tried[j] = p
    BY <1>1, <1>2, <2>1, TriedInOrder
  <2>3. ASSUME NEW p \in CandidatePorts(cfg), EarlierCandidate(cfg, p, port)
        PROVE  p \in bound \cup Taken(Pruned, cmd, more, next)
    <3>1. PICK j \in 1 .. (i - 1) : tried[j] = p
      BY <2>2, <2>3
    <3>2. ~usable(j)
      BY <1>2
    <3>3. p \in Ports /\ p > 0
      BY DEF CandidatePorts
    <3>4. QED
      BY <1>3, <3>1, <3>2, <3>3
  <2>4. ResolvedAt(Pruned, cmd, more, next)
    BY <1>1, <1>4, <1>5, <1>6, <2>2 DEF ResolvedAt, ChoosablePorts
  <2>5. QED
    BY <1>4, <2>3, <2>4
<1>7. CASE cmd.mode # "dev"
  <2>1. cmd.mode = "stable"
    BY <1>1, <1>7, CommandType DEF Modes
  <2>2. tried = <<stablePort(cfg)>>
    BY <2>1 DEF candidates
  <2>3. port = stablePort(cfg)
    BY <1>2, <2>2
  <2>4. ResolvedAt(Pruned, cmd, more, next)
    BY <1>1, <1>4, <1>5, <2>1, <2>3 DEF ResolvedAt, ChoosablePorts
  <2>5. QED
    BY <1>7, <2>4
<1>8. QED
  BY <1>6, <1>7

\* inspect changes no row.
LEMMA RowsUnwritten ==
    ASSUME LoopInv, status = "loop", NEW port \in Ports, Claim(port), ~commit,
           UNCHANGED <<array, slice, aliased, capacity>>
    PROVE  ArrayHoldsOldRows' /\ SliceHoldsRows'
<1>1. /\ cmd' = cmd /\ Pruned' = Pruned /\ Until = 1 /\ Until' = 1
      /\ array' = array /\ slice' = slice /\ aliased' = aliased
  BY DEF Claim, Pruned, Until
<1>2. /\ cmd \in WellFormed /\ Pruned \in Catalogs
      /\ DOMAIN cmd.adapter.ports = 1 .. Len(cmd.adapter.ports)
  BY LoopTypes DEF LoopInv
<1>3. \A moved : /\ RowsSoFar(moved) = Pruned /\ RowsSoFar(moved)' = Pruned
                 /\ OldRows(Pruned, Pruned) = Pruned
  <2> SUFFICES ASSUME NEW moved
               PROVE  /\ WrittenTo(Pruned, cmd, asg, 1, moved) = Pruned
                      /\ WrittenTo(Pruned, cmd, asg', 1, moved) = Pruned
                      /\ OldRows(Pruned, Pruned) = Pruned
    BY <1>1 DEF RowsSoFar
  <2>1. \A ports : /\ WrittenTo(Pruned, cmd, ports, 1, moved) = Pruned
                   /\ OldRows(Pruned, WrittenTo(Pruned, cmd, ports, 1, moved)) = Pruned
    BY <1>2, WrittenNothing
  <2>2. QED
    BY <2>1
<1>4. Represents(array, Pruned)
  BY <1>3 DEF LoopInv, ArrayHoldsOldRows
<1>5. aliased
  <2>1. \A moved \in DOMAIN cmd.adapter.ports : ~ (moved < Until)
    BY <1>1, <1>2
  <2>2. QED
    BY <2>1 DEF LoopInv, SliceHoldsRows
<1>6. /\ Represents(slice, Pruned)
      /\ \A i \in DOMAIN array : i \in DOMAIN slice /\ slice[i] = array[i]
  BY <1>3, <1>5 DEF LoopInv, SliceHoldsRows
<1>7. ArrayHoldsOldRows'
  BY <1>1, <1>3, <1>4 DEF ArrayHoldsOldRows
<1>8. SliceHoldsRows'
  BY <1>1, <1>3, <1>5, <1>6 DEF SliceHoldsRows
<1>9. QED
  BY <1>7, <1>8

\* What the next declaration adds to the rows, when it is written.
LEMMA RowsSoFarNext ==
    ASSUME LoopInv, status = "loop", NEW port \in Ports, Claim(port), commit,
           NEW moved
    PROVE  LET key == KeyOf(Declaration.name)
               row == [port |-> port, mode |-> cmd.mode]
               old == OldRows(Pruned, RowsSoFar(Unmoved(cmd)))
               new == OldRows(Pruned, RowsSoFar(Unmoved(cmd)))'
           IN /\ RowsSoFar(moved) \in Catalogs /\ old \in Catalogs
              /\ RowsSoFar(moved)' =
                    IF LostWrite(Pruned, cmd, moved, next) THEN RowsSoFar(moved)
                    ELSE [RowsSoFar(moved) EXCEPT ![key] = row]
              /\ RowsSoFar(moved)[key] = Pruned[key]
              /\ new = IF Pruned[key] = NoRow THEN old
                       ELSE [old EXCEPT ![key] = row]
              /\ moved \in {next, Unmoved(cmd)} =>
                    RowsSoFar(moved)' = RowsSoFar(Unmoved(cmd))'
<1>1. /\ asg' = Append(asg, port) /\ next' = next + 1
      /\ cmd' = cmd /\ Pruned' = Pruned /\ Until = next /\ Until' = next + 1
  BY DEF Claim, Pruned, Until
<1>2. /\ cmd \in WellFormed /\ Pruned \in Catalogs
      /\ next \in DOMAIN cmd.adapter.ports
      /\ KeyOf(Declaration.name) = <<cmd.at, cmd.adapter.ports[next].name>>
      /\ Until \in Nat /\ Until <= Len(asg) + 1
  BY LoopTypes, ExistingRow DEF LoopInv
<1>3. asg \in Seq(Ports) /\ Len(asg) = next - 1
  BY DEF LoopInv, LoopTypeOK
<1>4. \A m : /\ RowsSoFar(m) = WrittenTo(Pruned, cmd, asg, next, m)
             /\ RowsSoFar(m)' =
                    WrittenTo(Pruned, cmd, Append(asg, port), next + 1, m)
  BY <1>1 DEF RowsSoFar
<1>5. /\ RowsSoFar(moved) \in Catalogs
      /\ OldRows(Pruned, RowsSoFar(Unmoved(cmd))) \in Catalogs
  BY <1>1, <1>2, <1>3, WrittenType DEF RowsSoFar
<1>6. LET key == KeyOf(Declaration.name)
          row == [port |-> port, mode |-> cmd.mode]
      IN /\ RowsSoFar(moved)' =
               IF LostWrite(Pruned, cmd, moved, next) THEN RowsSoFar(moved)
               ELSE [RowsSoFar(moved) EXCEPT ![key] = row]
         /\ RowsSoFar(moved)[key] = Pruned[key]
  <2>1. LET key == KeyOf(Declaration.name)
            row == [port |-> port, mode |-> cmd.mode]
            old == WrittenTo(Pruned, cmd, asg, next, moved)
            new == WrittenTo(Pruned, cmd, Append(asg, port), next + 1, moved)
        IN /\ new = IF LostWrite(Pruned, cmd, moved, next) THEN old
                    ELSE [old EXCEPT ![key] = row]
           /\ old[key] = Pruned[key]
    BY <1>2, <1>3, WrittenNext
  <2>2. /\ RowsSoFar(moved) = WrittenTo(Pruned, cmd, asg, next, moved)
        /\ RowsSoFar(moved)' =
               WrittenTo(Pruned, cmd, Append(asg, port), next + 1, moved)
    BY <1>4
  <2>3. QED
    BY <2>1, <2>2
<1>7. LET key == KeyOf(Declaration.name)
          row == [port |-> port, mode |-> cmd.mode]
          old == OldRows(Pruned, RowsSoFar(Unmoved(cmd)))
          new == OldRows(Pruned, RowsSoFar(Unmoved(cmd)))'
      IN new = IF Pruned[key] = NoRow THEN old ELSE [old EXCEPT ![key] = row]
  <2>1. OldRows(Pruned, RowsSoFar(Unmoved(cmd)))' =
            OldRows(Pruned, WrittenTo(Pruned, cmd, Append(asg, port), next + 1,
                                      Unmoved(cmd)))
    BY <1>1, <1>4
  <2>2. OldRows(Pruned, RowsSoFar(Unmoved(cmd))) =
            OldRows(Pruned, WrittenTo(Pruned, cmd, asg, next, Unmoved(cmd)))
    BY <1>4
  <2>3. QED
    BY <1>2, <1>3, <2>1, <2>2, OldRowsNext
<1>8. moved \in {next, Unmoved(cmd)} =>
          RowsSoFar(moved)' = RowsSoFar(Unmoved(cmd))'
  <2>1. moved \in {next, Unmoved(cmd)} =>
            WrittenTo(Pruned, cmd, Append(asg, port), next + 1, moved)
                = WrittenTo(Pruned, cmd, Append(asg, port), next + 1, Unmoved(cmd))
    BY <1>2, NothingLostYet
  <2>2. QED
    BY <1>1, <1>4, <2>1 DEF RowsSoFar
<1>9. QED
  BY <1>5, <1>6, <1>7, <1>8

\* An old row is written through its address; the slice sees it as long as it
\* lives in the array.
LEMMA RowsReplaced ==
    ASSUME LoopInv, status = "loop", NEW port \in Ports, Claim(port), commit,
           existing # 0, WriteThrough(existing, port)
    PROVE  /\ array' \in Seq(Rows) /\ slice' \in Seq(Rows) /\ aliased' = aliased
           /\ ArrayHoldsOldRows' /\ SliceHoldsRows'
<1> DEFINE key == KeyOf(Declaration.name)
           row == [port |-> port, mode |-> cmd.mode]
           old == OldRows(Pruned, RowsSoFar(Unmoved(cmd)))
           written == Row(array[existing].key, port, cmd.mode)
<1>1. /\ existing \in DOMAIN array /\ array[existing].key = key
      /\ Pruned[key] # NoRow /\ RowOf(Pruned, cmd, next) = Pruned[key]
      /\ next \in DOMAIN cmd.adapter.ports
  BY ExistingRow
<1>2. /\ array \in Seq(Rows) /\ slice \in Seq(Rows) /\ cmd.mode \in Modes
      /\ Len(cmd.adapter.ports) \in Nat /\ next \in Nat
      /\ DOMAIN cmd.adapter.ports = 1 .. Len(cmd.adapter.ports)
  BY LoopTypes, CommandType DEF LoopInv, LoopTypeOK
<1>3. /\ array' = [array EXCEPT ![existing] = written]
      /\ slice' = IF aliased THEN [slice EXCEPT ![existing] = written] ELSE slice
      /\ aliased' = aliased
  BY DEF WriteThrough
<1>4. /\ status' # "prune" /\ Pruned' = Pruned /\ cmd' = cmd
      /\ Until = next /\ Until' = next + 1
  BY DEF Claim, Pruned, Until
<1>5. /\ old \in Catalogs /\ Represents(array, old)
      /\ OldRows(Pruned, RowsSoFar(Unmoved(cmd)))' = [old EXCEPT ![key] = row]
  BY <1>1, RowsSoFarNext DEF LoopInv, ArrayHoldsOldRows
<1>6. array' \in Seq(Rows) /\ Represents(array', [old EXCEPT ![key] = row])
  BY <1>1, <1>2, <1>3, <1>5, RepresentsReplaced
<1>7. ArrayHoldsOldRows'
  BY <1>5, <1>6 DEF ArrayHoldsOldRows
<1>8. CASE aliased
  <2> DEFINE all == RowsSoFar(Unmoved(cmd))
  <2>1. /\ Represents(slice, all)
        /\ \A i \in DOMAIN array : i \in DOMAIN slice /\ slice[i] = array[i]
    BY <1>8 DEF LoopInv, SliceHoldsRows
  <2>2. ~LostWrite(Pruned, cmd, Unmoved(cmd), next)
    BY <1>1, <1>2 DEF LostWrite, Unmoved
  <2>3. /\ all \in Catalogs
        /\ RowsSoFar(Unmoved(cmd))' = [all EXCEPT ![key] = row]
    BY <1>4, <2>2, RowsSoFarNext
  <2>4. existing \in DOMAIN slice /\ slice[existing].key = key
    BY <1>1, <2>1
  <2>5. slice' = [slice EXCEPT ![existing] = Row(slice[existing].key, port, cmd.mode)]
    BY <1>1, <1>3, <1>8, <2>4
  <2>6. slice' \in Seq(Rows) /\ Represents(slice', [all EXCEPT ![key] = row])
    BY <1>2, <2>1, <2>3, <2>4, <2>5, RepresentsReplaced
  <2>7. \A i \in DOMAIN array' : i \in DOMAIN slice' /\ slice'[i] = array'[i]
    BY <1>2, <1>3, <1>8, <2>1
  <2>8. SliceHoldsRows'
    BY <1>3, <1>4, <1>8, <2>3, <2>6, <2>7 DEF SliceHoldsRows
  <2>9. QED
    BY <1>3, <1>6, <1>7, <2>6, <2>8
<1>9. CASE ~aliased
  <2>1. PICK moved \in DOMAIN cmd.adapter.ports :
          /\ moved < Until
          /\ RowOf(Pruned, cmd, moved) = NoRow
          /\ Represents(slice, RowsSoFar(moved))
    BY <1>9 DEF LoopInv, SliceHoldsRows
  <2>2. moved \in Nat /\ moved < next /\ moved < next + 1
    BY <1>2, <1>4, <2>1
  <2>3. LostWrite(Pruned, cmd, moved, next)
    BY <1>1, <1>2, <2>2 DEF LostWrite
  <2>4. RowsSoFar(moved)' = RowsSoFar(moved)
    BY <2>3, RowsSoFarNext
  <2>5. SliceHoldsRows'
    BY <1>3, <1>4, <1>9, <2>1, <2>2, <2>4 DEF SliceHoldsRows
  <2>6. QED
    BY <1>2, <1>3, <1>6, <1>7, <1>9, <2>5
<1>10. QED
  BY <1>8, <1>9

\* A new row is appended, and the array may move.
LEMMA RowsAppended ==
    ASSUME LoopInv, status = "loop", NEW port \in Ports, Claim(port), commit,
           existing = 0,
           AppendRow(Row(KeyOf(Declaration.name), port, cmd.mode))
    PROVE  /\ array' \in Seq(Rows) /\ slice' \in Seq(Rows) /\ aliased' \in BOOLEAN
           /\ ArrayHoldsOldRows' /\ SliceHoldsRows'
<1> DEFINE key == KeyOf(Declaration.name)
           row == [port |-> port, mode |-> cmd.mode]
           old == OldRows(Pruned, RowsSoFar(Unmoved(cmd)))
<1>1. /\ key \in Keys /\ Pruned[key] = NoRow
      /\ RowOf(Pruned, cmd, next) = NoRow
      /\ next \in DOMAIN cmd.adapter.ports
  BY ExistingRow
<1>2. /\ array \in Seq(Rows) /\ slice \in Seq(Rows) /\ cmd.mode \in Modes
      /\ aliased \in BOOLEAN
      /\ Len(cmd.adapter.ports) \in Nat /\ next \in Nat
      /\ DOMAIN cmd.adapter.ports = 1 .. Len(cmd.adapter.ports)
  BY LoopTypes, CommandType DEF LoopInv, LoopTypeOK
<1>3. /\ array' = array /\ slice' = Append(slice, Row(key, port, cmd.mode))
      /\ aliased' => aliased
  BY <1>2 DEF AppendRow
<1>4. /\ status' # "prune" /\ Pruned' = Pruned /\ cmd' = cmd
      /\ Until = next /\ Until' = next + 1
  BY DEF Claim, Pruned, Until
<1>5. ArrayHoldsOldRows'
  <2>1. OldRows(Pruned, RowsSoFar(Unmoved(cmd)))' = old
    BY <1>1, RowsSoFarNext
  <2>2. Represents(array, old)
    BY DEF LoopInv, ArrayHoldsOldRows
  <2>3. QED
    BY <1>3, <2>1, <2>2 DEF ArrayHoldsOldRows
<1>6. ASSUME NEW moved, Represents(slice, RowsSoFar(moved))
      PROVE  /\ slice' \in Seq(Rows)
             /\ Represents(slice', RowsSoFar(moved)')
  <2>1. ~LostWrite(Pruned, cmd, moved, next)
    BY <1>1 DEF LostWrite
  <2>2. /\ RowsSoFar(moved) \in Catalogs /\ RowsSoFar(moved)[key] = NoRow
        /\ RowsSoFar(moved)' = [RowsSoFar(moved) EXCEPT ![key] = row]
    BY <1>1, <2>1, RowsSoFarNext
  <2>3. /\ Append(slice, Row(key, port, cmd.mode)) \in Seq(Rows)
        /\ Represents(Append(slice, Row(key, port, cmd.mode)),
                      [RowsSoFar(moved) EXCEPT ![key] = row])
    <3> HIDE DEF key
    <3>1. QED
      BY <1>1, <1>2, <1>6, <2>2, RepresentsAppended
  <2>4. QED
    BY <1>3, <2>2, <2>3
<1>7. ASSUME aliased PROVE slice' \in Seq(Rows) /\ SliceHoldsRows'
  <2>0. PICK unmoved : unmoved = Unmoved(cmd)
    OBVIOUS
  <2>1. /\ Represents(slice, RowsSoFar(unmoved))
        /\ \A i \in DOMAIN array : i \in DOMAIN slice /\ slice[i] = array[i]
    BY <1>7, <2>0 DEF LoopInv, SliceHoldsRows
  <2>2. slice' \in Seq(Rows) /\ Represents(slice', RowsSoFar(Unmoved(cmd))')
    <3>1. slice' \in Seq(Rows) /\ Represents(slice', RowsSoFar(unmoved)')
      BY <1>6, <2>1
    <3>2. RowsSoFar(unmoved)' = RowsSoFar(Unmoved(cmd))'
      BY <1>4, <2>0 DEF RowsSoFar
    <3>3. QED
      BY <3>1, <3>2
  <2>3. CASE aliased'
    <3>1. \A i \in DOMAIN slice : i \in DOMAIN slice' /\ slice'[i] = slice[i]
      BY <1>2, <1>3
    <3>2. \A i \in DOMAIN array' : i \in DOMAIN slice' /\ slice'[i] = array'[i]
      BY <1>3, <2>1, <3>1
    <3>3. SliceHoldsRows'
      BY <1>4, <2>2, <2>3, <3>2 DEF SliceHoldsRows
    <3>4. QED
      BY <2>2, <3>3
  <2>4. CASE ~aliased'
    <3>0. PICK here \in DOMAIN cmd.adapter.ports : here = next
      BY <1>1
    <3>1. Represents(slice', RowsSoFar(here)')
      BY <2>2, <3>0, RowsSoFarNext
    <3>2. here < Until' /\ RowOf(Pruned, cmd, here) = NoRow
      BY <1>1, <1>2, <1>4, <3>0
    <3>3. SliceHoldsRows'
      BY <1>4, <2>4, <3>1, <3>2 DEF SliceHoldsRows
    <3>4. QED
      BY <2>2, <3>3
  <2>5. QED
    BY <2>3, <2>4
<1>8. ASSUME ~aliased PROVE slice' \in Seq(Rows) /\ SliceHoldsRows'
  <2>1. PICK moved \in DOMAIN cmd.adapter.ports :
          /\ moved < Until
          /\ RowOf(Pruned, cmd, moved) = NoRow
          /\ Represents(slice, RowsSoFar(moved))
    BY <1>8 DEF LoopInv, SliceHoldsRows
  <2>2. moved < Until'
    BY <1>2, <1>4, <2>1
  <2>3. slice' \in Seq(Rows) /\ Represents(slice', RowsSoFar(moved)')
    BY <1>6, <2>1
  <2>4. SliceHoldsRows'
    BY <1>3, <1>4, <1>8, <2>1, <2>2, <2>3 DEF SliceHoldsRows
  <2>5. QED
    BY <2>3, <2>4
<1>9. array' \in Seq(Rows) /\ aliased' \in BOOLEAN
  <2>1. array' \in Seq(Rows)
    BY <1>2, <1>3
  <2>2. aliased' \in BOOLEAN
    BY <1>2 DEF AppendRow
  <2>3. QED
    BY <2>1, <2>2, Zenon
<1>10. QED
  BY <1>5, <1>7, <1>8, <1>9, Zenon

-----------------------------------------------------------------------------
(* The steps *)

\* The rows of the declarations that name a service without a row are not in
\* the pruned catalog, and the others are what byService indexes.
LEMMA PruneKeepsLoopInv ==
    ASSUME LoopInv, Prune PROVE LoopInv'
<1> DEFINE kept(row) == row.key[1] = cmd.at => Declares(cmd.adapter, row.key[2])
           left == Selected(slice, {i \in DOMAIN slice : kept(slice[i])})
<1>1. /\ next = 1 /\ asg = <<>> /\ claimed = {} /\ aliased
      /\ Represents(slice, start) /\ slice \in Seq(Rows)
  BY DEF Prune, LoopInv, NotStarted, LoopTypeOK
<1>2. /\ cmd \in WellFormed /\ start \in Catalogs /\ Pruned \in Catalogs
      /\ Len(cmd.adapter.ports) \in Nat
      /\ DOMAIN cmd.adapter.ports = 1 .. Len(cmd.adapter.ports)
  BY LoopTypes DEF LoopInv
<1>3. left \in Seq(Rows) /\ Represents(left, Pruned)
  BY <1>1, <1>2, PrunedRows DEF Pruned
<1>4. /\ slice' = left /\ array' = left /\ aliased' = aliased
      /\ held' = {left[i].port : i \in DOMAIN left}
      /\ status' = IF cmd.adapter.ports = <<>> THEN "done" ELSE "loop"
      /\ start' = start /\ cmd' = cmd /\ commit' = commit /\ bound' = bound
      /\ next' = 1 /\ claimed' = {} /\ asg' = <<>>
      /\ Pruned' = Pruned
  BY <1>1 DEF Prune, Pruned
<1> HIDE DEF left
<1>5. /\ \A p \in Ports : p \in held' <=> p \in HeldAt(Pruned, cmd, 0)
      /\ held' \subseteq Ports
  <2>1. \A i \in DOMAIN left : left[i].key \in Keys /\ left[i].port \in Ports
    <3>1. \A i \in DOMAIN left : left[i] \in Rows
      BY <1>3
    <3>2. QED
      BY <3>1 DEF Rows
  <2>2. HeldAt(Pruned, cmd, 0) = {Pruned[k].port : k \in Keys}
    BY <1>2, HeldFirst
  <2>3. ASSUME NEW p \in Ports, p \in held' PROVE p \in HeldAt(Pruned, cmd, 0)
    <3>1. PICK i \in DOMAIN left : p = left[i].port
      BY <1>4, <2>3
    <3>2. Pruned[left[i].key] = [port |-> left[i].port, mode |-> left[i].mode]
      BY <1>3, <3>1, RowOfSlice
    <3>3. QED
      BY <2>1, <2>2, <3>1, <3>2
  <2>4. ASSUME NEW p \in Ports, p \in HeldAt(Pruned, cmd, 0) PROVE p \in held'
    <3>1. PICK k \in Keys : p = Pruned[k].port
      BY <2>2, <2>4
    <3>2. Pruned[k] # NoRow
      BY <3>1, PortsAssumption DEF NoRow
    <3>3. PICK i \in DOMAIN left : left[i].key = k
      BY <1>3, <3>2 DEF Represents
    <3>4. Pruned[left[i].key] = [port |-> left[i].port, mode |-> left[i].mode]
      BY <1>3, <3>3, RowOfSlice
    <3>5. QED
      BY <1>4, <3>1, <3>3, <3>4
  <2>5. QED
    BY <1>4, <2>1, <2>3, <2>4
<1>6. LoopTypeOK'
  BY <1>1, <1>2, <1>3, <1>4, <1>5 DEF LoopInv, LoopTypeOK
<1>7. cmd.adapter.ports = <<>> <=> Len(cmd.adapter.ports) = 0
  BY <1>2, CommandType
<1>8. NotStarted' /\ WhereItIs'
  BY <1>2, <1>4, <1>7 DEF NotStarted, WhereItIs
<1>9. PrefixResolved' /\ ClaimedIsAssigned' /\ PrefixFirstFit'
  BY <1>4 DEF PrefixResolved, ClaimedIsAssigned, PrefixFirstFit
<1>10. HeldIsHeldAt'
  BY <1>4, <1>5 DEF HeldIsHeldAt
<1>11. \A moved : /\ WrittenTo(Pruned, cmd, <<>>, 1, moved) = Pruned
                  /\ OldRows(Pruned, Pruned) = Pruned
  <2>1. \A moved : /\ WrittenTo(Pruned, cmd, <<>>, 1, moved) = Pruned
                   /\ OldRows(Pruned, WrittenTo(Pruned, cmd, <<>>, 1, moved)) = Pruned
    BY <1>2, WrittenNothing
  <2>2. QED
    BY <2>1
<1>12. /\ RowsSoFar(Unmoved(cmd))' = Pruned
       /\ OldRows(Pruned, RowsSoFar(Unmoved(cmd)))' = Pruned
  BY <1>4, <1>11 DEF RowsSoFar, Until
<1>13. ArrayHoldsOldRows'
  BY <1>3, <1>4, <1>12 DEF ArrayHoldsOldRows
<1>14. SliceHoldsRows'
  BY <1>1, <1>3, <1>4, <1>12 DEF SliceHoldsRows
<1>15. QED
  BY <1>6, <1>8, <1>9, <1>10, <1>13, <1>14 DEF LoopInv

LEMMA ReuseKeepsLoopInv ==
    ASSUME LoopInv, Reuse PROVE LoopInv'
<1>1. /\ status = "loop" /\ Reusable /\ existing # 0
      /\ Claim(array[existing].port) /\ held' = held
  BY DEF Reuse, Reusable
<1>2. PICK port \in Ports : port = array[existing].port
  BY <1>1, ExistingRow
<1>3. /\ Kept(Pruned, cmd, next) /\ next \in DOMAIN cmd.adapter.ports
      /\ RowOf(Pruned, cmd, next).port = port
      /\ cmd \in WellFormed
  BY <1>1, <1>2, ExistingRow, LoopTypes DEF LoopInv
<1>4. Claim(port)
  BY <1>1, <1>2
<1>5. ResolvedAt(Pruned, cmd, Append(asg, port), next)
  <2>1. Append(asg, port)[next] = port
    BY DEF LoopInv, LoopTypeOK
  <2>2. QED
    BY <1>3, <2>1 DEF ResolvedAt
<1>6. \A p \in Ports : p \in held' <=> p \in HeldAt(Pruned, cmd, next)
  <2>1. HeldAt(Pruned, cmd, next) = HeldAt(Pruned, cmd, next - 1)
    BY <1>3, HeldNext
  <2>2. QED
    BY <1>1, <2>1 DEF LoopInv, HeldIsHeldAt
<1>7. held' \subseteq Ports
  BY <1>1 DEF LoopInv, LoopTypeOK
<1>8. /\ array' \in Seq(Rows) /\ slice' \in Seq(Rows) /\ aliased' \in BOOLEAN
      /\ ArrayHoldsOldRows' /\ SliceHoldsRows'
  <2>1. CASE commit
    <3>1. WriteThrough(existing, port)
      BY <1>1, <1>2, <2>1 DEF Reuse
    <3>2. /\ array' \in Seq(Rows) /\ slice' \in Seq(Rows) /\ aliased' = aliased
          /\ ArrayHoldsOldRows' /\ SliceHoldsRows'
      BY <1>1, <1>4, <2>1, <3>1, RowsReplaced
    <3>3. aliased \in BOOLEAN
      BY DEF LoopInv, LoopTypeOK
    <3>4. QED
      BY <3>2, <3>3, Zenon
  <2>2. CASE ~commit
    <3>1. UNCHANGED <<array, slice, aliased, capacity>>
      BY <1>1, <2>2 DEF Reuse
    <3>2. ArrayHoldsOldRows' /\ SliceHoldsRows'
      BY <1>1, <1>4, <2>2, <3>1, RowsUnwritten
    <3>3. array' = array /\ slice' = slice /\ aliased' = aliased
      BY <3>1
    <3>4. array \in Seq(Rows) /\ slice \in Seq(Rows) /\ aliased \in BOOLEAN
      BY DEF LoopInv, LoopTypeOK
    <3>5. QED
      BY <3>2, <3>3, <3>4, Zenon
  <2>3. QED
    BY <2>1, <2>2, Zenon
<1>9. /\ LoopTypeOK' /\ NotStarted' /\ WhereItIs' /\ PrefixResolved'
      /\ HeldIsHeldAt' /\ ClaimedIsAssigned' /\ PrefixFirstFit'
  BY <1>1, <1>3, <1>4, <1>5, <1>6, <1>7, <1>8, ClaimKeeps
<1>10. QED
  BY <1>8, <1>9, Zenon DEF LoopInv

LEMMA AllocateKeepsLoopInv ==
    ASSUME LoopInv, Allocate PROVE LoopInv'
<1>1. /\ status = "loop" /\ ~Reusable /\ held' = HeldWhenChoosing
  BY DEF Allocate
<1>2. PICK port \in Ports :
        /\ Chosen(port)
        /\ Claim(port)
        /\ IF ~commit THEN UNCHANGED <<array, slice, aliased, capacity>>
           ELSE IF existing = 0
           THEN AppendRow(Row(KeyOf(Declaration.name), port, cmd.mode))
           ELSE WriteThrough(existing, port)
  BY DEF Allocate
<1>3. /\ ResolvedAt(Pruned, cmd, Append(asg, port), next)
      /\ cmd.mode = "dev" =>
            /\ port \notin bound
            /\ \A p \in CandidatePorts(cmd.adapter.ports[next]) :
                  EarlierCandidate(cmd.adapter.ports[next], p, port) =>
                      p \in bound \cup Taken(Pruned, cmd, Append(asg, port), next)
  BY <1>1, <1>2, ChosenIsFirstFit
<1>4. \A p \in Ports : p \in held' <=> p \in HeldAt(Pruned, cmd, next)
  BY <1>1, HeldWhenChoosingIsHeld
<1>5. held' \subseteq Ports
  BY <1>1 DEF HeldWhenChoosing, LoopInv, LoopTypeOK
<1>6. /\ array' \in Seq(Rows) /\ slice' \in Seq(Rows) /\ aliased' \in BOOLEAN
      /\ ArrayHoldsOldRows' /\ SliceHoldsRows'
  <2>1. CASE commit /\ existing = 0
    BY <1>1, <1>2, <2>1, RowsAppended, Zenon
  <2>2. CASE commit /\ existing # 0
    <3>1. /\ array' \in Seq(Rows) /\ slice' \in Seq(Rows) /\ aliased' = aliased
          /\ ArrayHoldsOldRows' /\ SliceHoldsRows'
      BY <1>1, <1>2, <2>2, RowsReplaced
    <3>2. aliased \in BOOLEAN
      BY DEF LoopInv, LoopTypeOK
    <3>3. QED
      BY <3>1, <3>2, Zenon
  <2>3. CASE ~commit
    <3>1. UNCHANGED <<array, slice, aliased, capacity>>
      BY <1>2, <2>3
    <3>2. ArrayHoldsOldRows' /\ SliceHoldsRows'
      BY <1>1, <1>2, <2>3, <3>1, RowsUnwritten
    <3>3. array' = array /\ slice' = slice /\ aliased' = aliased
      BY <3>1
    <3>4. array \in Seq(Rows) /\ slice \in Seq(Rows) /\ aliased \in BOOLEAN
      BY DEF LoopInv, LoopTypeOK
    <3>5. QED
      BY <3>2, <3>3, <3>4, Zenon
  <2>4. QED
    BY <2>1, <2>2, <2>3, Zenon
<1>7. /\ LoopTypeOK' /\ NotStarted' /\ WhereItIs' /\ PrefixResolved'
      /\ HeldIsHeldAt' /\ ClaimedIsAssigned' /\ PrefixFirstFit'
  BY <1>1, <1>2, <1>3, <1>4, <1>5, <1>6, ClaimKeeps
<1>8. QED
  BY <1>6, <1>7, Zenon DEF LoopInv

LEMMA FailKeepsLoopInv ==
    ASSUME LoopInv, Fail PROVE LoopInv'
<1>1. /\ status = "loop" /\ status' = "failed" /\ ~Reusable
      /\ UNCHANGED <<start, cmd, commit, bound, array, slice, aliased, capacity,
                     next, held, claimed, asg>>
  BY DEF Fail
<1>2. Pruned' = Pruned /\ Until' = Until
  BY <1>1 DEF Pruned, Until
<1>3. \A moved : RowsSoFar(moved)' = RowsSoFar(moved)
  BY <1>1, <1>2 DEF RowsSoFar
<1>4. RowsSoFar(Unmoved(cmd))' = RowsSoFar(Unmoved(cmd))
  BY <1>1, <1>2 DEF RowsSoFar
<1>5. ~Kept(Pruned, cmd, next)
  BY <1>1, ExistingRow
<1>6. LoopTypeOK' /\ NotStarted'
  BY <1>1 DEF LoopInv, LoopTypeOK, NotStarted
<1>7. WhereItIs'
  BY <1>1, <1>2, <1>5 DEF LoopInv, WhereItIs
<1>8. PrefixResolved' /\ HeldIsHeldAt' /\ ClaimedIsAssigned' /\ PrefixFirstFit'
  BY <1>1, <1>2
     DEF LoopInv, PrefixResolved, HeldIsHeldAt, ClaimedIsAssigned, PrefixFirstFit
<1>9. ArrayHoldsOldRows'
  BY <1>1, <1>2, <1>4 DEF LoopInv, ArrayHoldsOldRows
<1>10. SliceHoldsRows'
  BY <1>1, <1>2, <1>3, <1>4 DEF LoopInv, SliceHoldsRows
<1>11. QED
  BY <1>6, <1>7, <1>8, <1>9, <1>10 DEF LoopInv

LEMMA LoopInitInv == LoopInit => LoopInv
<1> SUFFICES ASSUME LoopInit PROVE LoopInv
  OBVIOUS
<1>1. /\ start \in Catalogs /\ cmd \in CommandRecords /\ bound \subseteq Ports
  BY LoopAssumption DEF LoopInit
<1>2. cmd \in WellFormed /\ Len(cmd.adapter.ports) \in Nat
  BY <1>1, LoopAssumption, CommandType DEF LoopInit, WellFormed
<1>3. slice \in Seq(Rows) /\ Represents(slice, start)
  BY <1>1, LoadedRows DEF LoopInit
<1>4. LoopTypeOK
  BY <1>1, <1>2, <1>3 DEF LoopInit, LoopTypeOK
<1>5. NotStarted /\ WhereItIs
  BY <1>3 DEF LoopInit, NotStarted, WhereItIs
<1>6. PrefixResolved /\ ClaimedIsAssigned /\ PrefixFirstFit
  BY DEF LoopInit, PrefixResolved, ClaimedIsAssigned, PrefixFirstFit
<1>7. HeldIsHeldAt /\ ArrayHoldsOldRows /\ SliceHoldsRows
  BY DEF LoopInit, HeldIsHeldAt, ArrayHoldsOldRows, SliceHoldsRows
<1>8. QED
  BY <1>4, <1>5, <1>6, <1>7 DEF LoopInv

LEMMA LoopNextInv == LoopInv /\ [LoopNext]_loopVars => LoopInv'
<1> SUFFICES ASSUME LoopInv, [LoopNext]_loopVars PROVE LoopInv'
  OBVIOUS
<1>1. CASE UNCHANGED loopVars
  <2>1. UNCHANGED <<start, cmd, commit, bound, array, slice, aliased, capacity,
                    next, held, claimed, asg, status>>
    BY <1>1 DEF loopVars
  <2>2. Pruned' = Pruned /\ Until' = Until
    BY <2>1 DEF Pruned, Until
  <2>3. /\ \A moved : RowsSoFar(moved)' = RowsSoFar(moved)
        /\ RowsSoFar(Unmoved(cmd))' = RowsSoFar(Unmoved(cmd))
    BY <2>1, <2>2 DEF RowsSoFar
  <2>4. LoopTypeOK' /\ NotStarted' /\ WhereItIs'
    BY <2>1, <2>2 DEF LoopInv, LoopTypeOK, NotStarted, WhereItIs
  <2>5. PrefixResolved' /\ HeldIsHeldAt' /\ ClaimedIsAssigned' /\ PrefixFirstFit'
    BY <2>1, <2>2
       DEF LoopInv, PrefixResolved, HeldIsHeldAt, ClaimedIsAssigned, PrefixFirstFit
  <2>6. ArrayHoldsOldRows' /\ SliceHoldsRows'
    BY <2>1, <2>2, <2>3 DEF LoopInv, ArrayHoldsOldRows, SliceHoldsRows
  <2>7. QED
    BY <2>4, <2>5, <2>6 DEF LoopInv
<1>2. CASE LoopNext
  BY <1>2, PruneKeepsLoopInv, ReuseKeepsLoopInv, AllocateKeepsLoopInv,
     FailKeepsLoopInv DEF LoopNext
<1>3. QED
  BY <1>1, <1>2

LEMMA LoopInvariance == LoopSpec => []LoopInv
<1>1. QED
  BY LoopInitInv, LoopNextInv, PTL DEF LoopSpec

-----------------------------------------------------------------------------
(* What the loop computes *)

\* Pruning leaves the rows of declared services alone.
LEMMA PrunedRowOf ==
    ASSUME NEW c \in WellFormed, NEW cat \in Catalogs,
           NEW i \in DOMAIN c.adapter.ports
    PROVE  /\ RowOf(pruneUndeclared(cat, c), c, i) = RowOf(cat, c, i)
           /\ Kept(pruneUndeclared(cat, c), c, i) <=> Kept(cat, c, i)
<1> DEFINE key == <<c.at, c.adapter.ports[i].name>>
<1>1. key \in Keys /\ Declares(c.adapter, key[2])
  BY KeysDiffer, IndexOfName
<1>2. pruneUndeclared(cat, c)[key] = cat[key]
  BY <1>1 DEF pruneUndeclared
<1>3. RowOf(pruneUndeclared(cat, c), c, i) = RowOf(cat, c, i)
  BY <1>2 DEF RowOf
<1>4. QED
  BY <1>3 DEF Kept

\* When the loop is done, every declaration has the port of a resolution.
LEMMA DoneIsResolution ==
    ASSUME LoopInv, status = "done"
    PROVE  asg \in Resolutions(start, cmd)
<1>1. /\ asg \in Seq(Ports) /\ DOMAIN asg = DOMAIN cmd.adapter.ports
  BY LoopTypes DEF LoopInv, LoopTypeOK, WhereItIs
<1>2. asg \in [DOMAIN cmd.adapter.ports -> Ports]
  BY <1>1
<1>3. IsResolution(Pruned, cmd, asg)
  BY <1>1 DEF LoopInv, PrefixResolved, IsResolution
<1>4. QED
  BY <1>2, <1>3 DEF Resolutions, Pruned

\* The rows it leaves are those prepareRows leaves, for the place where the
\* array moved, if it did; inspect only prunes.
LEMMA DoneRows ==
    ASSUME LoopInv, status = "done"
    PROVE  /\ commit /\ aliased => Contents(slice) =
                  prepareRows(start, cmd, asg, Unmoved(cmd))
           /\ commit /\ ~aliased =>
                  \E moved \in DOMAIN cmd.adapter.ports :
                      /\ RowOf(start, cmd, moved) = NoRow
                      /\ Contents(slice) = prepareRows(start, cmd, asg, moved)
           /\ ~commit => Contents(slice) = pruneUndeclared(start, cmd)
<1>1. /\ cmd \in WellFormed /\ start \in Catalogs /\ Pruned \in Catalogs
      /\ Until \in Nat /\ Until <= Len(asg) + 1
      /\ DOMAIN cmd.adapter.ports = 1 .. Len(cmd.adapter.ports)
      /\ next = Len(cmd.adapter.ports) + 1
      /\ slice \in Seq(Rows) /\ asg \in Seq(Ports)
  BY LoopTypes DEF LoopInv, LoopTypeOK, WhereItIs
<1>2. ASSUME NEW moved, Represents(slice, RowsSoFar(moved))
      PROVE  Contents(slice) = RowsSoFar(moved)
  <2>1. RowsSoFar(moved) \in Catalogs
    BY <1>1, WrittenType DEF RowsSoFar
  <2>2. QED
    BY <1>1, <1>2, <2>1, ContentsOfRows
<1>3. ASSUME commit, NEW moved
      PROVE  RowsSoFar(moved) = prepareRows(start, cmd, asg, moved)
  <2>1. RowsSoFar(moved) =
            WrittenTo(Pruned, cmd, asg, Len(cmd.adapter.ports) + 1, moved)
    BY <1>1, <1>3 DEF RowsSoFar, Until
  <2>2. QED
    BY <1>1, <2>1, WrittenAll DEF prepareRows, Pruned
<1>4. ASSUME ~commit, NEW moved PROVE RowsSoFar(moved) = Pruned
  BY <1>1, <1>4, WrittenNothing DEF RowsSoFar, Until
<1>5. CASE aliased
  <2>1. Contents(slice) = RowsSoFar(Unmoved(cmd))
    BY <1>2, <1>5 DEF LoopInv, SliceHoldsRows
  <2>2. QED
    BY <1>3, <1>4, <1>5, <2>1 DEF Pruned
<1>6. CASE ~aliased
  <2>1. PICK moved \in DOMAIN cmd.adapter.ports :
          /\ moved < Until
          /\ RowOf(Pruned, cmd, moved) = NoRow
          /\ Represents(slice, RowsSoFar(moved))
    BY <1>6 DEF LoopInv, SliceHoldsRows
  <2>2. RowOf(start, cmd, moved) = NoRow
    BY <1>1, <2>1, PrunedRowOf DEF Pruned
  <2>3. Contents(slice) = RowsSoFar(moved)
    BY <1>2, <2>1
  <2>4. QED
    BY <1>3, <1>4, <1>6, <2>2, <2>3 DEF Pruned
<1>7. QED
  BY <1>5, <1>6

LEMMA OneRowPerKey ==
    ASSUME LoopInv
    PROVE  \A i, j \in DOMAIN slice : slice[i].key = slice[j].key => i = j
<1>1. \E cat : Represents(slice, cat)
  BY DEF LoopInv, NotStarted, SliceHoldsRows
<1>2. QED
  BY <1>1 DEF Represents

-----------------------------------------------------------------------------
(* Theorems about the loop *)

\* Every variable of the loop keeps its type.
THEOREM LoopTypeCorrect == LoopSpec => []LoopTypeOK
<1>1. LoopInv => LoopTypeOK
  BY DEF LoopInv
<1>2. QED
  BY <1>1, LoopInvariance, PTL

\* The loop of `resolve`, with its slice and the addresses into an array that
\* `append` may leave behind, computes what PortAllocation lets a prepare
\* compute, and fails only where it lets one fail.  AppendMoves is what says
\* there that the array may move.
THEOREM LoopImplementsPrepare ==
    ASSUME AppendMoves
    PROVE  LoopSpec => []LoopComputesOutcome
<1>1. LoopInv => LoopComputesOutcome
  <2> SUFFICES ASSUME LoopInv PROVE LoopComputesOutcome
    OBVIOUS
  <2>1. cmd \in WellFormed /\ start \in Catalogs
    BY LoopTypes DEF LoopInv
  <2>2. status = "failed" => MustChoose(start, cmd)
    <3> SUFFICES ASSUME status = "failed" PROVE MustChoose(start, cmd)
      OBVIOUS
    <3>1. next \in DOMAIN cmd.adapter.ports /\ ~Kept(Pruned, cmd, next)
      BY LoopTypes DEF LoopInv, LoopTypeOK, WhereItIs
    <3>2. QED
      BY <2>1, <3>1, PrunedRowOf DEF MustChoose, Pruned
  <2>3. ASSUME status = "done", commit
        PROVE  \E moved \in MovePoints(start, cmd) :
                   Contents(slice) = prepareRows(start, cmd, asg, moved)
    <3>1. CASE aliased
      BY <2>3, <3>1, DoneRows DEF MovePoints
    <3>2. CASE ~aliased
      <4>1. PICK moved \in DOMAIN cmd.adapter.ports :
              /\ RowOf(start, cmd, moved) = NoRow
              /\ Contents(slice) = prepareRows(start, cmd, asg, moved)
        BY <2>3, <3>2, DoneRows
      <4>2. moved \in MovePoints(start, cmd)
        BY <4>1 DEF MovePoints
      <4>3. QED
        BY <4>1, <4>2
    <3>3. QED
      BY <3>1, <3>2
  <2>4. status = "done" => asg \in Resolutions(start, cmd)
    BY DoneIsResolution
  <2>5. status = "done" /\ ~commit => Contents(slice) = pruneUndeclared(start, cmd)
    BY DoneRows
  <2>6. QED
    BY <2>2, <2>3, <2>4, <2>5, OneRowPerKey DEF LoopComputesOutcome
<1>2. QED
  BY <1>1, LoopInvariance, PTL

\* Every service that needs a new port gets the first candidate that nobody
\* holds and that can be bound, in the documented order.
THEOREM CandidatesAreTriedInOrder == LoopSpec => []FirstFit
<1>1. LoopInv => FirstFit
  <2> SUFFICES ASSUME LoopInv PROVE FirstFit
    OBVIOUS
  <2>1. PrefixFirstFit
    BY DEF LoopInv
  <2>2. QED
    BY <2>1 DEF PrefixFirstFit, FirstFit, Pruned
<1>2. QED
  BY <1>1, LoopInvariance, PTL

\* No manifest has one port twice, whether the loop reuses rows, displaces
\* them or chooses, and whether or not it finishes, when the catalog it loads
\* has no port twice.
THEOREM ManifestsKeepPortsApart ==
    ASSUME \A cat \in StartCatalogs : UniquePorts(cat)
    PROVE  LoopSpec => []ManifestPortsDiffer
<1>1. LoopInv => ManifestPortsDiffer
  <2> SUFFICES ASSUME LoopInv, NEW i \in DOMAIN asg, NEW j \in DOMAIN asg, i # j
               PROVE  asg[i] # asg[j]
    BY DEF ManifestPortsDiffer
  <2>1. /\ cmd \in WellFormed /\ Pruned \in Catalogs /\ UniquePorts(Pruned)
        /\ i \in DOMAIN cmd.adapter.ports /\ j \in DOMAIN cmd.adapter.ports
        /\ i \in Nat /\ j \in Nat
    <3>1. start \in StartCatalogs /\ start \in Catalogs
      BY LoopTypes DEF LoopInv, LoopTypeOK
    <3>2. UniquePorts(Pruned)
      BY <3>1, PruneKeepsUnique DEF Pruned
    <3>3. next \in 1 .. (Len(cmd.adapter.ports) + 1)
      BY DEF LoopInv, LoopTypeOK
    <3>4. QED
      BY <3>2, <3>3, LoopTypes DEF LoopInv
  <2>2. /\ asg[i] \in Ports /\ asg[j] \in Ports
        /\ ResolvedAt(Pruned, cmd, asg, i) /\ ResolvedAt(Pruned, cmd, asg, j)
    BY DEF LoopInv, LoopTypeOK, PrefixResolved
  <2>3. CASE i < j
    BY <2>1, <2>2, <2>3, LaterDiffers
  <2>4. CASE j < i
    BY <2>1, <2>2, <2>4, LaterDiffers
  <2>5. QED
    BY <2>1, <2>3, <2>4
<1>2. QED
  BY <1>1, LoopInvariance, PTL

\* Two rows never end up with one port as long as the addresses lead to the
\* published rows, nor in a dev lane, which moves no row of its own.
THEOREM AliasedRowsKeepPortsApart == LoopSpec => []UniqueWhileAliased
<1>1. LoopInv => UniqueWhileAliased
  <2> SUFFICES ASSUME LoopInv, status = "done", UniquePorts(start),
                      aliased \/ cmd.mode = "dev"
               PROVE  UniquePorts(Contents(slice))
    BY DEF UniqueWhileAliased
  <2>1. /\ cmd \in WellFormed /\ start \in Catalogs
        /\ asg \in Resolutions(start, cmd)
    BY LoopTypes, DoneIsResolution DEF LoopInv
  <2>2. CASE ~commit
    BY <2>1, <2>2, DoneRows, PruneKeepsUnique
  <2>3. CASE commit /\ aliased
    BY <2>1, <2>3, DoneRows, UnlostKeepsUnique
  <2>4. CASE commit /\ ~aliased
    <3>1. PICK moved \in DOMAIN cmd.adapter.ports :
            Contents(slice) = prepareRows(start, cmd, asg, moved)
      BY <2>4, DoneRows
    <3>2. QED
      BY <2>1, <2>4, <3>1, UnlostKeepsUnique
  <2>5. QED
    BY <2>2, <2>3, <2>4
<1>2. QED
  BY <1>1, LoopInvariance, PTL

-----------------------------------------------------------------------------
(* The bytes of the file *)

\* Writing at the start of an empty file leaves exactly what is written.
LEMMA WriteToEmpty ==
    ASSUME NEW bytes \in Seq(Nat)
    PROVE  WrittenAtStart(bytes, <<>>) = bytes
<1>1. /\ Len(bytes) \in Nat
      /\ bytes = [i \in 1 .. Len(bytes) |-> bytes[i]]
      /\ Len(<<>>) = 0
  OBVIOUS
<1>2. WrittenAtStart(bytes, <<>>) = [i \in 1 .. Len(bytes) |-> bytes[i]]
  <2>1. (IF Len(bytes) < Len(<<>>) THEN Len(<<>>) ELSE Len(bytes)) = Len(bytes)
    BY <1>1
  <2>2. \A i \in 1 .. Len(bytes) : i <= Len(bytes)
    BY <1>1
  <2>3. QED
    BY <2>1, <2>2 DEF WrittenAtStart
<1>3. QED
  BY <1>1, <1>2

\* A pid is a sequence of digits.
LEMMA PidType == \A p \in Procs : Pid[p] \in Seq(Nat)
BY LockAssumption

-----------------------------------------------------------------------------
(* The inductive invariant of the lock *)

\* The processes that act as if they had the lock are those the kernel gave
\* it to.
FlockIsOwned == \A p \in Procs : pc[p] \in Locked <=> flock = p

\* Between Truncate and Fprintf the file is empty.
TruncatedFirst == \A p \in Procs : pc[p] = "writing" => content = <<>>

\* The file is empty or holds a whole pid.
WholePid == content \in {<<>>} \cup {Pid[q] : q \in Procs}

\* A process begins with no tries, and tries again only before its deadline.
BeforeDeadline ==
    \A p \in Procs : /\ pc[p] = "idle" => tries[p] = 0
                     /\ pc[p] = "trying" => tries[p] < MaxTries

LockInv ==
    /\ TypeOK
    /\ FlockIsOwned
    /\ TruncatedFirst
    /\ HolderIsRecorded
    /\ WholePid
    /\ MessagesNameProcesses
    /\ BeforeDeadline

-----------------------------------------------------------------------------
(* Preservation, in three groups of parts *)

\* Each action in terms of the process that takes it.
LEMMA StepCases ==
    ASSUME NEW p \in Procs, Open(p) \/ Step(p) \/ AcquireFails(p) \/ Crash(p)
    PROVE  \/ Open(p) \/ Flock(p) \/ FlockBusy(p) \/ Sleep(p) \/ GiveUp(p)
           \/ ReadHolder(p) \/ Truncate(p) \/ WritePid(p) \/ Exit(p)
BY DEF Step, Refused, Close, AcquireFails, Crash

\* Types, and the deadline.
LEMMA TypeStep ==
    ASSUME LockInv, NEW p \in Procs,
           Open(p) \/ Step(p) \/ AcquireFails(p) \/ Crash(p)
    PROVE  TypeOK' /\ BeforeDeadline'
<1> USE PidType, LockAssumption DEF LockInv, TypeOK, BeforeDeadline, Goto,
        Waiting, Locked
<1>1. CASE Open(p)
  BY <1>1 DEF Open
<1>2. CASE Flock(p)
  BY <1>2 DEF Flock
<1>3. CASE FlockBusy(p)
  BY <1>3 DEF FlockBusy
<1>4. CASE Sleep(p)
  BY <1>4 DEF Sleep
<1>5. CASE GiveUp(p)
  BY <1>5 DEF GiveUp
<1>6. CASE ReadHolder(p)
  BY <1>6 DEF ReadHolder
<1>7. CASE Truncate(p)
  BY <1>7 DEF Truncate
<1>8. CASE WritePid(p)
  <2>1. content' \in Seq(Nat)
    BY <1>8, WriteToEmpty DEF WritePid, TruncatedFirst
  <2>2. QED
    BY <1>8, <2>1 DEF WritePid
<1>9. CASE Exit(p)
  BY <1>9 DEF Exit, Unlocked
<1>10. QED
  BY <1>1, <1>2, <1>3, <1>4, <1>5, <1>6, <1>7, <1>8, <1>9, StepCases

\* Who has the flock, and what is in the file while somebody has it.
LEMMA FileStep ==
    ASSUME LockInv, NEW p \in Procs,
           Open(p) \/ Step(p) \/ AcquireFails(p) \/ Crash(p)
    PROVE  FlockIsOwned' /\ TruncatedFirst' /\ HolderIsRecorded' /\ WholePid'
<1> USE LockAssumption DEF LockInv, TypeOK, FlockIsOwned, TruncatedFirst,
        HolderIsRecorded, WholePid, Goto, Waiting, Locked
<1>1. CASE Open(p)
  BY <1>1 DEF Open
<1>2. CASE Flock(p)
  BY <1>2 DEF Flock
<1>3. CASE FlockBusy(p)
  BY <1>3 DEF FlockBusy
<1>4. CASE Sleep(p)
  BY <1>4 DEF Sleep
<1>5. CASE GiveUp(p)
  BY <1>5 DEF GiveUp
<1>6. CASE ReadHolder(p)
  BY <1>6 DEF ReadHolder
<1>7. CASE Truncate(p)
  BY <1>7 DEF Truncate
<1>8. CASE WritePid(p)
  <2>1. content' = Pid[p]
    BY <1>8, WriteToEmpty, PidType DEF WritePid
  <2>2. QED
    BY <1>8, <2>1 DEF WritePid
<1>9. CASE Exit(p)
  BY <1>9 DEF Exit, Unlocked
<1>10. QED
  BY <1>1, <1>2, <1>3, <1>4, <1>5, <1>6, <1>7, <1>8, <1>9, StepCases

\* What the messages say: only ReadHolder takes something from the file.
LEMMA MessageStep ==
    ASSUME LockInv, NEW p \in Procs,
           Open(p) \/ Step(p) \/ AcquireFails(p) \/ Crash(p)
    PROVE  MessagesNameProcesses'
<1> USE DEF LockInv, TypeOK, MessagesNameProcesses
<1>1. CASE ReadHolder(p)
  BY <1>1 DEF ReadHolder, WholePid
<1>2. CASE Exit(p)
  BY <1>2 DEF Exit
<1>3. CASE UNCHANGED named
  BY <1>3
<1>4. QED
  BY <1>1, <1>2, <1>3, StepCases
     DEF Open, Flock, FlockBusy, Sleep, GiveUp, Truncate, WritePid

LEMMA LockInitInv == Init => LockInv
BY LockAssumption
   DEF Init, LockInv, TypeOK, FlockIsOwned, TruncatedFirst, HolderIsRecorded,
       WholePid, MessagesNameProcesses, BeforeDeadline, Waiting, Locked

LEMMA LockNextInv == LockInv /\ [Next]_vars => LockInv'
<1> SUFFICES ASSUME LockInv, [Next]_vars PROVE LockInv'
  OBVIOUS
<1>1. CASE UNCHANGED vars
  BY <1>1 DEF vars, LockInv, TypeOK, FlockIsOwned, TruncatedFirst,
              HolderIsRecorded, WholePid, MessagesNameProcesses,
              BeforeDeadline
<1>2. CASE Next
  <2>1. PICK p \in Procs : Open(p) \/ Step(p) \/ AcquireFails(p) \/ Crash(p)
    BY <1>2 DEF Next
  <2>2. QED
    BY <2>1, TypeStep, FileStep, MessageStep DEF LockInv
<1>3. QED
  BY <1>1, <1>2

LEMMA LockInvariance == Spec => []LockInv
<1>1. QED
  BY LockInitInv, LockNextInv, PTL DEF Spec

-----------------------------------------------------------------------------
(* Theorems about the lock *)

\* Every variable keeps its type: tries never pass the deadline.
THEOREM LockTypeCorrect == Spec => []TypeOK
<1>1. LockInv => TypeOK
  BY DEF LockInv
<1>2. QED
  BY <1>1, LockInvariance, PTL

\* Whoever acquireCatalogLock returned the lock to is the one the file names.
THEOREM HolderRecorded == Spec => []HolderIsRecorded
<1>1. LockInv => HolderIsRecorded
  BY DEF LockInv
<1>2. QED
  BY <1>1, LockInvariance, PTL

\* A timeout names a process, or nobody, and never a mixture of two pids.
THEOREM ProcessesNamed == Spec => []MessagesNameProcesses
<1>1. LockInv => MessagesNameProcesses
  BY DEF LockInv
<1>2. QED
  BY <1>1, LockInvariance, PTL

-----------------------------------------------------------------------------
(* The flock is a lock *)

\* Each step is a step of CatalogLock or leaves it alone.
LEMMA LockStep ==
    ASSUME LockInv, NEW p \in Procs,
           Open(p) \/ Step(p) \/ AcquireFails(p) \/ Crash(p)
    PROVE  [Lock!Next]_(Lock!vars)
<1> DEFINE waiting == {q \in Procs : pc[q] \in Waiting \cup {"refused"}}
           working == {q \in Procs : pc[q] \in Locked}
<1> USE LockAssumption DEF LockInv, TypeOK, FlockIsOwned, Goto, Waiting, Locked
<1>1. CASE Open(p)
  <2>1. waiting' = waiting \cup {p} /\ working' = working
    BY <1>1 DEF Open
  <2>2. p \notin waiting \cup working
    BY <1>1 DEF Open
  <2>3. QED
    BY <2>1, <2>2 DEF Lock!Next, Lock!Request
<1>2. CASE Flock(p)
  <2>1. waiting' = waiting \ {p}
    BY <1>2 DEF Flock
  <2>2. p \in waiting /\ working = {}
    BY <1>2 DEF Flock
  <2>3. working' = {p}
    BY <1>2, <2>2 DEF Flock
  <2>4. QED
    BY <2>1, <2>2, <2>3 DEF Lock!Next, Lock!Grant
<1>3. CASE FlockBusy(p) \/ Sleep(p) \/ GiveUp(p) \/ ReadHolder(p)
           \/ Truncate(p) \/ WritePid(p)
  <2>1. waiting' = waiting /\ working' = working
    BY <1>3 DEF FlockBusy, Sleep, GiveUp, ReadHolder, Truncate, WritePid
  <2>2. QED
    BY <2>1 DEF Lock!vars
<1>4. CASE Exit(p)
  <2>1. waiting' = waiting \ {p} /\ working' = working \ {p}
    BY <1>4 DEF Exit
  <2>2. CASE p \in waiting
    <3>1. p \notin working
      BY <2>2
    <3>2. QED
      BY <2>1, <2>2, <3>1 DEF Lock!Next, Lock!Leave
  <2>3. CASE p \in working
    <3>1. p \notin waiting
      BY <2>3
    <3>2. QED
      BY <2>1, <2>3, <3>1 DEF Lock!Next, Lock!Release
  <2>4. CASE p \notin waiting \cup working
    BY <2>1, <2>4 DEF Lock!vars
  <2>5. QED
    BY <2>2, <2>3, <2>4
<1>5. QED
  BY <1>1, <1>2, <1>3, <1>4, StepCases

\* flock, polled and dropped as the code does, gives the lock that the
\* commands are modelled with: one process at a time.
THEOREM FlockImplementsLock == Spec => ImplementsLock
<1>1. Init => Lock!Init
  BY DEF Init, Lock!Init, Waiting, Locked
<1>2. LockInv /\ [Next]_vars => [Lock!Next]_(Lock!vars)
  <2> SUFFICES ASSUME LockInv, [Next]_vars PROVE [Lock!Next]_(Lock!vars)
    OBVIOUS
  <2>1. CASE UNCHANGED vars
    BY <2>1 DEF vars, Lock!vars
  <2>2. CASE Next
    BY <2>2, LockStep DEF Next
  <2>3. QED
    BY <2>1, <2>2
<1>3. QED
  BY <1>1, <1>2, LockInvariance, PTL DEF Spec, ImplementsLock, Lock!Spec
=============================================================================
