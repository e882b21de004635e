----------------------------- MODULE BlockProofs ------------------------------
(* Proofs about the two modules of util::block: ProofChain, for chains of      *)
(* every length, and PrunedBlocks, for every set of blocks.  Each has its own  *)
(* variables; no theorem is about both.                                        *)
EXTENDS ProofChain, PrunedBlocks, SequenceTheorems, TLAPS

-------------------------------------------------------------------------------
(* Proof chains. *)

\* The finished cells hold the proofs from position `from` to the last one.
Suffix(from) ==
  /\ \A k \in DOMAIN child : Len(child[k]) \in 1..PerCell
  /\ Contiguous(child)
  /\ IF child = <<>> THEN from = size + 1
     ELSE /\ child[1][1] = from
          /\ child[Len(child)][1] + Len(child[Len(child)]) - 1 = size

Rest == (size - 1) % PerCell    \* proofs of the innermost cell, 0 for none

\* Until a leaf is filled the positions left are 2..back, a whole number of
\* cells; afterwards none are, whatever the leaf holds.
Packing ==
  /\ stage \in {"head", "leaf"} => child = <<>> /\ back = size
  /\ stage = "head" => front = 1 /\ head = <<>> /\ leaf = <<>>
  /\ stage # "head" /\ size > 0 => head = <<1>>
  /\ stage = "leaf" =>
       /\ size > 0
       /\ Len(leaf) + left = Rest
       /\ groups = (size - 1) \div PerCell
       /\ front = IF leaf = <<>> THEN 2 ELSE size - left + 1
       /\ \A i \in DOMAIN leaf : leaf[i] = size - Rest + i
  /\ stage = "group" =>
       /\ size > 0
       /\ \/ /\ Rest = 0
             /\ front = 2
             /\ back = 1 + PerCell * groups
             /\ Suffix(back + 1)
          \/ /\ Rest # 0
             /\ front = size + 1
             /\ back = size
             /\ groups = (size - 1) \div PerCell
             /\ Suffix(size + 1 - Rest)
  /\ stage = "done" /\ size > 0 => Suffix(2)
  /\ stage = "done" => Packs(size)
  /\ stage = "panic" => size > 4 /\ Rest # 0
  /\ \A k \in DOMAIN child : Len(child[k]) \in 1..PerCell

ChainInv == TypeOK /\ Packing

-------------------------------------------------------------------------------
LEMMA DivisionByThree == ASSUME NEW n \in Nat
                  PROVE  /\ n % 3 \in 0..2 /\ n \div 3 \in Nat
                         /\ n = 3 * (n \div 3) + (n % 3)
                         /\ (n \div 3 = 0 <=> n < 3)
<1>1. n % 3 \in 0..2 /\ n \div 3 \in Int
  OBVIOUS
<1>2. n = 3 * (n \div 3) + (n % 3)
  OBVIOUS
<1> QED
  BY <1>1, <1>2

\* Putting a full cell in front of a suffix that starts right after it.
LEMMA Prepend ==
  ASSUME TypeOK, Suffix(back + 1), Remaining >= PerCell, GroupCell
  PROVE  Suffix(back + 1)'
<1> DEFINE cell == LastProofs
           new == <<cell>> \o child
<1>1. /\ front \in Nat \ {0} /\ back \in Nat /\ size \in Nat /\ back - 3 >= 0
      /\ child \in Seq(Seq(1..MaxSize)) /\ MaxSize \in Nat
  BY ProofChainAssumption DEF TypeOK, Remaining, PerCell, Cells
<1>2. /\ Len(cell) = 3 /\ cell \in Seq(Int)
      /\ cell[1] = back - 2 /\ \A i \in DOMAIN cell : cell[i] = cell[1] + i - 1
  BY <1>1 DEF LastProofs, PerCell
<1>3. child' = new /\ back' = back - 3 /\ size' = size
  BY DEF GroupCell, PerCell
<1>4. /\ Len(new) = Len(child) + 1 /\ new[1] = cell
      /\ \A k \in 2..Len(new) : new[k] = child[k - 1] /\ k - 1 \in DOMAIN child
      /\ DOMAIN new = 1..Len(new)
  BY <1>1, <1>2
<1> HIDE DEF cell, new
<1>5. /\ child = <<>> => back = size
      /\ child # <<>> => /\ child[1][1] = back + 1
                         /\ child[Len(child)][1] + Len(child[Len(child)]) - 1 = size
  BY <1>1 DEF Suffix
<1>6. /\ \A k \in DOMAIN child : \A i \in DOMAIN child[k] :
             child[k][i] = child[k][1] + i - 1
      /\ \A k \in DOMAIN child : k > 1 =>
           child[k][1] = child[k - 1][1] + Len(child[k - 1])
  BY DEF Suffix, Contiguous
<1>7. \A k \in DOMAIN new : Len(new[k]) \in 1..3
  <2>1. \A k \in DOMAIN child : Len(child[k]) \in 1..3
    BY DEF Suffix, PerCell
  <2>2. Len(new) \in Nat /\ \A k \in DOMAIN new : k = 1 \/ k \in 2..Len(new)
    BY <1>1, <1>4
  <2>3. Len(new[1]) = 3
    BY <1>2, <1>4
  <2> QED
    BY <1>4, <2>1, <2>2, <2>3
<1>8. Contiguous(new)
  <2>1. ASSUME NEW k \in DOMAIN new, NEW i \in DOMAIN new[k]
        PROVE  new[k][i] = new[k][1] + i - 1
    <3>1. CASE k = 1
      BY <1>2, <1>4, <3>1
    <3>2. CASE k # 1
      <4>1. k \in 2..Len(new)
        BY <1>1, <1>4, <3>2
      <4>2. new[k] = child[k - 1] /\ k - 1 \in DOMAIN child
        BY <1>4, <4>1
      <4> QED
        BY <1>6, <4>2
    <3> QED
      BY <3>1, <3>2
  <2>2. ASSUME NEW k \in DOMAIN new, k > 1
        PROVE  new[k][1] = new[k - 1][1] + Len(new[k - 1])
    <3>1. CASE k = 2
      <4>1. /\ new[k] = child[1] /\ new[k - 1] = cell /\ 2 - 1 = 1
            /\ child # <<>>
        BY <1>1, <1>4, <2>2, <3>1
      <4>2. child[1][1] = back + 1 /\ cell[1] = back - 2 /\ Len(cell) = 3
        BY <1>2, <1>5, <4>1
      <4> QED
        BY <1>1, <4>1, <4>2
    <3>2. CASE k > 2
      <4>1. /\ new[k] = child[k - 1] /\ new[k - 1] = child[k - 2]
            /\ k - 1 \in DOMAIN child /\ k - 1 > 1 /\ k \in Int
        <5>1. Len(new) \in Nat /\ k \in 1..Len(new)
          BY <1>1, <1>4
        <5>2. k \in 2..Len(new) /\ k - 1 \in 2..Len(new) /\ (k - 1) - 1 = k - 2 /\ k - 1 > 1
          BY <3>2, <5>1
        <5> QED
          BY <1>4, <5>1, <5>2
      <4>2. PICK j \in DOMAIN child : j = k - 1 /\ j > 1 /\ j \in Int
        BY <4>1
      <4>3. child[j][1] = child[j - 1][1] + Len(child[j - 1])
        BY <1>6, <4>2
      <4>4. j - 1 = k - 2
        BY <4>1, <4>2
      <4>5. new[k] = child[j] /\ new[k - 1] = child[j - 1]
        BY <4>1, <4>2, <4>4
      <4> QED
        BY <4>3, <4>5
    <3> QED
      BY <1>4, <2>2, <3>1, <3>2
  <2> QED
    BY <2>1, <2>2 DEF Contiguous
<1>9. new[Len(new)][1] + Len(new[Len(new)]) - 1 = size
  <2>1. CASE child = <<>>
    <3>1. Len(new) = 1 /\ back = size
      BY <1>4, <1>5, <2>1
    <3>2. new[Len(new)] = cell
      BY <1>4, <3>1
    <3>3. cell[1] + Len(cell) - 1 = size
      BY <1>1, <1>2, <3>1
    <3> QED
      BY <3>2, <3>3
  <2>2. CASE child # <<>>
    <3>1. Len(new) \in 2..Len(new) /\ Len(new) - 1 = Len(child)
      BY <1>1, <1>4, <2>2
    <3>2. new[Len(new)] = child[Len(child)]
      BY <1>4, <3>1
    <3> QED
      BY <1>5, <2>2, <3>2
  <2> QED
    BY <2>1, <2>2
<1>10. new # <<>> /\ new[1][1] = back - 2
  BY <1>1, <1>2, <1>4
<1> QED
  BY <1>1, <1>3, <1>7, <1>8, <1>9, <1>10 DEF Suffix, PerCell

LEMMA ChainInitInv == ChainInit => ChainInv
BY ProofChainAssumption DEF ChainInit, ChainInv, TypeOK, Packing, PerCell, Cells

LEMMA ChainStepInv == ChainInv /\ [ChainNext]_chainVars => ChainInv'
<1> SUFFICES ASSUME ChainInv, [ChainNext]_chainVars PROVE ChainInv'
  OBVIOUS
<1> USE DEF PerCell
<1>1. /\ size \in Nat /\ size <= MaxSize /\ front \in Nat /\ back \in Int
      /\ left \in 0..2 /\ groups \in Nat /\ leaf \in Seq(1..MaxSize)
      /\ child \in Seq(Seq(1..MaxSize)) /\ MaxSize \in Nat
  BY ProofChainAssumption DEF ChainInv, TypeOK, Cells
<1>2. size > 0 => /\ size - 1 \in Nat /\ Rest \in 0..2
                  /\ (size - 1) \div 3 \in Nat
                  /\ size - 1 = 3 * ((size - 1) \div 3) + Rest
                  /\ ((size - 1) \div 3 = 0 <=> size - 1 < 3)
  <2> SUFFICES ASSUME size > 0
               PROVE  /\ size - 1 \in Nat /\ Rest \in 0..2
                      /\ (size - 1) \div 3 \in Nat
                      /\ size - 1 = 3 * ((size - 1) \div 3) + Rest
                      /\ ((size - 1) \div 3 = 0 <=> size - 1 < 3)
    OBVIOUS
  <2> DEFINE n == size - 1
  <2>1. n \in Nat
    BY <1>1
  <2>2. Rest = n % 3
    BY DEF Rest
  <2> HIDE DEF n
  <2>3. /\ n % 3 \in 0..2 /\ n \div 3 \in Nat /\ n = 3 * (n \div 3) + (n % 3)
        /\ (n \div 3 = 0 <=> n < 3)
    BY <2>1, DivisionByThree
  <2> QED
    BY <2>1, <2>2, <2>3 DEF n
<1>3. CASE HeadCell
  <2>1. CASE size = 0
    BY <1>3, <2>1 DEF HeadCell, ChainInv, TypeOK, Packing, Cells, Packs
  <2>2. CASE size > 0
    <3>1. /\ stage' = "leaf" /\ head' = <<1>> /\ front' = 2 /\ left' = Rest
          /\ groups' = (size - 1) \div 3 /\ size' = size /\ back' = size
          /\ leaf' = <<>> /\ child' = <<>>
      BY <1>3, <2>2 DEF HeadCell, ChainInv, Packing, Rest, Groups
    <3>2. TypeOK'
      BY <1>1, <1>2, <2>2, <3>1 DEF ChainInv, TypeOK, Cells
    <3>3. Packing'
      BY <1>1, <1>2, <2>2, <3>1 DEF Packing, Rest
    <3> QED
      BY <3>2, <3>3 DEF ChainInv
  <2> QED
    BY <1>1, <2>1, <2>2
<1>4. CASE Pull
  <2>1. /\ size > 0 /\ Len(leaf) + left = Rest /\ groups = (size - 1) \div 3
        /\ front = (IF leaf = <<>> THEN 2 ELSE size - left + 1) /\ back = size
        /\ \A i \in DOMAIN leaf : leaf[i] = size - Rest + i
        /\ stage = "leaf" /\ left > 0 /\ head = <<1>> /\ child = <<>>
    BY <1>1, <1>4 DEF Pull, ChainInv, Packing
  <2>2. /\ leaf' = Append(leaf, size - left + 1) /\ front' = size - left + 2
        /\ left' = left - 1
        /\ UNCHANGED <<size, stage, head, back, groups, child>>
    BY <1>1, <1>4, <2>1 DEF Pull, Remaining
  <2>3. size - left + 1 \in 1..MaxSize /\ Len(leaf) \in Nat /\ Rest <= size - 1
    BY <1>1, <1>2, <2>1
  <2>4. leaf' \in Seq(1..MaxSize) /\ Len(leaf') = Len(leaf) + 1 /\ leaf' # <<>>
    <3> DEFINE at == size - left + 1
    <3>1. leaf' = Append(leaf, at) /\ at \in 1..MaxSize /\ leaf \in Seq(1..MaxSize)
      BY <1>1, <2>2, <2>3
    <3> HIDE DEF at
    <3> QED
      BY <3>1
  <2>5. \A i \in DOMAIN leaf' : leaf'[i] = size - Rest + i
    <3> DEFINE at == size - left + 1
    <3>1. leaf' = Append(leaf, at) /\ at \in 1..MaxSize /\ leaf \in Seq(1..MaxSize)
      BY <1>1, <2>2, <2>3
    <3> HIDE DEF at
    <3>2. \A i \in DOMAIN leaf : leaf'[i] = leaf[i]
      BY <3>1
    <3>3. leaf'[Len(leaf) + 1] = size - left + 1
      BY <3>1 DEF at
    <3>4. size - left + 1 = size - Rest + Len(leaf) + 1
      BY <1>1, <1>2, <2>1, <2>3
    <3>5. DOMAIN leaf' = DOMAIN leaf \cup {Len(leaf) + 1}
      BY <3>1
    <3>6. size - Rest + (Len(leaf) + 1) = size - Rest + Len(leaf) + 1
      BY <1>1, <1>2, <2>1, <2>3
    <3> QED
      BY <2>1, <3>2, <3>3, <3>4, <3>5, <3>6
  <2>6. TypeOK'
    BY <1>1, <2>1, <2>2, <2>3, <2>4 DEF ChainInv, TypeOK
  <2>7. Packing'
    <3>1. size' = size /\ Rest' = Rest /\ groups' = groups /\ back' = size
          /\ stage' = "leaf" /\ head' = <<1>> /\ child' = <<>>
      BY <2>1, <2>2 DEF Rest
    <3>2. Len(leaf') + left' = Rest
      BY <1>1, <1>2, <2>1, <2>2, <2>3, <2>4
    <3>3. front' = size - left' + 1
      BY <1>1, <2>2
    <3> QED
      BY <2>1, <2>4, <2>5, <3>1, <3>2, <3>3 DEF Packing
  <2> QED
    BY <2>6, <2>7 DEF ChainInv
<1>5. CASE LeafCell
  <2>1. /\ size > 0 /\ Len(leaf) = Rest /\ groups = (size - 1) \div 3
        /\ front = (IF leaf = <<>> THEN 2 ELSE size + 1) /\ back = size
        /\ \A i \in DOMAIN leaf : leaf[i] = size - Rest + i
        /\ head = <<1>> /\ child = <<>>
    BY <1>1, <1>5 DEF LeafCell, ChainInv, Packing
  <2>2. /\ stage' = "group" /\ child' = (IF leaf = <<>> THEN <<>> ELSE <<leaf>>)
        /\ UNCHANGED <<size, head, front, back, left, groups, leaf>>
    BY <1>5 DEF LeafCell
  <2>3. child' \in Cells
    <3>1. <<>> \in Cells /\ <<leaf>> \in Cells
      BY <1>1 DEF Cells
    <3> QED
      BY <2>2, <3>1
  <2>4. TypeOK'
    BY <2>2, <2>3 DEF ChainInv, TypeOK
  <2>5. CASE leaf = <<>>
    <3>1. Rest = 0 /\ child' = <<>> /\ size = 1 + 3 * groups
      BY <1>1, <1>2, <2>1, <2>2, <2>5
    <3>2. Suffix(size + 1)'
      BY <2>2, <3>1 DEF Suffix, Contiguous
    <3>3. Packing'
      BY <2>1, <2>2, <2>5, <3>1, <3>2 DEF Packing, Rest
    <3> QED
      BY <2>4, <3>3 DEF ChainInv
  <2>6. CASE leaf # <<>>
    <3>1. /\ Rest # 0 /\ Len(leaf) \in 1..3 /\ child' = <<leaf>>
          /\ leaf[1] = size + 1 - Rest
      <4>1. Len(leaf) # 0 /\ Len(leaf) \in Nat /\ 1 \in DOMAIN leaf
        BY <1>1, <2>6
      <4>2. leaf[1] = size - Rest + 1
        BY <2>1, <4>1
      <4>3. Rest # 0 /\ Len(leaf) \in 1..3
        BY <1>2, <2>1, <4>1
      <4>4. size - Rest + 1 = size + 1 - Rest
        BY <1>1, <1>2, <2>1
      <4> QED
        BY <2>2, <2>6, <4>2, <4>3, <4>4
    <3>2. /\ Len(child') = 1 /\ DOMAIN child' = {1} /\ child'[1] = leaf
          /\ child' # <<>>
      BY <3>1
    <3>3. Contiguous(child')
      <4>1. \A i \in DOMAIN leaf : leaf[i] = leaf[1] + i - 1
        BY <1>1, <1>2, <2>1, <3>1
      <4> QED
        BY <3>2, <4>1 DEF Contiguous
    <3>4. leaf[1] + Len(leaf) - 1 = size
      BY <1>1, <1>2, <2>1, <3>1
    <3>5. Suffix(size + 1 - Rest)'
      <4>1. /\ size' = size /\ Rest' = Rest
        BY <2>2 DEF Rest
      <4> QED
        BY <3>1, <3>2, <3>3, <3>4, <4>1 DEF Suffix, Contiguous
    <3>6. Packing'
      BY <2>1, <2>2, <2>6, <3>1, <3>2, <3>5 DEF Packing, Rest
    <3> QED
      BY <2>4, <3>6 DEF ChainInv
  <2> QED
    BY <2>5, <2>6
<1>6. CASE GroupCell
  <2>1. stage = "group" /\ groups > 0 /\ back - front + 1 >= 3
    BY <1>6 DEF GroupCell, Available, Remaining
  <2>2. /\ size > 0 /\ Rest = 0 /\ front = 2 /\ back = 1 + 3 * groups
        /\ Suffix(back + 1) /\ head = <<1>>
    BY <1>1, <2>1 DEF ChainInv, Packing
  <2>3. /\ child' = <<LastProofs>> \o child /\ back' = back - 3 /\ groups' = groups - 1
        /\ UNCHANGED <<size, stage, head, front, left, leaf>>
    BY <1>6 DEF GroupCell
  <2>4. Suffix(back + 1)'
    BY <1>6, <2>2, Prepend DEF GroupCell, Available, ChainInv
  <2>5. back <= MaxSize /\ back > 3
    BY <1>1, <2>1, <2>2 DEF ChainInv, TypeOK
  <2>6. LastProofs \in Seq(1..MaxSize)
    <3>1. \A i \in 1..3 : back - 3 + i \in 1..MaxSize
      BY <1>1, <2>5
    <3> QED
      BY <3>1 DEF LastProofs
  <2>7. child' \in Cells
    BY <1>1, <2>3, <2>6 DEF Cells
  <2>8. TypeOK'
    BY <1>1, <2>1, <2>2, <2>3, <2>5, <2>7 DEF ChainInv, TypeOK
  <2>9. Packing'
    BY <1>1, <2>1, <2>2, <2>3, <2>4 DEF Packing, Rest, Suffix
  <2> QED
    BY <2>8, <2>9 DEF ChainInv
<1>7. CASE Panic
  <2>1. /\ stage = "group" /\ groups > 0 /\ ~(back - front + 1 >= 3) /\ stage' = "panic"
        /\ UNCHANGED <<size, head, front, back, left, groups, leaf, child>>
    BY <1>7 DEF Panic, Available, Remaining
  <2>2. size > 0 /\ Rest # 0 /\ groups = (size - 1) \div 3
    BY <1>1, <2>1 DEF ChainInv, Packing
  <2>3. size > 4
    <3>1. groups >= 1 /\ Rest >= 1 /\ size - 1 = 3 * groups + Rest
      BY <1>1, <1>2, <2>1, <2>2
    <3>2. Rest \in Nat
      BY <1>1, <1>2, <2>2
    <3> QED
      BY <1>1, <3>1, <3>2
  <2> QED
    BY <2>1, <2>2, <2>3 DEF ChainInv, TypeOK, Packing, Rest
<1>8. CASE Finish
  <2>1. /\ stage = "group" /\ groups = 0 /\ stage' = "done"
        /\ UNCHANGED <<size, head, front, back, left, groups, leaf, child>>
    BY <1>8 DEF Finish
  <2>2. size > 0 /\ Suffix(2)
    <3>1. CASE Rest = 0
      BY <1>1, <2>1, <3>1 DEF ChainInv, Packing
    <3>2. CASE Rest # 0
      <4>1. /\ size > 0 /\ groups = (size - 1) \div 3 /\ Suffix(size + 1 - Rest)
        BY <2>1, <3>2 DEF ChainInv, Packing
      <4>2. size + 1 - Rest = 2
        BY <1>1, <1>2, <2>1, <4>1
      <4> QED
        BY <4>1, <4>2
    <3> QED
      BY <3>1, <3>2
  <2>3. Suffix(2)'
    BY <2>1, <2>2 DEF Suffix, Contiguous
  <2>4. Packs(size)
    <3>1. CASE Rest = 0
      BY <3>1 DEF Packs, Rest
    <3>2. CASE Rest # 0
      <4>1. size > 0 /\ (size - 1) \div 3 = 0
        BY <2>1, <3>2 DEF ChainInv, Packing
      <4>2. size <= 4
        BY <1>1, <1>2, <4>1
      <4> QED
        BY <4>2 DEF Packs
    <3> QED
      BY <3>1, <3>2
  <2>5. Packs(size)'
    BY <2>1, <2>4 DEF Packs
  <2> QED
    BY <2>1, <2>3, <2>5 DEF ChainInv, TypeOK, Packing
<1>9. CASE UNCHANGED chainVars
  BY <1>9 DEF chainVars, ChainInv, TypeOK, Packing, Rest, Suffix, Contiguous
<1> QED
  BY <1>3, <1>4, <1>5, <1>6, <1>7, <1>8, <1>9 DEF ChainNext

LEMMA ChainInductive == ChainSpec => []ChainInv
BY ChainInitInv, ChainStepInv, PTL DEF ChainSpec

\* What is built of any number of shard blocks is those blocks in order
\* (make_proof_chain), when anything is built.
THEOREM ChainReadsBack == ChainSpec => []ReadsBack
<1>1. ChainInv => ReadsBack
  BY DEF ChainInv, TypeOK, Packing, Suffix, ReadsBack
<1> QED
  BY ChainInductive, <1>1, PTL

\* store_reference never meets a full cell.
THEOREM ChainCellsFit == ChainSpec => []CellsFit
<1>1. ChainInv => CellsFit
  <2> SUFFICES ASSUME ChainInv, NEW k \in DOMAIN child
               PROVE  /\ Len(child[k]) > 0
                      /\ Len(child[k]) + (IF k < Len(child) THEN 1 ELSE 0) <= MaxRefs
    BY DEF CellsFit
  <2>1. Len(child[k]) \in 1..3
    BY DEF ChainInv, Packing, PerCell
  <2> QED
    <3> DEFINE n == Len(child[k])
    <3>1. n > 0 /\ n + 0 <= MaxRefs /\ n + 1 <= MaxRefs
      <4>1. n \in 1..3
        BY <2>1
      <4> HIDE DEF n
      <4> QED
        BY <4>1 DEF MaxRefs
    <3> QED
      BY <3>1
<1> QED
  BY ChainInductive, <1>1, PTL

\* The panic meets just the chains of five shard blocks or more that leave a cell
\* partly filled, for chains of every length.
THEOREM WholeCellsArePacked == ChainSpec => []PacksWholeCells
<1>1. ChainInv => PacksWholeCells
  <2> SUFFICES ASSUME ChainInv, stage = "panic" PROVE ~Packs(size)
    BY DEF ChainInv, Packing, PacksWholeCells
  <2>1. size \in Nat /\ size > 4 /\ (size - 1) % PerCell # 0
    BY DEF ChainInv, TypeOK, Packing, Rest
  <2> QED
    BY <2>1 DEF Packs
<1> QED
  BY ChainInductive, <1>1, PTL

-------------------------------------------------------------------------------
(* Pruned blocks. *)

\* What has been stored of the block.
StoredInv ==
  /\ block \in Blocks
  /\ pc \in {"full", "stored", "descr"}
  /\ pc # "full" =>
       /\ Storable(block)
       /\ pruned = PrunedParts(block)
       /\ pivot = PivotParts(block)
       /\ index = block.txs
  /\ pc # "stored" => answer = NoAnswer

\* The bits of the shard that are left below depth n.
Left(s, n) ==
  [i \in Bits |-> IF i < Len(s) + 1 - n THEN s[n + i] ELSE IF i = Len(s) + 1 - n THEN 1 ELSE 0]

\* The search has come down the shard's own path, and has read it.
DescrInv ==
  pc = "descr" =>
    /\ InMasterchain(block)
    /\ shard \in Shards
    /\ \E n \in 1..Len(shard) :
         /\ root = SubSeq(shard, 1, n)
         /\ prefix = Left(shard, n)
         /\ visited = McParts(block) \cup {Node(SubSeq(shard, 1, m)) : m \in 1..n - 1}

PrunedInv == StoredInv /\ DescrInv /\ PruningIsTransparent /\ ExactShard

-------------------------------------------------------------------------------
(* Parts. *)

LEMMA Formats ==
  ASSUME NEW b \in Blocks
  PROVE  /\ b.format \in {"ton", "tycho", "legacy"} /\ b.txs \subseteq Txs
         /\ InMasterchain(b) => LoadInfo(b).ok /\ LoadDescr(b)
         /\ InMasterchain(b) =>
              \A s, t \in DOMAIN b.custom.tops : IsShard(s) /\ ~IsStrictPrefix(s, t)
BY PrunedAssumption

\* The cells of the extra that a reader goes through.
LEMMA ExtraParts ==
  ASSUME NEW b \in Blocks, LoadExtra(b).ok
  PROVE  /\ LoadExtra(b).reads \subseteq AllParts(b)
         /\ LoadExtra(b).reads \subseteq {<<"extra">>, <<"extra", "wrapper">>}
<1>1. b.format \in {"ton", "tycho", "legacy"}
  BY Formats
<1>2. LoadExtra(b).reads \subseteq {<<"extra">>, <<"extra", "wrapper">>}
  BY <1>1 DEF LoadExtra, TonExtra, TychoExtra, LegacyExtra
<1>3. <<"extra", "wrapper">> \in LoadExtra(b).reads => b.extra.wrapped
  <2>1. b.format = "legacy" /\ b.extra.version = 2 => b.extra.wrapped
    BY PrunedAssumption
  <2> QED
    BY <1>1, <2>1 DEF LoadExtra, TonExtra, TychoExtra, LegacyExtra
<1> QED
  BY <1>2, <1>3 DEF AllParts

\* The way back is one of the header's references.
LEMMA PrevRef ==
  ASSUME NEW b \in Blocks, InMasterchain(b)
  PROVE  <<"info", LoadInfo(b).prev_ref>> \in InfoAll(b)
<1>1. InfoRefs(b)[1] = "prev_ref" /\ 1 \in DOMAIN InfoRefs(b)
  BY DEF InfoRefs
<1>2. LoadInfo(b).prev_ref = InfoRefs(b)[1]
  BY Formats DEF LoadInfo, TonInfo, TychoInfo, LegacyInfo, ReadInfo
<1>3. LoadInfo(b).prev_ref \in Range(InfoRefs(b))
  BY <1>1, <1>2 DEF Range
<1> QED
  BY <1>3 DEF InfoAll

\* A transaction's path is among the cells exactly if the transaction is.
LEMMA TxParts ==
  ASSUME NEW b \in Blocks, Storable(b), NEW t \in Txs
  PROVE  /\ {Account(t[1]), Tx(t)} \subseteq AllParts(b) <=> t \in b.txs
         /\ {Account(t[1]), Tx(t)} \subseteq PrunedParts(b) <=> t \in b.txs
<1>1. \A u \in b.txs : Tx(t) = Tx(u) => t = u
  BY Formats DEF Tx, Txs
<1>2. /\ Tx(t) \notin {<<"block">>, <<"extra">>, <<"accounts">>, <<"custom">>, <<"info">>, <<"extra", "wrapper">>}
      /\ \A a : Tx(t) # Account(a) /\ Tx(t) # <<"info", a>> /\ Tx(t) # Node(a)
  BY DEF Tx, Account, Node
<1>3. Tx(t) \notin InfoAll(b)
  BY <1>2 DEF InfoAll, Info
<1>4. Tx(t) \in AllParts(b) => t \in b.txs
  BY <1>1, <1>2, <1>3 DEF AllParts
<1>5. Tx(t) \notin LoadExtra(b).reads
  BY <1>2, ExtraParts DEF Storable
<1>6. Tx(t) \in PrunedParts(b) => t \in b.txs
  BY <1>1, <1>2, <1>3, <1>5 DEF PrunedParts
<1>7. t \in b.txs => /\ {Account(t[1]), Tx(t)} \subseteq AllParts(b)
                    /\ {Account(t[1]), Tx(t)} \subseteq PrunedParts(b)
  BY DEF AllParts, PrunedParts
<1> QED
  BY <1>4, <1>6, <1>7

LEMMA NodeParts ==
  ASSUME NEW b \in Blocks, Storable(b), InMasterchain(b), NEW s
  PROVE  Node(s) \in PivotParts(b) <=> s \in Nodes(b)
<1>1. \A r : Node(s) = Node(r) => s = r
  BY DEF Node
<1>2. /\ Node(s) \notin {<<"block">>, <<"extra">>, <<"custom">>, <<"info">>, <<"extra", "wrapper">>}
      /\ \A a : Node(s) # <<"info", a>>
  BY DEF Node
<1>3. Node(s) \notin InfoAll(b)
  BY <1>2 DEF InfoAll, Info
<1>4. Node(s) \notin LoadExtra(b).reads
  BY <1>2, ExtraParts DEF Storable
<1> QED
  BY <1>1, <1>2, <1>3, <1>4 DEF PivotParts

\* make_tx_proof, wherever it finds what it has to read.
LEMMA TxAnswer ==
  ASSUME NEW b \in Blocks, Storable(b), NEW t \in Txs, NEW there,
         {<<"block">>, <<"accounts">>} \cup LoadExtra(b).reads \subseteq there,
         InMasterchain(b) => InfoAll(b) \subseteq there,
         {Account(t[1]), Tx(t)} \subseteq there <=> t \in b.txs
  PROVE  TxProof(b, there, t, InMasterchain(b)) =
           IF t \in b.txs
           THEN Proof({<<"block">>, <<"accounts">>} \cup LoadExtra(b).reads
                        \cup (IF InMasterchain(b) THEN Info ELSE {})
                        \cup (IF InMasterchain(b) THEN {<<"info", LoadInfo(b).prev_ref>>} ELSE {})
                        \cup {Account(t[1]), Tx(t)})
           ELSE Absent
<1> DEFINE parsed == {<<"block">>, <<"accounts">>} \cup LoadExtra(b).reads
                       \cup (IF InMasterchain(b) THEN Info ELSE {})
           data == IF InMasterchain(b) THEN {<<"info", LoadInfo(b).prev_ref>>} ELSE {}
           path == {Account(t[1]), Tx(t)}
<1>1. parsed \subseteq there /\ data \subseteq there
  BY PrevRef DEF InfoAll
<1>2. LoadBlock(b) /\ LoadExtra(b).ok /\ (InMasterchain(b) => LoadInfo(b).ok)
  BY Formats DEF Storable
<1>3. TxProof(b, there, t, InMasterchain(b)) =
        IF ~(path \subseteq there) THEN Absent ELSE Proof((parsed \cup data \cup path) \cap there)
  BY <1>1, <1>2 DEF TxProof
<1>4. path \subseteq there => (parsed \cup data \cup path) \cap there = parsed \cup data \cup path
  BY <1>1
<1> HIDE DEF parsed, data, path
<1>5. path \subseteq there <=> t \in b.txs
  BY DEF path
<1>6. TxProof(b, there, t, InMasterchain(b)) =
        IF t \in b.txs THEN Proof(parsed \cup data \cup path) ELSE Absent
  BY <1>3, <1>4, <1>5
<1> QED
  BY <1>6 DEF parsed, data, path

\* Pruning keeps what a transaction's proof needs, and changes none.
LEMMA SameTxProof ==
  ASSUME NEW b \in Blocks, Storable(b), NEW t \in Txs
  PROVE  LET full == TxProof(b, AllParts(b), t, InMasterchain(b)) IN
         /\ TxProof(b, PrunedParts(b), t, InMasterchain(b)) = full
         /\ full.status = IF t \in b.txs THEN "ok" ELSE "absent"
<1>1. /\ {<<"block">>, <<"accounts">>} \cup LoadExtra(b).reads \subseteq AllParts(b)
      /\ InMasterchain(b) => InfoAll(b) \subseteq AllParts(b)
  <2>1. LoadExtra(b).reads \subseteq AllParts(b)
    BY ExtraParts DEF Storable
  <2> QED
    BY <2>1 DEF AllParts
<1>2. /\ {<<"block">>, <<"accounts">>} \cup LoadExtra(b).reads \subseteq PrunedParts(b)
      /\ InMasterchain(b) => InfoAll(b) \subseteq PrunedParts(b)
  BY DEF PrunedParts
<1> DEFINE one == IF t \in b.txs
           THEN Proof({<<"block">>, <<"accounts">>} \cup LoadExtra(b).reads
                        \cup (IF InMasterchain(b) THEN Info ELSE {})
                        \cup (IF InMasterchain(b) THEN {<<"info", LoadInfo(b).prev_ref>>} ELSE {})
                        \cup {Account(t[1]), Tx(t)})
           ELSE Absent
<1>3. TxProof(b, AllParts(b), t, InMasterchain(b)) = one
  BY <1>1, TxParts, TxAnswer
<1>4. TxProof(b, PrunedParts(b), t, InMasterchain(b)) = one
  BY <1>2, TxParts, TxAnswer
<1>5. one.status = IF t \in b.txs THEN "ok" ELSE "absent"
  BY DEF Proof, Absent
<1> QED
  BY <1>3, <1>4, <1>5

LEMMA McReads ==
  ASSUME NEW b \in Blocks, Storable(b), InMasterchain(b)
  PROVE  McReadable(b, PivotParts(b))
<1>1. McParts(b) \subseteq PivotParts(b)
  BY DEF McParts, PivotParts, InfoAll
<1> QED
  BY <1>1, Formats DEF McReadable, Storable

-------------------------------------------------------------------------------
(* Shards. *)

LEMMA OnPath ==
  ASSUME NEW s, IsShard(s), NEW n \in 1..Len(s)
  PROVE  /\ SubSeq(s, 1, n) \in Seq(Int) /\ Len(SubSeq(s, 1, n)) = n
         /\ \A i \in 1..n : SubSeq(s, 1, n)[i] = s[i]
         /\ n = Len(s) => SubSeq(s, 1, n) = s
         /\ n < Len(s) => /\ IsStrictPrefix(SubSeq(s, 1, n), s)
                          /\ Append(SubSeq(s, 1, n), s[n + 1]) = SubSeq(s, 1, n + 1)
<1>1. s \in Seq(Int) /\ Len(s) \in Nat /\ n \in Int /\ \A i \in 1..Len(s) : s[i] \in Int
  BY DEF IsShard
<1>2. /\ SubSeq(s, 1, n) \in Seq(Int) /\ Len(SubSeq(s, 1, n)) = n
      /\ \A i \in 1..n : SubSeq(s, 1, n)[i] = s[i]
  <2>1. \A i \in 1..n : s[i] \in Int
    BY <1>1
  <2>2. /\ SubSeq(s, 1, n) \in Seq(Int)
        /\ Len(SubSeq(s, 1, n)) = IF 1 <= n THEN n - 1 + 1 ELSE 0
        /\ \A i \in 1..n - 1 + 1 : SubSeq(s, 1, n)[i] = s[1 + i - 1]
    BY <1>1, <2>1, SubSeqProperties
  <2>3. 1 <= n /\ n - 1 + 1 = n /\ \A i \in 1..n : 1 + i - 1 = i
    BY <1>1
  <2> QED
    BY <2>2, <2>3
<1>3. n = Len(s) => SubSeq(s, 1, n) = s
  BY <1>1, SubSeqFull
<1>4. ASSUME n < Len(s) PROVE IsStrictPrefix(SubSeq(s, 1, n), s)
  <2>1. SubSeq(SubSeq(s, 1, n), 1, Len(SubSeq(s, 1, n))) = SubSeq(s, 1, n)
    BY <1>2, SubSeqFull
  <2>2. Len(SubSeq(s, 1, n)) <= Len(s) /\ SubSeq(s, 1, n) # s
    BY <1>1, <1>2, <1>4
  <2> QED
    BY <1>2, <2>1, <2>2 DEF IsStrictPrefix, IsPrefix
<1>5. ASSUME n < Len(s) PROVE Append(SubSeq(s, 1, n), s[n + 1]) = SubSeq(s, 1, n + 1)
  <2>1. n + 1 \in 1..Len(s) /\ 1 \in 1..Len(s) /\ s[n + 1] \in Int /\ n + 1 - 1 = n
    BY <1>1, <1>5
  <2>2. SubSeq(s, 1, n + 1) = SubSeq(s, 1, n) \o <<s[n + 1]>>
    BY <1>1, <2>1, SubSeqRecursiveSecond
  <2>3. Append(SubSeq(s, 1, n), s[n + 1]) = SubSeq(s, 1, n) \o <<s[n + 1]>>
    BY <1>2, <2>1, AppendIsConcat
  <2> QED
    BY <2>2, <2>3
<1> QED
  BY <1>2, <1>3, <1>4, <1>5

\* The word left tells whether the search is over, and else its first bit where to go.
LEMMA LeftBits ==
  ASSUME NEW s, IsShard(s), NEW n \in 1..Len(s)
  PROVE  /\ Left(s, n) = HighBit <=> n = Len(s)
         /\ n < Len(s) => Left(s, n)[1] = s[n + 1] /\ Shifted(Left(s, n)) = Left(s, n + 1)
         /\ Left(s, 1) = PrefixOf(s)
<1>1. Len(s) \in 1..Width /\ Width \in Nat \ {0} /\ Len(s) \in Nat /\ n \in Nat
  BY PrunedAssumption DEF IsShard, Bits
<1>2. n = Len(s) => Left(s, n) = HighBit
  <2> SUFFICES ASSUME n = Len(s) PROVE Left(s, n) = HighBit
    OBVIOUS
  <2>1. Len(s) + 1 - n = 1
    BY <1>1
  <2>2. \A i \in Bits : /\ ~(i < Len(s) + 1 - n)
                        /\ i = Len(s) + 1 - n <=> i = 1
    BY <1>1, <2>1 DEF Bits
  <2> QED
    BY <2>2 DEF Left, HighBit
<1>3. ASSUME n < Len(s) PROVE Left(s, n) # HighBit /\ Left(s, n)[1] = s[n + 1]
  <2> DEFINE end == Len(s) + 1 - n
  <2>1. end \in Bits /\ end > 1 /\ 1 \in Bits
    BY <1>1, <1>3 DEF Bits
  <2>2. Left(s, n)[end] = 1 /\ Left(s, n)[1] = s[n + 1]
    BY <1>1, <2>1 DEF Left
  <2>3. HighBit[end] = 0
    BY <2>1 DEF HighBit
  <2> QED
    BY <2>2, <2>3
<1>4. ASSUME n < Len(s) PROVE Shifted(Left(s, n)) = Left(s, n + 1)
  <2>1. ASSUME NEW i \in Bits PROVE Shifted(Left(s, n))[i] = Left(s, n + 1)[i]
    <3>1. i \in Nat /\ i <= Width /\ i >= 1
      BY <1>1 DEF Bits
    <3>2. CASE i < Width
      <4>1. i + 1 \in Bits /\ n + (i + 1) = (n + 1) + i
        BY <1>1, <3>1, <3>2 DEF Bits
      <4>2. /\ i + 1 < Len(s) + 1 - n <=> i < Len(s) + 1 - (n + 1)
            /\ i + 1 = Len(s) + 1 - n <=> i = Len(s) + 1 - (n + 1)
        BY <1>1, <3>1
      <4>3. Shifted(Left(s, n))[i] = Left(s, n)[i + 1]
        BY <3>2 DEF Shifted
      <4> QED
        BY <4>1, <4>2, <4>3 DEF Left
    <3>3. CASE i = Width
      <4>1. ~(i < Len(s) + 1 - (n + 1)) /\ i # Len(s) + 1 - (n + 1)
        BY <1>1, <3>3
      <4> QED
        BY <3>3, <4>1, <1>1 DEF Left, Shifted
    <3> QED
      BY <1>1, <3>1, <3>2, <3>3
  <2>2. /\ Shifted(Left(s, n)) = [i \in Bits |-> Shifted(Left(s, n))[i]]
        /\ Left(s, n + 1) = [i \in Bits |-> Left(s, n + 1)[i]]
    BY DEF Shifted, Left
  <2> QED
    BY <2>1, <2>2
<1>5. Left(s, 1) = PrefixOf(s)
  <2>1. Len(s) + 1 - 1 = Len(s) /\ \A i \in Bits : 1 + i = i + 1
    BY <1>1 DEF Bits
  <2> QED
    BY <2>1 DEF Left, PrefixOf
<1> QED
  BY <1>1, <1>2, <1>3, <1>4, <1>5

\* What the masterchain block knows of a shard, by the cells of its tree.
LEMMA KnownShard ==
  ASSUME NEW b \in Blocks, InMasterchain(b), NEW s, IsShard(s)
  PROVE  /\ s \in DOMAIN b.custom.tops =>
              /\ \A n \in 1..Len(s) : SubSeq(s, 1, n) \in Nodes(b)
              /\ \A below \in DOMAIN b.custom.tops : ~IsStrictPrefix(s, below)
         /\ s \in Nodes(b) /\ (\A below \in DOMAIN b.custom.tops : ~IsStrictPrefix(s, below))
              => s \in DOMAIN b.custom.tops
<1>1. s \in DOMAIN b.custom.tops =>
        /\ \A n \in 1..Len(s) : SubSeq(s, 1, n) \in Nodes(b)
        /\ \A below \in DOMAIN b.custom.tops : ~IsStrictPrefix(s, below)
  BY Formats DEF Nodes
<1>2. ASSUME s \in Nodes(b), \A below \in DOMAIN b.custom.tops : ~IsStrictPrefix(s, below)
      PROVE  s \in DOMAIN b.custom.tops
  <2>1. PICK below \in DOMAIN b.custom.tops : \E n \in 1..Len(below) : s = SubSeq(below, 1, n)
    BY <1>2 DEF Nodes
  <2>2. PICK n \in 1..Len(below) : s = SubSeq(below, 1, n)
    BY <2>1
  <2>3. IsShard(below)
    BY Formats
  <2>4. n = Len(below) \/ n < Len(below)
    BY <2>3 DEF IsShard, Bits
  <2>5. ~(n < Len(below))
    BY <1>2, <2>2, <2>3, OnPath
  <2>6. s = below
    BY <2>2, <2>3, <2>4, <2>5, OnPath
  <2> QED
    BY <2>6
<1> QED
  BY <1>1, <1>2

-------------------------------------------------------------------------------
(* Steps. *)

LEMMA StoreStep == ASSUME PrunedInv, StoreBlock PROVE PrunedInv'
<1>1. /\ pc = "full" /\ pc' = "stored" /\ Storable(block)
      /\ pruned' = PrunedParts(block) /\ pivot' = PivotParts(block) /\ index' = block.txs
      /\ UNCHANGED <<block, answer>>
  BY DEF StoreBlock
<1>2. block \in Blocks /\ answer = NoAnswer
  BY <1>1 DEF PrunedInv, StoredInv
<1>3. StoredInv'
  BY <1>1, <1>2 DEF StoredInv
<1>4. answer'.to = "nobody"
  BY <1>1, <1>2 DEF NoAnswer
<1> QED
  BY <1>1, <1>3, <1>4 DEF PrunedInv, DescrInv, PruningIsTransparent, ExactShard

LEMMA ProveStep == ASSUME PrunedInv, NEW t \in Txs, ProveTx(t) PROVE PrunedInv'
<1>1. /\ pc = "stored" /\ UNCHANGED <<block, pruned, pivot, index, pc>>
      /\ answer' = [to |-> "tx", about |-> t, is |-> TxProof(block, pruned, t, InMasterchain(block))]
  BY DEF ProveTx, stored
<1>2. /\ block \in Blocks /\ Storable(block) /\ pruned = PrunedParts(block)
      /\ index = block.txs
  BY <1>1 DEF PrunedInv, StoredInv
<1>3. StoredInv' /\ DescrInv'
  BY <1>1 DEF PrunedInv, StoredInv, DescrInv
<1>4. PruningIsTransparent'
  <2>1. answer'.to = "tx" /\ answer'.about = t
        /\ answer'.is = TxProof(block, PrunedParts(block), t, InMasterchain(block))
    BY <1>1, <1>2
  <2>2. /\ answer'.is = TxProof(block, AllParts(block), t, InMasterchain(block))
        /\ TxProof(block, AllParts(block), t, InMasterchain(block)).status
             = IF t \in block.txs THEN "ok" ELSE "absent"
    BY <1>2, <2>1, SameTxProof
  <2> QED
    BY <1>1, <1>2, <2>1, <2>2 DEF PruningIsTransparent
<1>5. ExactShard'
  BY <1>1 DEF ExactShard
<1> QED
  BY <1>3, <1>4, <1>5 DEF PrunedInv

LEMMA BoundStep == ASSUME PrunedInv, FindBound PROVE PrunedInv'
<1>1. /\ pc = "stored" /\ InMasterchain(block) /\ UNCHANGED <<block, pruned, pivot, index, pc>>
      /\ answer' = [to |-> "bound", is |-> TopShardBlocks(block, pivot)]
  BY DEF FindBound, stored
<1>2. /\ block \in Blocks /\ Storable(block) /\ pivot = PivotParts(block)
      /\ index = block.txs
  BY <1>1 DEF PrunedInv, StoredInv
<1>3. StoredInv' /\ DescrInv'
  BY <1>1 DEF PrunedInv, StoredInv, DescrInv
<1>4. TopShardBlocks(block, pivot) = [status |-> "ok", tops |-> block.custom.tops]
  BY <1>1, <1>2, McReads, NodeParts DEF TopShardBlocks
<1>5. PruningIsTransparent' /\ ExactShard'
  BY <1>1, <1>2, <1>4 DEF PruningIsTransparent, ExactShard
<1> QED
  BY <1>3, <1>5 DEF PrunedInv

\* An answer about a shard, given by the search.
LEMMA FinishStep ==
  ASSUME PrunedInv, pc = "descr", NEW is, NEW seqno, FinishMc(is, seqno),
         UNCHANGED <<block, stored, shard>>,
         IF shard \in DOMAIN block.custom.tops
         THEN /\ is = Proof(McParts(block) \cup {Node(SubSeq(shard, 1, n)) : n \in 1..Len(shard)})
              /\ seqno = block.custom.tops[shard]
         ELSE is = Failed
  PROVE  PrunedInv'
<1>1. /\ pc' = "stored" /\ UNCHANGED <<block, pruned, pivot, index>>
      /\ answer' = [to |-> "mc", about |-> shard, is |-> is, seqno |-> seqno]
  BY DEF FinishMc, stored
<1>2. StoredInv' /\ DescrInv'
  BY <1>1 DEF PrunedInv, StoredInv, DescrInv
<1>3. PruningIsTransparent'
  BY <1>1 DEF PrunedInv, StoredInv, PruningIsTransparent
<1>4. ExactShard'
  BY <1>1 DEF ExactShard
<1> QED
  BY <1>2, <1>3, <1>4 DEF PrunedInv

LEMMA McStep == ASSUME PrunedInv, NEW s \in Shards, MakeMcProof(s) PROVE PrunedInv'
<1>1. /\ pc = "stored" /\ InMasterchain(block) /\ shard' = s
      /\ UNCHANGED <<block, pruned, pivot, index>>
  BY DEF MakeMcProof, stored
<1>2. /\ block \in Blocks /\ Storable(block) /\ pivot = PivotParts(block)
      /\ index = block.txs /\ IsShard(s)
  BY <1>1, PrunedAssumption DEF PrunedInv, StoredInv
<1>3. McReadable(block, pivot)
  BY <1>1, <1>2, McReads
<1>4. Len(s) \in Nat \ {0} /\ 1 \in 1..Len(s)
  BY <1>2 DEF IsShard, Bits
<1>5. CASE SubSeq(s, 1, 1) \in Nodes(block)
  <2>1. /\ pc' = "descr" /\ root' = SubSeq(s, 1, 1) /\ prefix' = PrefixOf(s)
        /\ visited' = McParts(block) /\ answer' = NoAnswer
    BY <1>3, <1>5 DEF MakeMcProof
  <2>2. StoredInv'
    BY <1>1, <2>1 DEF PrunedInv, StoredInv
  <2>3. DescrInv'
    <3>1. prefix' = Left(s, 1)
      BY <1>2, <1>4, <2>1, LeftBits
    <3>2. visited' = McParts(block) \cup {Node(SubSeq(s, 1, m)) : m \in 1..1 - 1}
      BY <2>1
    <3> QED
      BY <1>1, <1>4, <2>1, <3>1, <3>2 DEF DescrInv, Left
  <2>4. answer'.to = "nobody"
    BY <2>1 DEF NoAnswer
  <2>5. PruningIsTransparent' /\ ExactShard'
    BY <1>1, <1>2, <2>4 DEF PruningIsTransparent, ExactShard
  <2> QED
    BY <2>2, <2>3, <2>5 DEF PrunedInv
<1>6. CASE SubSeq(s, 1, 1) \notin Nodes(block)
  <2>1. /\ pc' = pc /\ answer' = [to |-> "mc", about |-> s, is |-> Failed, seqno |-> 0]
    BY <1>6 DEF MakeMcProof
  <2>2. s \notin DOMAIN block.custom.tops
    BY <1>1, <1>2, <1>4, <1>6, KnownShard
  <2>3. StoredInv' /\ DescrInv'
    BY <1>1, <2>1 DEF PrunedInv, StoredInv, DescrInv
  <2>4. PruningIsTransparent' /\ ExactShard'
    BY <1>1, <1>2, <2>1, <2>2 DEF PruningIsTransparent, ExactShard
  <2> QED
    BY <2>3, <2>4 DEF PrunedInv
<1> QED
  BY <1>5, <1>6

LEMMA SearchStep == ASSUME PrunedInv, Descend \/ ReadDescr PROVE PrunedInv'
<1>1. pc = "descr" /\ UNCHANGED <<block, stored, shard>>
  BY DEF Descend, ReadDescr
<1>2. /\ block \in Blocks /\ Storable(block) /\ pivot = PivotParts(block)
      /\ InMasterchain(block) /\ shard \in Shards /\ IsShard(shard)
      /\ index = block.txs /\ answer = NoAnswer
  BY <1>1, PrunedAssumption DEF PrunedInv, StoredInv, DescrInv
<1>3. PICK n \in 1..Len(shard) :
        /\ root = SubSeq(shard, 1, n)
        /\ prefix = Left(shard, n)
        /\ visited = McParts(block) \cup {Node(SubSeq(shard, 1, m)) : m \in 1..n - 1}
  BY <1>1 DEF PrunedInv, DescrInv
<1>4. Len(shard) \in Nat /\ n \in Nat /\ n >= 1 /\ n <= Len(shard)
  BY <1>2, <1>3 DEF IsShard, Bits
<1>5. visited \cup {Node(root)} = McParts(block) \cup {Node(SubSeq(shard, 1, m)) : m \in 1..n}
  <2>1. 1..n = (1..n - 1) \cup {n}
    BY <1>4
  <2> QED
    BY <1>3, <2>1
<1>6. Node(root) \in pivot <=> root \in Nodes(block)
  BY <1>2, NodeParts
<1>7. IsFork(root) <=> \E below \in DOMAIN block.custom.tops : IsStrictPrefix(root, below)
  BY DEF IsFork
<1>8. CASE Descend
  <2>1. n < Len(shard)
    BY <1>2, <1>3, <1>4, <1>8, LeftBits DEF Descend
  <2>2. CASE Node(root) \in pivot /\ IsFork(root)
    <3>1. /\ root' = Append(root, prefix[1]) /\ prefix' = Shifted(prefix)
          /\ visited' = visited \cup {Node(root)} /\ pc' = pc /\ answer' = answer
      BY <1>8, <2>2 DEF Descend
    <3>2. root' = SubSeq(shard, 1, n + 1) /\ prefix' = Left(shard, n + 1)
      BY <1>2, <1>3, <2>1, <3>1, OnPath, LeftBits
    <3>3. n + 1 \in 1..Len(shard) /\ n + 1 - 1 = n
      BY <1>4, <2>1
    <3>4. visited' = McParts(block) \cup {Node(SubSeq(shard, 1, m)) : m \in 1..(n + 1) - 1}
      BY <1>5, <3>1, <3>3
    <3>5. DescrInv'
      <4> DEFINE At(k) ==
            /\ root' = SubSeq(shard', 1, k)
            /\ prefix' = Left(shard', k)
            /\ visited' = McParts(block') \cup {Node(SubSeq(shard', 1, m)) : m \in 1..k - 1}
      <4>1. At(n + 1)
        BY <1>1, <3>2, <3>4
      <4>2. \E k \in 1..Len(shard') : At(k)
        <5> HIDE DEF At
        <5> QED
          BY <1>1, <3>3, <4>1
      <4>3. InMasterchain(block') /\ shard' \in Shards
        BY <1>1, <1>2
      <4> QED
        BY <4>2, <4>3 DEF DescrInv, InMasterchain, McParts, Left, Node
    <3>6. StoredInv'
      BY <1>1, <3>1 DEF PrunedInv, StoredInv, stored
    <3>7. answer'.to = "nobody"
      BY <1>2, <3>1 DEF NoAnswer
    <3>8. PruningIsTransparent' /\ ExactShard'
      BY <1>1, <1>2, <3>7 DEF PruningIsTransparent, ExactShard, stored
    <3> QED
      BY <3>5, <3>6, <3>8 DEF PrunedInv
  <2>3. CASE ~(Node(root) \in pivot /\ IsFork(root))
    <3>1. FinishMc(Failed, 0)
      BY <1>8, <2>3 DEF Descend
    <3>2. shard \notin DOMAIN block.custom.tops
      <4>1. IsStrictPrefix(root, shard)
        BY <1>2, <1>3, <2>1, OnPath
      <4> QED
        BY <1>2, <1>3, <1>6, <1>7, <2>3, <4>1, KnownShard
    <3> QED
      BY <1>1, <3>1, <3>2, FinishStep
  <2> QED
    BY <2>2, <2>3
<1>9. CASE ReadDescr
  <2>1. n = Len(shard) /\ root = shard
    <3>1. Left(shard, n) = HighBit
      BY <1>3, <1>9 DEF ReadDescr
    <3>2. n = Len(shard)
      BY <1>2, <1>3, <3>1, LeftBits
    <3>3. SubSeq(shard, 1, n) = shard
      BY <1>2, <1>3, <3>2, OnPath
    <3> QED
      BY <1>3, <3>2, <3>3
  <2>2. Node(root) \in pivot /\ ~IsFork(root) <=> shard \in DOMAIN block.custom.tops
    <3>1. shard \in Nodes(block) /\ ~IsFork(root) => shard \in DOMAIN block.custom.tops
      BY <1>2, <1>7, <2>1, KnownShard
    <3>2. shard \in DOMAIN block.custom.tops => shard \in Nodes(block) /\ ~IsFork(root)
      BY <1>2, <1>3, <1>7, <2>1, KnownShard
    <3> QED
      BY <1>6, <2>1, <3>1, <3>2
  <2>3. CASE Node(root) \in pivot /\ ~IsFork(root)
    <3>1. FinishMc(Proof(visited \cup {Node(root)}), block.custom.tops[root])
      BY <1>2, <1>9, <2>3, Formats DEF ReadDescr
    <3> QED
      BY <1>1, <1>5, <2>1, <2>2, <2>3, <3>1, FinishStep
  <2>4. CASE ~(Node(root) \in pivot /\ ~IsFork(root))
    <3>1. FinishMc(Failed, 0)
      BY <1>9, <2>4 DEF ReadDescr
    <3> QED
      BY <1>1, <2>2, <2>4, <3>1, FinishStep
  <2> QED
    BY <2>3, <2>4
<1> QED
  BY <1>8, <1>9

LEMMA PrunedInductive == Spec => []PrunedInv
<1>1. Init => PrunedInv
  <2> SUFFICES ASSUME Init PROVE PrunedInv
    OBVIOUS
  <2>1. answer.to = "nobody"
    BY DEF Init, NoAnswer
  <2> QED
    BY <2>1 DEF Init, PrunedInv, StoredInv, DescrInv, PruningIsTransparent, ExactShard
<1>2. ASSUME PrunedInv, [Next]_vars PROVE PrunedInv'
  <2>1. CASE UNCHANGED vars
    BY <1>2, <2>1 DEF vars, PrunedInv, StoredInv, DescrInv, PruningIsTransparent, ExactShard, Left
  <2> QED
    BY <1>2, <2>1, StoreStep, ProveStep, BoundStep, McStep, SearchStep DEF Next
<1> QED
  BY <1>1, <1>2, PTL DEF Spec

\* What is kept of a block answers like the full one, for every block of the three
\* networks (make_pruned_block and make_pivot_block_proof against their readers).
THEOREM PruningIsTransparentHolds == Spec => []PruningIsTransparent
<1>1. PrunedInv => PruningIsTransparent
  BY DEF PrunedInv
<1> QED
  BY <1>1, PrunedInductive, PTL

\* For every shard tree and every width of the prefix, the masterchain proof is of
\* the very shard asked for (make_mc_proof, find_shard_descr).
THEOREM ExactShardHolds == Spec => []ExactShard
<1>1. PrunedInv => ExactShard
  BY DEF PrunedInv
<1> QED
  BY <1>1, PrunedInductive, PTL
===============================================================================
