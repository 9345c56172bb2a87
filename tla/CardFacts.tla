----------------------------- MODULE CardFacts ------------------------------
(***************************************************************************)
(* Facts about finite sets and natural numbers that the counting arguments *)
(* use.  A lemma that counts assumes CardFacts, and every module of proofs *)
(* derives it from the library, once, before its theorems: the library in  *)
(* the context of every proof step would make all of them slow.            *)
(***************************************************************************)
EXTENDS Integers, FiniteSets

CardEmpty ==
  /\ IsFiniteSet({}) /\ Cardinality({}) = 0
  /\ \A S : IsFiniteSet(S) => (Cardinality(S) = 0 <=> S = {})
CardOne == \A x : IsFiniteSet({x}) /\ Cardinality({x}) = 1
CardType == \A S : IsFiniteSet(S) => Cardinality(S) \in Nat
CardAdd ==
  \A S, x : IsFiniteSet(S) =>
    /\ IsFiniteSet(S \cup {x})
    /\ Cardinality(S \cup {x}) = IF x \in S THEN Cardinality(S) ELSE Cardinality(S) + 1
CardRemove ==
  \A S, x : IsFiniteSet(S) =>
    /\ IsFiniteSet(S \ {x})
    /\ Cardinality(S \ {x}) = IF x \in S THEN Cardinality(S) - 1 ELSE Cardinality(S)
CardSubset ==
  \A S : IsFiniteSet(S) => \A T \in SUBSET S : IsFiniteSet(T) /\ Cardinality(T) <= Cardinality(S)
CardUnion ==
  \A S, T : IsFiniteSet(S) /\ IsFiniteSet(T) =>
    /\ IsFiniteSet(S \cup T)
    /\ Cardinality(S \cup T) = Cardinality(S) + Cardinality(T) - Cardinality(S \cap T)
CardProduct == \A S, T : IsFiniteSet(S) /\ IsFiniteSet(T) => IsFiniteSet(S \X T)
CardInterval ==
  \A a, b \in Int : IsFiniteSet(a .. b) /\ Cardinality(a .. b) = IF a > b THEN 0 ELSE b - a + 1

(* A set that maps one to one into a finite set is not larger than it. *)
OneToOne(f, S) == \A x, y \in S : f[x] = f[y] => x = y
CardInjection ==
  \A S, T : \A f \in [S -> T] :
    IsFiniteSet(T) /\ OneToOne(f, S) => IsFiniteSet(S) /\ Cardinality(S) <= Cardinality(T)

NatMin == \A T \in SUBSET Nat : T # {} => \E x \in T : \A y \in T : x <= y

CardFacts ==
  /\ CardEmpty /\ CardOne /\ CardType /\ CardAdd /\ CardRemove
  /\ CardSubset /\ CardUnion /\ CardProduct /\ CardInterval /\ CardInjection /\ NatMin
=============================================================================
