------------------------------ MODULE ErrorSet ------------------------------
(***************************************************************************)
(* The validator's ErrorSet (src/vendor/github.com/iotexproject/Bumblebee/ *)
(* kit/validator/errors/errors_set.go): a list of field errors, each a     *)
(* key path and an error that is a leaf or another ErrorSet.  AddErr      *)
(* appends one; Flatten, which Len, Error and ToErrorFields call, turns   *)
(* the tree into a list of leaves whose key paths are                     *)
(* append(f.Field, ff.Field...).                                           *)
(*                                                                         *)
(* A KeyPath is a Go slice, so the model keeps the heap of backing arrays:*)
(* a slice is [arr, len, cap] over an array of cap keys, and append       *)
(* writes in place when the slice has room and copies into a new array   *)
(* (of the capacity the runtime's growth rule gives) when it does not.   *)
(* AddErr's variadic keyPathNodes is a fresh array of exactly its length *)
(* when the caller lists the keys ("literal"), or the caller's own slice  *)
(* when it passes path... ; such a slice may have room to spare ("spare").*)
(*                                                                         *)
(* Set ids are numbered so that a set only contains sets of lower id: any *)
(* acyclic nesting can be numbered so.                                     *)
(***************************************************************************)
EXTENDS Naturals, Sequences, SequencesExt

CONSTANTS
    NSets,          \* number of ErrorSets
    Leaves,         \* leaf errors
    Keys,           \* key path nodes
    Forms,          \* how callers pass key paths: "literal", "spare"
    MaxErrs,        \* bound on the errors added to one set
    MaxAdds,        \* bound on the AddErr calls over all sets
    MaxFlattens,    \* bound on the Flatten calls
    NilErr,         \* the nil error
    Zero            \* the zero interface{} in an unused array slot

SetIds == 1..NSets
Slice == [arr : Nat, len : Nat, cap : Nat]
NilSlice == [arr |-> 0, len |-> 0, cap |-> 0]
KeySeqs == {<<>>} \cup {<<k>> : k \in Keys}

VARIABLES
    sets,   \* set id -> its errors, a sequence of [field : Slice, err]
    heap,   \* the backing arrays, each a sequence of cap slots
    flats   \* the Flatten results the callers hold: [expected, got]

vars == <<sets, heap, flats>>

TypeOK ==
    /\ sets \in [SetIds -> Seq([field : Slice, err : Leaves \cup SetIds])]
    /\ heap \in Seq(Seq(Keys \cup {Zero}))
    /\ \A s \in SetIds : \A i \in 1..Len(sets[s]) :
          sets[s][i].field.len <= sets[s][i].field.cap
    /\ flats \in Seq([expected : Seq([path : Seq(Keys), err : Leaves]),
                      got : Seq([field : Slice, err : Leaves])])

Init ==
    /\ sets = [s \in SetIds |-> <<>>]
    /\ heap = <<>>
    /\ flats = <<>>

(* The AddErr calls made so far.                                          *)
Adds == FoldLeft(LAMBDA n, s : n + Len(sets[s]), 0, [i \in SetIds |-> i])

(* The keys a slice shows.                                                  *)
Values(sl, h) == [i \in 1..sl.len |-> h[sl.arr][i]]

(* The capacity growslice picks for an append that does not fit: the     *)
(* needed length when it is more than double, double otherwise (small    *)
(* slices of interface{} need no rounding to a size class).               *)
NextSliceCap(newLen, oldCap) == IF newLen > 2 * oldCap THEN newLen ELSE 2 * oldCap

(* append(sl, xs...) on the heap h: [slice, heap].                         *)
GoAppend(sl, xs, h) ==
    LET n == sl.len + Len(xs) IN
    IF n <= sl.cap
    THEN [slice |-> [sl EXCEPT !.len = n],
          heap  |-> IF xs = <<>> THEN h
                    ELSE [h EXCEPT ![sl.arr] =
                            [i \in 1..sl.cap |-> IF i > sl.len /\ i <= n
                                                 THEN xs[i - sl.len] ELSE h[sl.arr][i]]]]
    ELSE LET c == NextSliceCap(n, sl.cap)
             vals == Values(sl, h) \o xs
         IN [slice |-> [arr |-> Len(h) + 1, len |-> n, cap |-> c],
             heap  |-> Append(h, [i \in 1..c |-> IF i <= n THEN vals[i] ELSE Zero])]

(* The slice AddErr receives as keyPathNodes, and the heap after the      *)
(* caller built it.                                                        *)
KeyPathArg(nodes, form, h) ==
    CASE form = "literal" /\ nodes = <<>> -> [slice |-> NilSlice, heap |-> h]
      [] form = "literal" ->
            [slice |-> [arr |-> Len(h) + 1, len |-> Len(nodes), cap |-> Len(nodes)],
             heap  |-> Append(h, nodes)]
      [] form = "spare" ->
            [slice |-> [arr |-> Len(h) + 1, len |-> Len(nodes), cap |-> Len(nodes) + 1],
             heap  |-> Append(h, nodes \o <<Zero>>)]

(* Mutant of Kept: the err == nil guard dropped.                          *)
KeptNil(err) == TRUE

(* AddErr returns at once for a nil error.                                 *)
Kept(err) == err # NilErr

(* ErrorSet.AddErr: a nil error is dropped; otherwise the error is        *)
(* appended with the key path slice as passed.                             *)
AddErr(s, err, nodes, form) ==
    LET arg == KeyPathArg(nodes, form, heap) IN
    /\ Kept(err)
    /\ Len(sets[s]) < MaxErrs /\ Adds < MaxAdds
    /\ sets' = [sets EXCEPT ![s] = Append(@, [field |-> arg.slice, err |-> err])]
    /\ heap' = arg.heap
    /\ UNCHANGED flats

(* Mutant of JoinField: the operands of append swapped.                   *)
JoinFieldSwapped(f, ff, h) == GoAppend(ff.field, Values(f.field, h), h)

(* append(f.Field, ff.Field...): the key path of a leaf ff of the sub-set *)
(* that f holds.                                                           *)
JoinField(f, ff, h) == GoAppend(f.field, Values(ff.field, h), h)

(* ErrorSet.Flatten on heap h: [errs, heap].  A sub-set is flattened      *)
(* first and its leaves are added under f's path; a leaf is added with    *)
(* f.Field itself.                                                         *)
RECURSIVE Flatten(_, _)
Flatten(s, h) ==
    FoldLeft(LAMBDA acc, f :
                 IF f.err \in SetIds
                 THEN LET sub == Flatten(f.err, acc.heap) IN
                      FoldLeft(LAMBDA acc2, ff :
                                   LET j == JoinField(f, ff, acc2.heap) IN
                                   [errs |-> Append(acc2.errs, [field |-> j.slice, err |-> ff.err]),
                                    heap |-> j.heap],
                               [errs |-> acc.errs, heap |-> sub.heap], sub.errs)
                 ELSE [errs |-> Append(acc.errs, f), heap |-> acc.heap],
             [errs |-> <<>>, heap |-> h], sets[s])

(* The leaves of set s with the keys of their whole path: the reference   *)
(* Flatten is measured against.                                            *)
RECURSIVE LeafPaths(_)
LeafPaths(s) ==
    FoldLeft(LAMBDA acc, f :
                 acc \o
                 (IF f.err \in SetIds
                  THEN LET sub == LeafPaths(f.err) IN
                       [i \in 1..Len(sub) |->
                           [path |-> Values(f.field, heap) \o sub[i].path, err |-> sub[i].err]]
                  ELSE <<[path |-> Values(f.field, heap), err |-> f.err]>>),
             <<>>, sets[s])

(* A caller flattens set s (through Len, Error or ToErrorFields) and      *)
(* keeps the result.                                                        *)
FlattenCall(s) ==
    LET r == Flatten(s, heap) IN
    /\ Len(flats) < MaxFlattens
    /\ heap' = r.heap
    /\ flats' = Append(flats, [expected |-> LeafPaths(s), got |-> r.errs])
    /\ UNCHANGED sets

Next ==
    \/ \E s \in SetIds, nodes \in KeySeqs, form \in Forms :
          \E err \in Leaves \cup {NilErr} \cup {t \in SetIds : t < s} :
             AddErr(s, err, nodes, form)
    \/ \E s \in SetIds : FlattenCall(s)

Spec == Init /\ [][Next]_vars

-----------------------------------------------------------------------------
(* Every Flatten result a caller holds lists each leaf of the tree, in    *)
(* order, under the keys of its whole path, and keeps doing so after      *)
(* later AddErr and Flatten calls.  The results share backing arrays with *)
(* the callers' key paths wherever append found room in them.              *)
FlattenKeepsPaths ==
    \A k \in 1..Len(flats) :
        LET r == flats[k] IN
        /\ Len(r.got) = Len(r.expected)
        /\ \A i \in 1..Len(r.got) :
              /\ Values(r.got[i].field, heap) = r.expected[i].path
              /\ r.got[i].err = r.expected[i].err
=============================================================================
