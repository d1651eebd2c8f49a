------------------------ MODULE OutboxProcessorProofs ------------------------
(***************************************************************************)
(* Proofs about OutboxProcessor for any number of processors, events and   *)
(* failures and any batch size: Inv is inductive, hence no event is lost,  *)
(* claims are exclusive and published rows are final; and DuplicateInv is  *)
(* inductive relative to it, hence duplicates are paid for by failures.    *)
(***************************************************************************)
EXTENDS OutboxProcessor, FiniteSetTheorems, SequenceTheorems, TLAPS

-----------------------------------------------------------------------------
(* Values                                                                   *)

\* A batch that shrinks stays within the batch size.
LEMMA SmallerBatch ==
  ASSUME NEW S \in SUBSET Events, NEW T \in SUBSET S, Cardinality(S) <= BatchSize
  PROVE  Cardinality(T) <= BatchSize
<1>1. IsFiniteSet(S)
  BY FS_Subset, OutboxAssumption
<1>2. Cardinality(S) \in Nat /\ Cardinality(T) \in Nat /\ Cardinality(T) <= Cardinality(S)
  BY <1>1, FS_Subset, FS_CardinalityType
<1>3. QED
  BY <1>2, OutboxAssumption

\* An empty batch is within the batch size.
LEMMA EmptyBatch == Cardinality({}) <= BatchSize
BY FS_EmptySet, OutboxAssumption

\* Committing a transaction rewrites the published_at of the rows it stamped.
LEMMA ApplyRows ==
  ASSUME NEW t, t.stamp \in Stamps, outbox_events \in [Events -> Rows \cup {NULL}],
         \A e \in Stamped(t) : outbox_events[e] # NULL
  PROVE  /\ Apply(t) \in [Events -> Rows \cup {NULL}]
         /\ \A e \in Events \ Stamped(t) : Apply(t)[e] = outbox_events[e]
         /\ \A e \in Stamped(t) : /\ Apply(t)[e] # NULL
                                  /\ Apply(t)[e].published_at = t.stamp[e]
<1>1. ASSUME NEW e \in Events PROVE Apply(t)[e] =
        IF t.stamp[e] = NULL THEN outbox_events[e]
        ELSE [outbox_events[e] EXCEPT !.published_at = t.stamp[e]]
  BY DEF Apply
<1>2. ASSUME NEW e \in Stamped(t)
      PROVE  Apply(t)[e] \in Rows /\ Apply(t)[e].published_at = t.stamp[e]
  BY <1>1 DEF Stamped, Stamps, Rows
<1>3. \A e \in Events \ Stamped(t) : Apply(t)[e] = outbox_events[e]
  BY <1>1 DEF Stamped
<1>4. Apply(t) \in [Events -> Rows \cup {NULL}]
  BY <1>2, <1>3 DEF Apply
<1>5. QED
  BY <1>2, <1>3, <1>4, NullAssumption

\* A claimable row is unpublished and locked by no open transaction.
LEMMA ClaimableFree ==
  ASSUME NEW e \in Claimable
  PROVE  /\ e \in Events /\ Pending(e)
         /\ \A q \in Processors : tx[q] # NULL => e \notin tx[q].locked
         /\ \A g \in ghosts : e \notin g.locked
<1>1. e \in Events /\ Pending(e) /\ e \notin LockedRows
  BY DEF Claimable
<1>2. ASSUME NEW q \in Processors, tx[q] # NULL, e \in tx[q].locked PROVE FALSE
  BY <1>1, <1>2 DEF LockedRows
<1>3. ASSUME NEW g \in ghosts, e \in g.locked PROVE FALSE
  BY <1>1, <1>3, Zenon DEF LockedRows
<1>4. QED
  BY <1>1, <1>2, <1>3

-----------------------------------------------------------------------------
(* Deliveries                                                               *)

\* The topic forgets no message.
Kept == \A e \in Events : \A t : Delivered(e, t) => Delivered(e, t)'

\* A message accepted is delivered, and those before it stay so.
LEMMA Accepted ==
  ASSUME delivered \in [Events -> Seq(Times)], NEW e \in Events, NEW t \in Times,
         Accept(e, t)
  PROVE  /\ delivered' \in [Events -> Seq(Times)]
         /\ Kept /\ Delivered(e, t)'
         /\ Len(delivered'[e]) = Len(delivered[e]) + 1
         /\ \A f \in Events \ {e} : delivered'[f] = delivered[f]
<1>1. delivered' = [delivered EXCEPT ![e] = Append(delivered[e], t)]
  BY DEF Accept
<1>2. /\ Append(delivered[e], t) \in Seq(Times)
      /\ Len(Append(delivered[e], t)) = Len(delivered[e]) + 1
      /\ \A i \in 1..Len(delivered[e]) : Append(delivered[e], t)[i] = delivered[e][i]
      /\ Append(delivered[e], t)[Len(delivered[e]) + 1] = t
  BY AppendProperties
<1>3. /\ delivered' \in [Events -> Seq(Times)]
      /\ delivered'[e] = Append(delivered[e], t)
      /\ \A f \in Events \ {e} : delivered'[f] = delivered[f]
  BY <1>1, <1>2
<1>4. /\ DOMAIN delivered[e] = 1..Len(delivered[e]) /\ Len(delivered[e]) \in Nat
      /\ DOMAIN delivered'[e] = 1..(Len(delivered[e]) + 1)
  BY <1>2, <1>3, LenProperties
<1>5. Delivered(e, t)'
  BY <1>2, <1>3, <1>4 DEF Delivered
<1>6. ASSUME NEW u, Delivered(e, u) PROVE Delivered(e, u)'
  BY <1>2, <1>3, <1>4, <1>6 DEF Delivered
<1>7. ASSUME NEW f \in Events \ {e}, NEW u, Delivered(f, u) PROVE Delivered(f, u)'
  BY <1>3, <1>7 DEF Delivered
<1>8. QED
  BY <1>2, <1>3, <1>5, <1>6, <1>7 DEF Kept

\* A step that publishes nothing.
LEMMA NothingAccepted ==
  ASSUME UNCHANGED delivered
  PROVE  Kept
BY DEF Kept, Delivered

-----------------------------------------------------------------------------
(* Frames                                                                   *)

\* A processor other than the one that steps stands where it stood.
LEMMA FrameProc ==
  ASSUME Inv, NEW q \in Processors, Kept, pc'[q] = pc[q], todo'[q] = todo[q],
         cur'[q] = cur[q], now'[q] = now[q], tx'[q] = tx[q]
  PROVE  ProcOK(q)'
<1>1. ProcOK(q) /\ todo[q] \subseteq Events
  BY DEF Inv, ProcInv, TypeOK
<1>2. pc[q] = "mark" => Delivered(cur[q], now[q])'
  BY <1>1 DEF ProcOK, Kept
<1>3. QED
  BY <1>1, <1>2 DEF ProcOK, Stamped, Delivered

\* Open transactions of other processors stay sound while their rows stay
\* unpublished and nothing delivered is forgotten.
LEMMA FrameTx ==
  ASSUME Inv, NEW q \in Processors, tx[q] # NULL, tx'[q] = tx[q], Kept,
         \A e \in tx[q].locked : Pending(e)'
  PROVE  TxSound(tx[q])'
<1>1. TxSound(tx[q])
  BY DEF Inv, ClaimInv
<1>2. \A e \in Stamped(tx[q]) : Delivered(e, tx[q].stamp[e])'
  BY <1>1 DEF TxSound, Kept, Stamped, Delivered
<1>3. QED
  BY <1>1, <1>2 DEF TxSound, Stamped, Delivered, Pending

\* So do abandoned transactions.
LEMMA FrameGhost ==
  ASSUME Inv, NEW g \in ghosts, Kept, \A e \in g.locked : Pending(e)'
  PROVE  TxSound(g)'
<1>1. TxSound(g)
  BY DEF Inv, ClaimInv
<1>2. QED
  BY <1>1 DEF TxSound, Kept, Stamped, Delivered, Pending

\* A step in which at most p changes its transaction, and to one that is sound
\* and disjoint from the others, keeps the claims disjoint.
LEMMA FrameClaim ==
  ASSUME Inv, Kept, NEW p \in Processors, ghosts' \subseteq ghosts,
         \A q \in Processors \ {p} : tx'[q] = tx[q],
         \A q \in Processors \ {p} : tx[q] # NULL => \A e \in tx[q].locked : Pending(e)',
         \A g \in ghosts' : \A e \in g.locked : Pending(e)',
         tx'[p] # NULL =>
           /\ TxSound(tx[p])'
           /\ \A q \in Processors \ {p} : tx[q] # NULL =>
                tx'[p].locked \cap tx[q].locked = {}
           /\ \A g \in ghosts : tx'[p].locked \cap g.locked = {}
  PROVE  ClaimInv'
<1>1. \A q \in Processors : tx'[q] # NULL => TxSound(tx[q])'
  BY FrameTx
<1>2. \A g \in ghosts' : TxSound(g)'
  BY FrameGhost
<1>3. \A q, r \in Processors : q # r /\ tx'[q] # NULL /\ tx'[r] # NULL =>
        tx'[q].locked \cap tx'[r].locked = {}
  BY DEF Inv, ClaimInv
<1>4. \A q \in Processors, g \in ghosts' : tx'[q] # NULL =>
        tx'[q].locked \cap g.locked = {}
  BY DEF Inv, ClaimInv
<1>5. \A g, h \in ghosts' : g # h => g.locked \cap h.locked = {}
  BY DEF Inv, ClaimInv
<1>6. QED
  BY <1>1, <1>2, <1>3, <1>4, <1>5 DEF ClaimInv

\* Locked rows stay unpublished while the table does not change.
LEMMA StillPending ==
  ASSUME Inv, UNCHANGED outbox_events
  PROVE  /\ \A e \in Events : Pending(e) => Pending(e)'
         /\ \A q \in Processors : tx[q] # NULL => \A e \in tx[q].locked : Pending(e)'
         /\ \A g \in ghosts : \A e \in g.locked : Pending(e)'
BY DEF Inv, ClaimInv, TxSound, Pending

\* Published rows were delivered while the table does not change.
LEMMA FramePublished ==
  ASSUME Inv, Kept, UNCHANGED outbox_events
  PROVE  PublishedWasDelivered'
<1>1. \A e \in Events : outbox_events[e] # NULL /\ ~ Pending(e) =>
        Delivered(e, outbox_events[e].published_at)'
  BY DEF Inv, PublishedWasDelivered, Kept, Delivered
<1>2. QED
  BY <1>1 DEF PublishedWasDelivered, Pending, Delivered

-----------------------------------------------------------------------------
(* The actions                                                              *)

\* A new row is unpublished and locked by nobody.
LEMMA AddInv ==
  ASSUME Inv, NEW e \in Events, Add(e)
  PROVE  Inv'
<1>1. PICK t \in Times : outbox_events' = [outbox_events EXCEPT ![e] = Row(t)]
  BY DEF Add
<1>2. /\ outbox_events[e] = NULL
      /\ UNCHANGED <<pc, todo, cur, now, tx, ghosts, delivered, faults>>
  BY DEF Add, locals
<1>3. outbox_events \in [Events -> Rows \cup {NULL}] /\ Row(t) \in Rows
  BY DEF Inv, TypeOK, Row, Rows
<1>4. TypeOK'
  BY <1>1, <1>2, <1>3 DEF Inv, TypeOK
<1>5. Kept
  BY <1>2, NothingAccepted
<1>6. \A f \in Events : Pending(f) => f # e /\ outbox_events'[f] = outbox_events[f]
  BY <1>1, <1>2, <1>3 DEF Pending
<1>7. \A f \in Events : Pending(f) => Pending(f)'
  BY <1>6 DEF Pending
<1>8. ClaimInv'
  <2>1. \A q \in Processors : tx[q] # NULL => \A f \in tx[q].locked : Pending(f)'
    BY <1>7 DEF Inv, ClaimInv, TxSound, TypeOK, Tx
  <2>2. \A g \in ghosts : \A f \in g.locked : Pending(f)'
    BY <1>7 DEF Inv, ClaimInv, TxSound, TypeOK, Ghost
  <2>3. /\ \A q \in Processors : tx'[q] # NULL => TxSound(tx[q])'
        /\ \A g \in ghosts' : TxSound(g)'
    BY <1>2, <1>5, <2>1, <2>2, FrameTx, FrameGhost
  <2>4. QED
    BY <1>2, <2>3 DEF Inv, ClaimInv
<1>9. ProcInv'
  BY <1>2, <1>5, FrameProc DEF ProcInv
<1>10. PublishedWasDelivered'
  <2>1. outbox_events'[e] # NULL => Pending(e)'
    BY <1>1, <1>3 DEF Pending, Row
  <2>2. \A f \in Events \ {e} : outbox_events'[f] = outbox_events[f]
    BY <1>1, <1>3
  <2>3. QED
    BY <1>2, <2>1, <2>2 DEF Inv, PublishedWasDelivered, Pending, Delivered
<1>11. QED
  BY <1>4, <1>8, <1>9, <1>10 DEF Inv

\* A new transaction has locked and marked nothing.
LEMMA BeginInv ==
  ASSUME Inv, NEW p \in Processors, Begin(p)
  PROVE  Inv'
<1>1. /\ pc[p] = "idle" /\ tx' = [tx EXCEPT ![p] = EmptyTx]
      /\ pc' = [pc EXCEPT ![p] = "find"]
      /\ UNCHANGED <<outbox_events, todo, cur, now, ghosts, delivered, faults>>
  BY DEF Begin, Goto, locals
<1>2. /\ EmptyTx \in Tx /\ EmptyTx.locked = {} /\ Stamped(EmptyTx) = {}
  BY DEF EmptyTx, Tx, Stamps, Stamped
<1>3. /\ tx'[p] = EmptyTx /\ \A q \in Processors \ {p} : tx'[q] = tx[q]
      /\ pc'[p] = "find" /\ \A q \in Processors \ {p} : pc'[q] = pc[q]
  BY <1>1 DEF Inv, TypeOK
<1>4. TypeOK'
  BY <1>1, <1>2 DEF Inv, TypeOK, InFlight
<1>5. Kept
  BY <1>1, NothingAccepted
<1>6. TxSound(tx[p])'
  BY <1>2, <1>3 DEF TxSound, Stamped
<1>7. ClaimInv'
  BY <1>1, <1>2, <1>3, <1>5, <1>6, FrameClaim, StillPending
<1>8. ProcOK(p)'
  <2>1. todo[p] = {}
    BY <1>1 DEF Inv, ProcInv, ProcOK
  <2>2. QED
    BY <1>1, <1>2, <1>3, <2>1 DEF ProcOK
<1>9. ProcInv'
  BY <1>1, <1>3, <1>5, <1>8, FrameProc DEF ProcInv
<1>10. QED
  BY <1>1, <1>4, <1>5, <1>7, <1>9, FramePublished DEF Inv

\* The batch is made of rows nobody else has locked.
LEMMA FindInv ==
  ASSUME Inv, NEW p \in Processors, FindUnpublishedForUpdateSkipLocked(p)
  PROVE  Inv'
<1>1. PICK b \in SUBSET Claimable :
        /\ IsBatch(b) /\ tx' = [tx EXCEPT ![p].locked = b] /\ Loop(p, b)
  BY DEF FindUnpublishedForUpdateSkipLocked
<1>2. /\ pc[p] = "find" /\ tx[p] # NULL
      /\ UNCHANGED <<outbox_events, ghosts, delivered, faults>>
  BY DEF FindUnpublishedForUpdateSkipLocked
<1>3. PICK l \in {"commit", "publish"} :
        /\ l = "commit" => b = {}
        /\ pc' = [pc EXCEPT ![p] = l] /\ todo' = [todo EXCEPT ![p] = b]
        /\ cur' = [cur EXCEPT ![p] = NULL] /\ now' = [now EXCEPT ![p] = NULL]
  BY <1>1 DEF Loop, Forget, Goto
<1>4. b \in SUBSET Events /\ Cardinality(b) <= BatchSize
  BY <1>1, ClaimableFree DEF IsBatch
<1>5. tx[p] \in Tx /\ tx'[p] \in Tx /\ tx'[p].locked = b /\ tx'[p].stamp = tx[p].stamp
  BY <1>1, <1>2, <1>4 DEF Inv, TypeOK, Tx
<1>6. /\ \A q \in Processors \ {p} : tx'[q] = tx[q]
      /\ \A q \in Processors \ {p} : /\ pc'[q] = pc[q] /\ todo'[q] = todo[q]
                                     /\ cur'[q] = cur[q] /\ now'[q] = now[q]
      /\ pc'[p] = l /\ todo'[p] = b
  BY <1>1, <1>3 DEF Inv, TypeOK
<1>7. TypeOK'
  <2>1. tx' \in [Processors -> Tx \cup {NULL}]
    BY <1>1, <1>5, <1>6 DEF Inv, TypeOK
  <2>2. \A q \in Processors : Cardinality(todo'[q]) <= BatchSize
    BY <1>4, <1>6 DEF Inv, TypeOK
  <2>3. QED
    BY <1>2, <1>3, <1>4, <2>1, <2>2 DEF Inv, TypeOK, InFlight
<1>8. Kept
  BY <1>2, NothingAccepted
<1>9. Stamped(tx[p]) = {} /\ Stamped(tx[p])' = {}
  BY <1>2, <1>5 DEF Inv, ProcInv, ProcOK, ClaimInv, TxSound, Stamped
<1>10. TxSound(tx[p])'
  <2>1. \A e \in b : Pending(e)'
    BY <1>1, <1>2, ClaimableFree, StillPending
  <2>2. QED
    BY <1>5, <1>9, <2>1 DEF TxSound
<1>11. ClaimInv'
  <2>1. /\ \A q \in Processors \ {p} : tx[q] # NULL => b \cap tx[q].locked = {}
        /\ \A g \in ghosts : b \cap g.locked = {}
    BY <1>1, ClaimableFree
  <2>2. QED
    BY <1>2, <1>5, <1>6, <1>8, <1>10, <2>1, FrameClaim, StillPending
<1>12. ProcOK(p)'
  BY <1>3, <1>5, <1>6, <1>9 DEF ProcOK
<1>13. ProcInv'
  BY <1>6, <1>8, <1>12, FrameProc DEF ProcInv
<1>14. QED
  BY <1>2, <1>7, <1>8, <1>11, <1>13, FramePublished DEF Inv

\* The message is accepted before the row is marked.
LEMMA PublishInv ==
  ASSUME Inv, NEW p \in Processors, Publish(p)
  PROVE  Inv'
<1>1. PICK e \in Oldest(p), t \in Times :
        /\ cur' = [cur EXCEPT ![p] = e] /\ now' = [now EXCEPT ![p] = t]
        /\ Accept(e, t)
  BY DEF Publish
<1>2. /\ pc[p] = "publish" /\ pc' = [pc EXCEPT ![p] = "mark"]
      /\ UNCHANGED <<outbox_events, todo, tx, ghosts, faults>>
  BY DEF Publish, Goto
<1>3. e \in todo[p] /\ e \in Events
  BY DEF Oldest, Inv, TypeOK
<1>4. delivered' \in [Events -> Seq(Times)] /\ Kept /\ Delivered(e, t)'
  BY <1>1, <1>3, Accepted DEF Inv, TypeOK
<1>5. TypeOK'
  BY <1>1, <1>2, <1>3, <1>4 DEF Inv, TypeOK, InFlight
<1>6. /\ pc'[p] = "mark" /\ cur'[p] = e /\ now'[p] = t
      /\ \A q \in Processors \ {p} :
           pc'[q] = pc[q] /\ cur'[q] = cur[q] /\ now'[q] = now[q]
  BY <1>1, <1>2 DEF Inv, TypeOK
<1>7. ClaimInv'
  <2>1. tx[p] # NULL => TxSound(tx[p])'
    BY <1>2, <1>4, FrameTx, StillPending
  <2>2. QED
    BY <1>2, <1>4, <2>1, FrameClaim, StillPending DEF Inv, ClaimInv
<1>8. ProcOK(p)'
  <2>1. Delivered(cur[p], now[p])'
    BY <1>4, <1>6 DEF Delivered
  <2>2. tx'[p] # NULL => todo'[p] \subseteq tx'[p].locked \ Stamped(tx[p])'
    BY <1>2 DEF Inv, ProcInv, ProcOK, Stamped
  <2>3. QED
    BY <1>1, <1>2, <1>3, <1>6, <2>1, <2>2 DEF ProcOK
<1>9. ProcInv'
  BY <1>2, <1>4, <1>6, <1>8, FrameProc DEF ProcInv
<1>10. QED
  BY <1>2, <1>4, <1>5, <1>7, <1>9, FramePublished DEF Inv

\* The mark is on a row the transaction has locked, with the time delivered.
LEMMA MarkInv ==
  ASSUME Inv, NEW p \in Processors, MarkPublished(p)
  PROVE  Inv'
<1>1. PICK l \in {"commit", "publish"} :
        /\ l = "commit" => todo[p] \ {cur[p]} = {}
        /\ pc' = [pc EXCEPT ![p] = l]
        /\ todo' = [todo EXCEPT ![p] = todo[p] \ {cur[p]}]
        /\ cur' = [cur EXCEPT ![p] = NULL] /\ now' = [now EXCEPT ![p] = NULL]
  BY DEF MarkPublished, Loop, Forget, Goto
<1>2. /\ pc[p] = "mark" /\ tx[p] # NULL
      /\ tx' = [tx EXCEPT ![p].stamp[cur[p]] = now[p]]
      /\ UNCHANGED <<outbox_events, ghosts, delivered, faults>>
  BY DEF MarkPublished
<1>3. PICK e \in Events, t \in Times : e = cur[p] /\ t = now[p] /\ Delivered(e, t)
  BY <1>2 DEF Inv, ProcInv, ProcOK, TypeOK
<1>4. /\ e \in todo[p] /\ todo[p] \subseteq tx[p].locked \ Stamped(tx[p])
      /\ TxSound(tx[p]) /\ tx[p] \in Tx
  BY <1>2, <1>3 DEF Inv, ProcInv, ProcOK, ClaimInv, TypeOK
<1>5. /\ tx'[p] = [tx[p] EXCEPT !.stamp = [tx[p].stamp EXCEPT ![e] = t]]
      /\ \A q \in Processors \ {p} : tx'[q] = tx[q]
  BY <1>2, <1>3 DEF Inv, TypeOK
<1>6. /\ tx'[p] \in Tx /\ tx'[p].locked = tx[p].locked /\ tx'[p].stamp[e] = t
      /\ \A f \in Events \ {e} : tx'[p].stamp[f] = tx[p].stamp[f]
  BY <1>4, <1>5 DEF Tx, Stamps
<1>7. Stamped(tx[p])' = Stamped(tx[p]) \cup {e}
  BY <1>6, OutboxAssumption DEF Stamped
<1>8. /\ pc'[p] = l /\ todo'[p] = todo[p] \ {e}
      /\ \A q \in Processors \ {p} : /\ pc'[q] = pc[q] /\ todo'[q] = todo[q]
                                    /\ cur'[q] = cur[q] /\ now'[q] = now[q]
  BY <1>1, <1>3 DEF Inv, TypeOK
<1>9. TypeOK'
  <2>1. tx' \in [Processors -> Tx \cup {NULL}]
    BY <1>2, <1>5, <1>6 DEF Inv, TypeOK
  <2>2. \A q \in Processors : Cardinality(todo'[q]) <= BatchSize
    BY <1>8, SmallerBatch DEF Inv, TypeOK
  <2>3. QED
    BY <1>1, <1>2, <2>1, <2>2 DEF Inv, TypeOK, InFlight
<1>10. Kept
  BY <1>2, NothingAccepted
<1>11. TxSound(tx[p])'
  <2>1. \A f \in tx'[p].locked : Pending(f)'
    BY <1>2, <1>6, StillPending
  <2>2. \A f \in Stamped(tx[p])' : Delivered(f, tx[p].stamp[f])'
    <3>1. \A f \in Stamped(tx[p]) : f # e /\ Delivered(f, tx'[p].stamp[f])
      BY <1>4, <1>6 DEF TxSound, Stamped
    <3>2. QED
      BY <1>2, <1>3, <1>6, <1>7, <3>1 DEF Delivered
  <2>3. QED
    BY <1>4, <1>6, <1>7, <2>1, <2>2 DEF TxSound, Delivered, Pending
<1>12. ClaimInv'
  BY <1>2, <1>5, <1>6, <1>10, <1>11, FrameClaim, StillPending DEF Inv, ClaimInv
<1>13. ProcOK(p)'
  BY <1>1, <1>3, <1>4, <1>6, <1>7, <1>8 DEF ProcOK
<1>14. ProcInv'
  BY <1>5, <1>8, <1>10, <1>13, FrameProc DEF ProcInv
<1>15. QED
  BY <1>2, <1>9, <1>10, <1>12, <1>14, FramePublished DEF Inv

\* What the commit of a sound transaction publishes was delivered, and it
\* touches no published row and no row that it has not locked.
LEMMA ApplySound ==
  ASSUME Inv, NEW t, TxSound(t), t.stamp \in Stamps, outbox_events' = Apply(t),
         UNCHANGED delivered
  PROVE  /\ outbox_events' \in [Events -> Rows \cup {NULL}]
         /\ PublishedWasDelivered'
         /\ \A e \in Events \ t.locked : Pending(e) => Pending(e)'
<1>1. /\ outbox_events' \in [Events -> Rows \cup {NULL}]
      /\ \A e \in Events \ Stamped(t) : outbox_events'[e] = outbox_events[e]
      /\ \A e \in Stamped(t) : outbox_events'[e].published_at = t.stamp[e]
  BY ApplyRows DEF Inv, TypeOK, TxSound, Pending
<1>2. \A e \in Stamped(t) : Delivered(e, outbox_events'[e].published_at)
  BY <1>1 DEF TxSound
<1>3. \A e \in Events \ Stamped(t) : outbox_events'[e] # NULL /\ ~ Pending(e)' =>
        Delivered(e, outbox_events'[e].published_at)
  BY <1>1 DEF Inv, PublishedWasDelivered, Pending
<1>4. PublishedWasDelivered'
  BY <1>2, <1>3 DEF PublishedWasDelivered, Delivered
<1>5. QED
  BY <1>1, <1>4 DEF TxSound, Pending

\* COMMIT publishes what was delivered and releases the locks.
LEMMA CommitInv ==
  ASSUME Inv, NEW p \in Processors, Commit(p)
  PROVE  Inv'
<1>1. /\ pc[p] = "commit" /\ tx[p] # NULL /\ outbox_events' = Apply(tx[p])
      /\ tx' = [tx EXCEPT ![p] = NULL] /\ pc' = [pc EXCEPT ![p] = "ack"]
      /\ UNCHANGED <<todo, cur, now, ghosts, delivered, faults>>
  BY DEF Commit, Goto, locals
<1>2. /\ tx'[p] = NULL /\ pc'[p] = "ack"
      /\ \A q \in Processors \ {p} : tx'[q] = tx[q] /\ pc'[q] = pc[q]
  BY <1>1 DEF Inv, TypeOK
<1>3. TxSound(tx[p]) /\ tx[p] \in Tx
  BY <1>1 DEF Inv, ClaimInv, TypeOK
<1>4. /\ outbox_events' \in [Events -> Rows \cup {NULL}]
      /\ PublishedWasDelivered'
      /\ \A e \in Events \ tx[p].locked : Pending(e) => Pending(e)'
  <2>1. PICK t : t = tx[p]
    OBVIOUS
  <2>2. TxSound(t) /\ t.stamp \in Stamps /\ outbox_events' = Apply(t)
    BY <1>1, <1>3, <2>1 DEF Tx
  <2>3. QED
    BY <1>1, <2>1, <2>2, ApplySound
<1>5. TypeOK'
  BY <1>1, <1>4 DEF Inv, TypeOK, InFlight
<1>6. Kept
  BY <1>1, NothingAccepted
<1>7. ClaimInv'
  <2>1. \A q \in Processors \ {p} : tx[q] # NULL =>
          \A e \in tx[q].locked : e \in Events /\ Pending(e) /\ e \notin tx[p].locked
    BY <1>1 DEF Inv, ClaimInv, TxSound, TypeOK, Tx
  <2>2. \A g \in ghosts : \A e \in g.locked :
          e \in Events /\ Pending(e) /\ e \notin tx[p].locked
    BY <1>1 DEF Inv, ClaimInv, TxSound, TypeOK, Ghost
  <2>3. QED
    BY <1>1, <1>2, <1>4, <1>6, <2>1, <2>2, FrameClaim
<1>8. ProcOK(p)'
  BY <1>1, <1>2 DEF Inv, ProcInv, ProcOK
<1>9. ProcInv'
  BY <1>1, <1>2, <1>6, <1>8, FrameProc DEF ProcInv
<1>10. QED
  BY <1>4, <1>5, <1>7, <1>9 DEF Inv

\* The return of Commit changes nothing but the program counter.
LEMMA AckInv ==
  ASSUME Inv, NEW p \in Processors, Ack(p)
  PROVE  Inv'
<1>1. /\ pc[p] = "ack" /\ pc' = [pc EXCEPT ![p] = "idle"]
      /\ UNCHANGED <<outbox_events, todo, cur, now, tx, ghosts, delivered, faults>>
  BY DEF Ack, Goto, locals
<1>2. pc'[p] = "idle" /\ \A q \in Processors \ {p} : pc'[q] = pc[q]
  BY <1>1 DEF Inv, TypeOK
<1>3. tx[p] = NULL /\ todo[p] = {}
  BY <1>1 DEF Inv, ProcInv, ProcOK
<1>4. TypeOK'
  BY <1>1 DEF Inv, TypeOK
<1>5. Kept
  BY <1>1, NothingAccepted
<1>6. ClaimInv'
  BY <1>1, <1>3, <1>5, FrameClaim, StillPending
<1>7. ProcOK(p)'
  BY <1>1, <1>2, <1>3 DEF ProcOK
<1>8. ProcInv'
  BY <1>1, <1>2, <1>5, <1>7, FrameProc DEF ProcInv
<1>9. QED
  BY <1>1, <1>4, <1>5, <1>6, <1>8, FramePublished DEF Inv

-----------------------------------------------------------------------------
(* Failures                                                                 *)

\* A processor that gives up keeps no batch and no transaction.
LEMMA GivenUp ==
  ASSUME Inv, NEW p \in Processors, GiveUp(p), Kept, tx'[p] = NULL,
         \A q \in Processors \ {p} : tx'[q] = tx[q]
  PROVE  /\ ProcInv'
         /\ pc' \in [Processors -> InFlight \cup {"idle"}]
         /\ todo' \in [Processors -> SUBSET Events]
         /\ cur' \in [Processors -> Events \cup {NULL}]
         /\ now' \in [Processors -> Times \cup {NULL}]
         /\ \A q \in Processors : Cardinality(todo'[q]) <= BatchSize
<1>1. /\ pc' = [pc EXCEPT ![p] = "idle"] /\ todo' = [todo EXCEPT ![p] = {}]
      /\ cur' = [cur EXCEPT ![p] = NULL] /\ now' = [now EXCEPT ![p] = NULL]
  BY DEF GiveUp, Goto, Forget
<1>2. /\ pc'[p] = "idle" /\ todo'[p] = {}
      /\ \A q \in Processors \ {p} : /\ pc'[q] = pc[q] /\ todo'[q] = todo[q]
                                    /\ cur'[q] = cur[q] /\ now'[q] = now[q]
  BY <1>1 DEF Inv, TypeOK
<1>3. ProcOK(p)'
  BY <1>2 DEF ProcOK
<1>4. ProcInv'
  BY <1>2, <1>3, FrameProc DEF ProcInv
<1>5. \A q \in Processors : Cardinality(todo'[q]) <= BatchSize
  BY <1>2, EmptyBatch DEF Inv, TypeOK
<1>6. QED
  BY <1>1, <1>4, <1>5 DEF Inv, TypeOK

\* A failed call leaves at most its own transaction behind, with its locks.
LEMMA FailInv ==
  ASSUME Inv, NEW p \in Processors, Fail(p)
  PROVE  Inv'
<1>1. /\ GiveUp(p) /\ tx' = [tx EXCEPT ![p] = NULL] /\ UNCHANGED outbox_events
      /\ faults' \in 0..MaxFaults
  BY OutboxAssumption DEF Fail, Fault, Inv, TypeOK
<1>2. delivered' \in [Events -> Seq(Times)] /\ Kept
  <2>1. CASE UNCHANGED delivered
    BY <2>1, NothingAccepted DEF Inv, TypeOK
  <2>2. CASE \E e \in Oldest(p), t \in Times : Accept(e, t)
    <3>1. Oldest(p) \subseteq Events
      BY DEF Oldest, Inv, TypeOK
    <3>2. QED
      BY <2>2, <3>1, Accepted DEF Inv, TypeOK
  <2>3. QED
    BY <2>1, <2>2 DEF Fail
<1>3. tx'[p] = NULL /\ \A q \in Processors \ {p} : tx'[q] = tx[q]
  BY <1>1 DEF Inv, TypeOK
<1>4. /\ ProcInv'
      /\ pc' \in [Processors -> InFlight \cup {"idle"}]
      /\ todo' \in [Processors -> SUBSET Events]
      /\ cur' \in [Processors -> Events \cup {NULL}]
      /\ now' \in [Processors -> Times \cup {NULL}]
      /\ \A q \in Processors : Cardinality(todo'[q]) <= BatchSize
  BY <1>1, <1>2, <1>3, GivenUp
<1>5. ghosts' \subseteq Ghost /\ ClaimInv'
  <2>1. CASE UNCHANGED ghosts
    BY <1>1, <1>2, <1>3, <2>1, FrameClaim, StillPending DEF Inv, TypeOK
  <2>2. CASE tx[p] # NULL /\ ~ UNCHANGED ghosts
    <3>1. PICK n : /\ n = [locked |-> tx[p].locked, stamp |-> tx[p].stamp,
                            committing |-> pc[p] = "commit"]
                   /\ ghosts' = ghosts \cup {n}
      BY <2>2 DEF Fail
    <3>2. n \in Ghost /\ n.locked = tx[p].locked /\ n.stamp = tx[p].stamp
      BY <2>2, <3>1 DEF Inv, TypeOK, Tx, Ghost
    <3>3. TxSound(n) /\ Stamped(n) \subseteq Events /\ n.locked \subseteq Events
      BY <2>2, <3>2 DEF Inv, ClaimInv, TxSound, Stamped, Ghost
    <3>4. TxSound(n)'
      <4>1. \A e \in n.locked : Pending(e)'
        BY <1>1, <3>3, StillPending DEF TxSound
      <4>2. QED
        BY <1>2, <3>3, <4>1 DEF TxSound, Kept, Stamped, Delivered, Pending
    <3>5. \A q \in Processors : tx'[q] # NULL =>
            TxSound(tx[q])' /\ tx'[q].locked \cap n.locked = {}
      BY <1>1, <1>2, <1>3, <2>2, <3>2, FrameTx, StillPending DEF Inv, ClaimInv
    <3>6. \A g \in ghosts : TxSound(g)' /\ g.locked \cap n.locked = {}
      BY <1>1, <1>2, <2>2, <3>2, FrameGhost, StillPending DEF Inv, ClaimInv
    <3>7. \A q, r \in Processors : q # r /\ tx'[q] # NULL /\ tx'[r] # NULL =>
            tx'[q].locked \cap tx'[r].locked = {}
      BY <1>3 DEF Inv, ClaimInv
    <3>8. \A q \in Processors, g \in ghosts' : tx'[q] # NULL =>
            tx'[q].locked \cap g.locked = {}
      BY <1>3, <3>1, <3>5 DEF Inv, ClaimInv
    <3>9. \A g, h \in ghosts' : g # h => g.locked \cap h.locked = {}
      BY <3>1, <3>6 DEF Inv, ClaimInv
    <3>10. ClaimInv'
      BY <3>1, <3>4, <3>5, <3>6, <3>7, <3>8, <3>9 DEF ClaimInv
    <3>11. QED
      BY <3>1, <3>2, <3>10 DEF Inv, TypeOK
  <2>3. QED
    BY <2>1, <2>2 DEF Fail
<1>6. TypeOK'
  BY <1>1, <1>2, <1>4, <1>5 DEF Inv, TypeOK
<1>7. QED
  BY <1>1, <1>2, <1>4, <1>5, <1>6, FramePublished DEF Inv

\* A lost session loses its locks and its marks.
LEMMA LoseSessionInv ==
  ASSUME Inv, NEW p \in Processors, LoseSession(p)
  PROVE  Inv'
<1>1. /\ tx' = [tx EXCEPT ![p] = NULL] /\ faults' \in 0..MaxFaults
      /\ UNCHANGED <<outbox_events, pc, todo, cur, now, ghosts, delivered>>
  BY OutboxAssumption DEF LoseSession, Fault, Inv, TypeOK, locals
<1>2. tx'[p] = NULL /\ \A q \in Processors \ {p} : tx'[q] = tx[q]
  BY <1>1 DEF Inv, TypeOK
<1>3. TypeOK'
  BY <1>1 DEF Inv, TypeOK
<1>4. Kept
  BY <1>1, NothingAccepted
<1>5. ClaimInv'
  BY <1>1, <1>2, <1>4, FrameClaim, StillPending
<1>6. ProcOK(p)'
  BY <1>1, <1>2 DEF Inv, ProcInv, ProcOK, Delivered
<1>7. ProcInv'
  BY <1>1, <1>2, <1>4, <1>6, FrameProc DEF ProcInv
<1>8. QED
  BY <1>1, <1>3, <1>4, <1>5, <1>7, FramePublished DEF Inv

\* A processor that finds its session gone gives up.
LEMMA FindSessionLostInv ==
  ASSUME Inv, NEW p \in Processors, FindSessionLost(p)
  PROVE  Inv'
<1>1. /\ GiveUp(p) /\ tx[p] = NULL
      /\ UNCHANGED <<outbox_events, tx, ghosts, delivered, faults>>
  BY DEF FindSessionLost
<1>2. Kept
  BY <1>1, NothingAccepted
<1>3. ClaimInv'
  BY <1>1, <1>2, FrameClaim, StillPending
<1>4. TypeOK' /\ ProcInv'
  BY <1>1, <1>2, GivenUp DEF Inv, TypeOK
<1>5. QED
  BY <1>1, <1>2, <1>3, <1>4, FramePublished DEF Inv

\* A late COMMIT publishes what was delivered, and only rows still locked.
LEMMA ReapInv ==
  ASSUME Inv, NEW g \in ghosts, Reap(g)
  PROVE  Inv'
<1>1. /\ ghosts' = ghosts \ {g}
      /\ UNCHANGED outbox_events \/ outbox_events' = Apply(g)
      /\ UNCHANGED <<pc, todo, cur, now, tx, delivered, faults>>
  BY DEF Reap, locals
<1>2. TxSound(g) /\ g \in Ghost /\ g.stamp \in Stamps
  BY DEF Inv, ClaimInv, TypeOK, Ghost
<1>3. Kept
  BY <1>1, NothingAccepted
<1>4. /\ outbox_events' \in [Events -> Rows \cup {NULL}]
      /\ PublishedWasDelivered'
      /\ \A e \in Events \ g.locked : Pending(e) => Pending(e)'
  <2>1. CASE UNCHANGED outbox_events
    BY <1>3, <2>1, FramePublished, StillPending DEF Inv, TypeOK
  <2>2. CASE outbox_events' = Apply(g)
    BY <1>1, <1>2, <2>2, ApplySound
  <2>3. QED
    BY <1>1, <2>1, <2>2
<1>5. TypeOK'
  BY <1>1, <1>4 DEF Inv, TypeOK
<1>6. \A q \in Processors : tx'[q] # NULL => TxSound(tx[q])'
  <2>1. \A q \in Processors : tx[q] # NULL => \A e \in tx[q].locked :
          e \in Events /\ Pending(e) /\ e \notin g.locked
    BY DEF Inv, ClaimInv, TxSound, TypeOK, Tx
  <2>2. QED
    BY <1>1, <1>3, <1>4, <2>1, FrameTx
<1>7. \A h \in ghosts' : TxSound(h)'
  <2>1. \A h \in ghosts' : \A e \in h.locked :
          e \in Events /\ Pending(e) /\ e \notin g.locked
    BY <1>1 DEF Inv, ClaimInv, TxSound, TypeOK, Ghost
  <2>2. QED
    BY <1>1, <1>3, <1>4, <2>1, FrameGhost
<1>8. ClaimInv'
  BY <1>1, <1>6, <1>7 DEF Inv, ClaimInv
<1>9. ProcInv'
  BY <1>1, <1>3, FrameProc DEF ProcInv
<1>10. QED
  BY <1>4, <1>5, <1>8, <1>9 DEF Inv

-----------------------------------------------------------------------------
(* The invariant                                                            *)

\* The empty table and idle processors.
LEMMA InitInv ==
  ASSUME Init
  PROVE  Inv
<1>1. TypeOK
  <2>1. faults \in 0..MaxFaults
    BY OutboxAssumption DEF Init
  <2>2. QED
    BY <2>1, EmptyBatch DEF Init, TypeOK
<1>2. ClaimInv /\ ProcInv /\ PublishedWasDelivered
  BY DEF Init, ClaimInv, ProcInv, ProcOK, PublishedWasDelivered
<1>3. QED
  BY <1>1, <1>2 DEF Inv

\* Inv reads nothing but vars.
LEMMA StutterInv ==
  ASSUME Inv, UNCHANGED vars
  PROVE  Inv'
<1>1. UNCHANGED <<outbox_events, pc, todo, cur, now, tx, ghosts, delivered, faults>>
  BY DEF vars, locals
<1>2. Kept
  BY <1>1, NothingAccepted
<1>3. TypeOK'
  BY <1>1 DEF Inv, TypeOK
<1>4. ClaimInv'
  <2>1. /\ \A q \in Processors : tx'[q] # NULL => TxSound(tx[q])'
        /\ \A g \in ghosts' : TxSound(g)'
    BY <1>1, <1>2, FrameTx, FrameGhost, StillPending
  <2>2. QED
    BY <1>1, <2>1 DEF Inv, ClaimInv
<1>5. ProcInv'
  BY <1>1, <1>2, FrameProc DEF ProcInv
<1>6. QED
  BY <1>1, <1>2, <1>3, <1>4, <1>5, FramePublished DEF Inv

\* Every step of every processor, failure and late COMMIT keeps Inv.
LEMMA NextInv ==
  ASSUME Inv, [Next]_vars
  PROVE  Inv'
<1>1. ASSUME NEW e \in Events, Add(e) PROVE Inv'
  BY <1>1, AddInv
<1>2. ASSUME NEW p \in Processors, Work(p) PROVE Inv'
  BY <1>2, BeginInv, FindInv, PublishInv, MarkInv, CommitInv, AckInv,
     FindSessionLostInv DEF Work
<1>3. ASSUME NEW p \in Processors, Fail(p) \/ LoseSession(p) PROVE Inv'
  BY <1>3, FailInv, LoseSessionInv
<1>4. ASSUME NEW g \in ghosts, Reap(g) PROVE Inv'
  BY <1>4, ReapInv
<1>5. CASE UNCHANGED vars
  BY <1>5, StutterInv
<1>6. QED
  BY <1>1, <1>2, <1>3, <1>4, <1>5 DEF Next

\* Claims, marks and deliveries agree in every reachable state, for any number
\* of processors, events and failures.
THEOREM Invariance == Spec => []Inv
<1>1. Init => Inv
  BY InitInv
<1>2. Inv /\ [Next]_vars => Inv'
  BY NextInv
<1>3. QED
  BY <1>1, <1>2, PTL DEF Spec

\* Every variable keeps its type, and no batch exceeds BatchSize.
THEOREM TypeCorrect == Spec => []TypeOK
<1>1. Inv => TypeOK
  BY DEF Inv
<1>2. QED
  BY <1>1, Invariance, PTL

\* No event is lost: what is marked published was accepted by the topic, with
\* the PublishedAt that is stored.
THEOREM NoEventLost == Spec => []PublishedWasDelivered
<1>1. Inv => PublishedWasDelivered
  BY DEF Inv
<1>2. QED
  BY <1>1, Invariance, PTL

\* FOR UPDATE SKIP LOCKED partitions the work: a processor whose session is
\* alive shares no row of its batch with any other open transaction.
THEOREM ExclusiveClaimAlways == Spec => []ExclusiveClaim
<1>1. ASSUME Inv, NEW p \in Processors, tx[p] # NULL,
             NEW e \in todo[p] \cup Stamped(tx[p])
      PROVE  /\ Pending(e)
             /\ \A q \in Processors \ {p} : tx[q] # NULL => e \notin tx[q].locked
             /\ \A g \in ghosts : e \notin g.locked
  <2>1. e \in tx[p].locked /\ Pending(e)
    BY <1>1 DEF Inv, ProcInv, ProcOK, ClaimInv, TxSound
  <2>2. QED
    BY <1>1, <2>1 DEF Inv, ClaimInv
<1>2. Inv => ExclusiveClaim
  BY <1>1 DEF ExclusiveClaim
<1>3. QED
  BY <1>2, Invariance, PTL

\* Committing a sound transaction leaves published rows alone.
LEMMA ApplyFinal ==
  ASSUME Inv, NEW t, TxSound(t), outbox_events' = Apply(t),
         NEW e \in Events, ~ Pending(e)
  PROVE  outbox_events'[e] = outbox_events[e]
BY DEF TxSound, Apply, Stamped

\* No step changes a published row.
LEMMA StepFinal ==
  ASSUME Inv, Next, NEW e \in Events, outbox_events[e] # NULL, ~ Pending(e)
  PROVE  outbox_events'[e] = outbox_events[e]
<1>1. ASSUME NEW f \in Events, Add(f) PROVE outbox_events'[e] = outbox_events[e]
  BY <1>1 DEF Add, Inv, TypeOK
<1>2. ASSUME NEW p \in Processors, Commit(p)
      PROVE  outbox_events'[e] = outbox_events[e]
  <2>1. PICK t : t = tx[p]
    OBVIOUS
  <2>2. TxSound(t) /\ outbox_events' = Apply(t)
    BY <1>2, <2>1 DEF Commit, Inv, ClaimInv
  <2>3. QED
    BY <2>2, ApplyFinal
<1>3. ASSUME NEW p \in Processors, Work(p) \/ Fail(p) \/ LoseSession(p), ~ Commit(p)
      PROVE  outbox_events' = outbox_events
  BY <1>3 DEF Work, Begin, FindUnpublishedForUpdateSkipLocked, Publish, MarkPublished,
     Ack, FindSessionLost, Fail, LoseSession
<1>4. ASSUME NEW g \in ghosts, Reap(g) PROVE outbox_events'[e] = outbox_events[e]
  <2>1. TxSound(g) /\ (outbox_events' = outbox_events \/ outbox_events' = Apply(g))
    BY <1>4 DEF Reap, Inv, ClaimInv
  <2>2. QED
    BY <2>1, ApplyFinal
<1>5. QED
  BY <1>1, <1>2, <1>3, <1>4 DEF Next

\* A published row never changes again, whatever commits late.
THEOREM PublishedIsFinalAlways == Spec => PublishedIsFinal
<1>1. Inv /\ [Next]_vars =>
        [\A e \in Events : outbox_events[e] # NULL /\ ~ Pending(e)
           => outbox_events'[e] = outbox_events[e]]_vars
  BY StepFinal
<1>2. QED
  BY <1>1, Invariance, PTL DEF Spec, PublishedIsFinal

-----------------------------------------------------------------------------
(* Duplicates                                                               *)

\* Sets of processors are finite.
LEMMA FewProcessors ==
  ASSUME NEW S \in SUBSET Processors
  PROVE  IsFiniteSet(S) /\ Cardinality(S) \in Nat
<1>1. IsFiniteSet(S)
  BY FS_Subset, OutboxAssumption
<1>2. QED
  BY <1>1, FS_CardinalityType

\* The arithmetic of a step: what it adds to the left of Paid is covered by a
\* failure it counts or by an event it settles.
LEMMA PaidStep ==
  ASSUME TypeOK, NEW e \in Events, Paid(e), NEW d \in {0, 1}, NEW z \in {0, 1},
         Len(delivered'[e]) = Len(delivered[e]) + d,
         Cardinality(Zombies(e)') <= Cardinality(Zombies(e)) + z,
         \/ faults' = faults /\ d + z = 0 /\ (Settled(e) => Settled(e)')
         \/ faults' = faults /\ d + z = 1 /\ ~ Settled(e) /\ Settled(e)'
         \/ faults' = faults + 1 /\ d + z = 0
         \/ faults' = faults + 1 /\ d + z = 1 /\ (Settled(e) => Settled(e)')
  PROVE  Paid(e)'
<1>1. /\ Len(delivered[e]) \in Nat /\ faults \in Nat
      /\ Cardinality(Zombies(e)) \in Nat /\ Cardinality(Zombies(e)') \in Nat
  <2>1. Zombies(e) \in SUBSET Processors /\ Zombies(e)' \in SUBSET Processors
    BY DEF Zombies
  <2>2. QED
    BY <2>1, FewProcessors, LenProperties, OutboxAssumption DEF TypeOK
<1>. DEFINE a == IF Settled(e) THEN 1 ELSE 0
            b == IF Settled(e)' THEN 1 ELSE 0
<1>2. Len(delivered[e]) + Cardinality(Zombies(e)) <= faults + a /\ a \in {0, 1}
  BY DEF Paid
<1>3. b \in {0, 1} /\ (Paid(e)' <=>
        Len(delivered'[e]) + Cardinality(Zombies(e)') <= faults' + b)
  BY DEF Paid
<1>4. \/ faults' = faults /\ d + z = 0 /\ a <= b
      \/ faults' = faults /\ d + z = 1 /\ a = 0 /\ b = 1
      \/ faults' = faults + 1 /\ d + z = 0
      \/ faults' = faults + 1 /\ d + z = 1 /\ a <= b
  OBVIOUS
<1>5. QED
  <2>. HIDE DEF a, b
  <2>1. QED
    BY <1>1, <1>2, <1>3, <1>4, SMTT(60)

\* A step of p leaves alone the zombies that other processors are.
LEMMA OtherZombies ==
  ASSUME NEW p \in Processors, NEW e \in Events,
         \A q \in Processors \ {p} : pc'[q] = pc[q] /\ tx'[q] = tx[q] /\ todo'[q] = todo[q]
  PROVE  /\ p \notin Zombies(e)' =>
              Cardinality(Zombies(e)') <= Cardinality(Zombies(e))
         /\ p \notin Zombies(e)' /\ p \in Zombies(e) =>
              Cardinality(Zombies(e)') = Cardinality(Zombies(e)) - 1
         /\ Cardinality(Zombies(e)') <= Cardinality(Zombies(e)) + 1
<1>1. /\ Zombies(e) \in SUBSET Processors /\ Zombies(e)' \in SUBSET Processors
      /\ Zombies(e)' \ {p} = Zombies(e) \ {p}
  BY DEF Zombies
<1>2. /\ IsFiniteSet(Zombies(e)) /\ Cardinality(Zombies(e)) \in Nat
      /\ IsFiniteSet(Zombies(e)') /\ Cardinality(Zombies(e)') \in Nat
  BY <1>1, FewProcessors
<1>3. /\ Cardinality(Zombies(e) \ {p}) =
           IF p \in Zombies(e) THEN Cardinality(Zombies(e)) - 1 ELSE Cardinality(Zombies(e))
      /\ Cardinality(Zombies(e)' \ {p}) =
           IF p \in Zombies(e)' THEN Cardinality(Zombies(e)') - 1 ELSE Cardinality(Zombies(e)')
  BY <1>2, FS_RemoveElement
<1>4. Cardinality(Zombies(e)' \ {p}) = Cardinality(Zombies(e) \ {p})
  BY <1>1, Zenon
<1>5. QED
  BY <1>2, <1>3, <1>4

\* A step of p unsettles at most what p was about to mark.
LEMMA OtherMarks ==
  ASSUME Inv, Next, NEW p \in Processors, NEW e \in Events, Settled(e),
         \A q \in Processors \ {p} : pc'[q] = pc[q] /\ tx'[q] = tx[q] /\ cur'[q] = cur[q]
  PROVE  Settled(e)' \/ Marking(p, e)
<1>1. CASE outbox_events[e] # NULL /\ ~ Pending(e)
  <2>1. outbox_events'[e] = outbox_events[e]
    BY <1>1, StepFinal
  <2>2. QED
    BY <1>1, <2>1 DEF Settled, Pending
<1>2. ASSUME NEW q \in Processors \ {p}, Marking(q, e) PROVE Marking(q, e)'
  BY <1>2 DEF Marking, Stamped
<1>3. QED
  BY <1>1, <1>2 DEF Settled

\* What p still has to publish it is not marking.
LEMMA NotYetMarked ==
  ASSUME Inv, NEW p \in Processors, NEW e \in todo[p], pc[p] = "publish"
  PROVE  ~ Marking(p, e)
BY DEF Inv, ProcInv, ProcOK, Marking

\* A row that p has locked and not marked is not settled.
LEMMA OwnedUnsettled ==
  ASSUME Inv, NEW p \in Processors, NEW e \in todo[p], pc[p] = "publish", tx[p] # NULL
  PROVE  ~ Settled(e)
<1>1. e \in tx[p].locked /\ Pending(e)
  BY DEF Inv, ProcInv, ProcOK, ClaimInv, TxSound
<1>2. \A q \in Processors : Marking(q, e) => e \in tx[q].locked
  BY DEF Inv, ProcInv, ProcOK, ClaimInv, TxSound, Marking
<1>3. \A q \in Processors : ~ Marking(q, e)
  BY <1>1, <1>2, NotYetMarked DEF Inv, ClaimInv, Marking
<1>4. QED
  BY <1>1, <1>3 DEF Settled

\* A step of p that delivers nothing and counts no failure, makes no zombie of
\* p and keeps its marks.
LEMMA CalmStep ==
  ASSUME Inv, Next, DuplicateInv, NEW p \in Processors, UNCHANGED <<delivered, faults>>,
         \A q \in Processors \ {p} : /\ pc'[q] = pc[q] /\ tx'[q] = tx[q]
                                     /\ todo'[q] = todo[q] /\ cur'[q] = cur[q],
         \A e \in Events : p \notin Zombies(e)',
         \A e \in Events : Marking(p, e) => Settled(e)'
  PROVE  DuplicateInv'
<1>1. ASSUME NEW e \in Events PROVE Paid(e)'
  <2>1. TypeOK /\ Paid(e) /\ Len(delivered[e]) \in Nat
    BY LenProperties DEF Inv, TypeOK, DuplicateInv
  <2>2. Cardinality(Zombies(e)') <= Cardinality(Zombies(e)) + 0
    <3>1. Cardinality(Zombies(e)) \in Nat
      BY FewProcessors DEF Zombies
    <3>2. QED
      BY <3>1, OtherZombies
  <2>3. Settled(e) => Settled(e)'
    BY OtherMarks
  <2>4. Len(delivered'[e]) = Len(delivered[e]) + 0
    BY <2>1
  <2>5. QED
    BY <2>1, <2>2, <2>3, <2>4, PaidStep
<1>2. QED
  BY <1>1 DEF DuplicateInv

\* A step of p that fails and delivers nothing.
LEMMA LostStep ==
  ASSUME Inv, Next, DuplicateInv, NEW p \in Processors, NEW e \in Events,
         faults' = faults + 1, delivered'[e] = delivered[e],
         \A q \in Processors \ {p} : /\ pc'[q] = pc[q] /\ tx'[q] = tx[q]
                                     /\ todo'[q] = todo[q] /\ cur'[q] = cur[q],
         p \in Zombies(e)' => ~ Marking(p, e)
  PROVE  Paid(e)'
<1>1. TypeOK /\ Paid(e) /\ Len(delivered[e]) \in Nat
  BY LenProperties DEF Inv, TypeOK, DuplicateInv
<1>2. Len(delivered'[e]) = Len(delivered[e]) + 0
  BY <1>1
<1>3. Cardinality(Zombies(e)) \in Nat
  BY FewProcessors DEF Zombies
<1>4. CASE p \notin Zombies(e)'
  <2>1. Cardinality(Zombies(e)') <= Cardinality(Zombies(e)) + 0
    BY <1>3, <1>4, OtherZombies
  <2>2. QED
    BY <1>1, <1>2, <2>1, PaidStep
<1>5. CASE p \in Zombies(e)'
  <2>1. Cardinality(Zombies(e)') <= Cardinality(Zombies(e)) + 1
    BY OtherZombies
  <2>2. Settled(e) => Settled(e)'
    BY <1>5, OtherMarks
  <2>3. QED
    BY <1>1, <1>2, <2>1, <2>2, PaidStep
<1>6. QED
  BY <1>4, <1>5

\* A failed call of p is paid for, also when the topic took its message.
LEMMA FailPaid ==
  ASSUME Inv, Next, DuplicateInv, NEW p \in Processors, Fail(p)
  PROVE  DuplicateInv'
<1>1. /\ faults' = faults + 1 /\ tx' = [tx EXCEPT ![p] = NULL]
      /\ pc' = [pc EXCEPT ![p] = "idle"] /\ todo' = [todo EXCEPT ![p] = {}]
      /\ cur' = [cur EXCEPT ![p] = NULL]
  BY DEF Fail, Fault, GiveUp, Goto, Forget
<1>2. /\ \A q \in Processors \ {p} : /\ pc'[q] = pc[q] /\ tx'[q] = tx[q]
                                     /\ todo'[q] = todo[q] /\ cur'[q] = cur[q]
      /\ todo'[p] = {}
  BY <1>1 DEF Inv, TypeOK
<1>3. \A e \in Events : p \notin Zombies(e)'
  BY <1>2 DEF Zombies
<1>4. CASE UNCHANGED delivered
  BY <1>1, <1>2, <1>3, <1>4, LostStep DEF DuplicateInv
<1>5. ASSUME pc[p] = "publish", NEW e \in Oldest(p), NEW t \in Times, Accept(e, t)
      PROVE  DuplicateInv'
  <2>1. e \in todo[p] /\ e \in Events
    BY DEF Oldest, Inv, TypeOK
  <2>2. /\ Len(delivered'[e]) = Len(delivered[e]) + 1
        /\ \A f \in Events \ {e} : delivered'[f] = delivered[f]
    BY <1>5, <2>1, Accepted DEF Inv, TypeOK
  <2>3. \A f \in Events \ {e} : Paid(f)'
    BY <1>1, <1>2, <1>3, <2>2, LostStep
  <2>4. Paid(e)'
    <3>1. Settled(e) => Settled(e)'
      BY <1>2, <1>5, <2>1, OtherMarks, NotYetMarked
    <3>2. Cardinality(Zombies(e)) \in Nat
      BY FewProcessors DEF Zombies
    <3>3. Cardinality(Zombies(e)') <= Cardinality(Zombies(e)) + 0
      BY <1>2, <1>3, <2>1, <3>2, OtherZombies
    <3>4. QED
      BY <1>1, <2>1, <2>2, <3>1, <3>3, PaidStep DEF Inv, DuplicateInv
  <2>5. QED
    BY <2>3, <2>4 DEF DuplicateInv
<1>6. QED
  BY <1>4, <1>5 DEF Fail

\* A lost session pays for the message its processor may still send.
LEMMA LoseSessionPaid ==
  ASSUME Inv, Next, DuplicateInv, NEW p \in Processors, LoseSession(p)
  PROVE  DuplicateInv'
<1>1. /\ faults' = faults + 1 /\ tx' = [tx EXCEPT ![p] = NULL]
      /\ UNCHANGED <<pc, todo, cur, delivered>>
  BY DEF LoseSession, Fault, locals
<1>2. \A q \in Processors \ {p} : tx'[q] = tx[q]
  BY <1>1 DEF Inv, TypeOK
<1>3. \A e \in Events : p \in Zombies(e)' => ~ Marking(p, e)
  BY <1>1, NotYetMarked DEF Zombies
<1>4. QED
  BY <1>1, <1>2, <1>3, LostStep DEF DuplicateInv

\* A message is the first of its row, or was paid for when the session was lost.
LEMMA PublishPaid ==
  ASSUME Inv, Next, DuplicateInv, NEW p \in Processors, Publish(p)
  PROVE  DuplicateInv'
<1>1. PICK e \in Oldest(p), t \in Times :
        cur' = [cur EXCEPT ![p] = e] /\ Accept(e, t)
  BY DEF Publish
<1>2. /\ pc[p] = "publish" /\ pc' = [pc EXCEPT ![p] = "mark"]
      /\ UNCHANGED <<todo, tx, faults>>
  BY DEF Publish, Goto
<1>3. e \in todo[p] /\ e \in Events
  BY DEF Oldest, Inv, TypeOK
<1>4. /\ pc'[p] = "mark" /\ cur'[p] = e
      /\ \A q \in Processors \ {p} : /\ pc'[q] = pc[q] /\ tx'[q] = tx[q]
                                    /\ todo'[q] = todo[q] /\ cur'[q] = cur[q]
  BY <1>1, <1>2 DEF Inv, TypeOK
<1>5. /\ Len(delivered'[e]) = Len(delivered[e]) + 1
      /\ \A f \in Events \ {e} : delivered'[f] = delivered[f]
  BY <1>1, <1>3, Accepted DEF Inv, TypeOK
<1>6. \A f \in Events : /\ p \notin Zombies(f)'
                        /\ Paid(f)
                        /\ Cardinality(Zombies(f)) \in Nat
                        /\ Len(delivered[f]) \in Nat
                        /\ Cardinality(Zombies(f)') <= Cardinality(Zombies(f)) + 0
  <2>1. \A f \in Events : p \notin Zombies(f)'
    BY <1>4 DEF Zombies
  <2>2. \A f \in Events : Cardinality(Zombies(f)) \in Nat
    BY FewProcessors DEF Zombies
  <2>3. \A f \in Events : Cardinality(Zombies(f)') <= Cardinality(Zombies(f)) + 0
    BY <1>4, <2>1, <2>2, OtherZombies
  <2>4. QED
    BY <2>1, <2>2, <2>3, LenProperties DEF DuplicateInv, Inv, TypeOK
<1>7. ASSUME NEW f \in Events \ {e} PROVE Paid(f)'
  <2>1. Marking(p, f) => Marking(p, f)'
    BY <1>2 DEF Marking, Stamped
  <2>2. Settled(f) => Settled(f)'
    BY <1>4, <2>1, OtherMarks DEF Settled
  <2>3. Len(delivered'[f]) = Len(delivered[f]) + 0
    BY <1>5, <1>6
  <2>4. QED
    BY <1>2, <1>6, <2>2, <2>3, PaidStep DEF Inv
<1>8. CASE tx[p] # NULL
  <2>1. ~ Settled(e)
    BY <1>2, <1>3, <1>8, OwnedUnsettled
  <2>2. Settled(e)'
    BY <1>2, <1>4, <1>8 DEF Settled, Marking
  <2>3. Paid(e)'
    BY <1>2, <1>3, <1>5, <1>6, <2>1, <2>2, PaidStep DEF Inv
  <2>4. QED
    BY <1>7, <2>3 DEF DuplicateInv
<1>9. CASE tx[p] = NULL
  <2>1. Cardinality(Zombies(e)') = Cardinality(Zombies(e)) - 1
    BY <1>2, <1>3, <1>4, <1>6, <1>9, OtherZombies DEF Zombies
  <2>2. Settled(e) => Settled(e)'
    BY <1>3, <1>4, <1>9, OtherMarks DEF Marking
  <2>3. faults \in Nat /\ Len(delivered[e]) \in Nat /\ Cardinality(Zombies(e)) \in Nat
    BY <1>3, <1>6, OutboxAssumption DEF Inv, TypeOK
  <2>4. Paid(e)'
    BY <1>2, <1>3, <1>5, <1>6, <2>1, <2>2, <2>3 DEF Paid
  <2>5. QED
    BY <1>7, <2>4 DEF DuplicateInv
<1>10. QED
  BY <1>8, <1>9

\* A new row and the end of an abandoned transaction unsettle nothing.
LEMMA TablePaid ==
  ASSUME Inv, Next, DuplicateInv, UNCHANGED <<pc, todo, cur, tx, delivered, faults>>
  PROVE  DuplicateInv'
<1>1. ASSUME NEW e \in Events PROVE Settled(e) => Settled(e)'
  <2>1. outbox_events[e] # NULL /\ ~ Pending(e) => outbox_events'[e] = outbox_events[e]
    BY StepFinal
  <2>2. \A p \in Processors : Marking(p, e) => Marking(p, e)'
    BY DEF Marking, Stamped
  <2>3. QED
    BY <2>1, <2>2 DEF Settled, Pending
<1>2. ASSUME NEW e \in Events PROVE Paid(e)'
  <2>1. /\ TypeOK /\ Paid(e) /\ Len(delivered[e]) \in Nat
        /\ Cardinality(Zombies(e)) \in Nat /\ Zombies(e)' = Zombies(e)
    BY FewProcessors, LenProperties DEF Inv, TypeOK, DuplicateInv, Zombies
  <2>2. /\ Len(delivered'[e]) = Len(delivered[e]) + 0
        /\ Cardinality(Zombies(e)') <= Cardinality(Zombies(e)) + 0
    BY <2>1
  <2>3. QED
    BY <1>1, <2>1, <2>2, PaidStep
<1>3. QED
  BY <1>2 DEF DuplicateInv

\* The calls that deliver nothing make no zombie and keep the marks.
LEMMA CalmPaid ==
  ASSUME Inv, Next, DuplicateInv, NEW p \in Processors,
         \/ Begin(p) \/ FindUnpublishedForUpdateSkipLocked(p) \/ MarkPublished(p)
         \/ Commit(p) \/ Ack(p) \/ FindSessionLost(p)
  PROVE  DuplicateInv'
<1>1. CASE Begin(p)
  <2>1. /\ pc[p] = "idle" /\ tx' = [tx EXCEPT ![p] = EmptyTx]
        /\ pc' = [pc EXCEPT ![p] = "find"]
        /\ UNCHANGED <<todo, cur, delivered, faults>>
    BY <1>1 DEF Begin, Goto, locals
  <2>2. /\ pc'[p] = "find"
        /\ \A q \in Processors \ {p} : tx'[q] = tx[q] /\ pc'[q] = pc[q]
    BY <2>1 DEF Inv, TypeOK
  <2>3. tx[p] = NULL
    BY <2>1 DEF Inv, ProcInv, ProcOK
  <2>4. \A e \in Events : p \notin Zombies(e)' /\ ~ Marking(p, e)
    BY <2>2, <2>3 DEF Zombies, Marking
  <2>5. QED
    BY <2>1, <2>2, <2>4, CalmStep
<1>2. CASE FindUnpublishedForUpdateSkipLocked(p)
  <2>1. PICK b \in SUBSET Events :
                 /\ pc[p] = "find" /\ tx[p] # NULL
                 /\ tx' = [tx EXCEPT ![p].locked = b] /\ Loop(p, b)
                 /\ UNCHANGED <<delivered, faults>>
    BY <1>2, ClaimableFree DEF FindUnpublishedForUpdateSkipLocked
  <2>2. PICK l : /\ pc' = [pc EXCEPT ![p] = l] /\ todo' = [todo EXCEPT ![p] = b]
                 /\ cur' = [cur EXCEPT ![p] = NULL]
    BY <2>1 DEF Loop, Forget, Goto
  <2>3. /\ \A q \in Processors \ {p} : /\ pc'[q] = pc[q] /\ tx'[q] = tx[q]
                                       /\ todo'[q] = todo[q] /\ cur'[q] = cur[q]
        /\ tx[p] \in Tx /\ tx'[p] = [tx[p] EXCEPT !.locked = b]
    BY <2>1, <2>2 DEF Inv, TypeOK
  <2>4. Stamped(tx[p]) = {}
    BY <2>1 DEF Inv, ProcInv, ProcOK, ClaimInv, TxSound
  <2>5. tx'[p] # NULL
    BY <2>3, NullAssumption DEF Tx
  <2>6. \A e \in Events : p \notin Zombies(e)' /\ ~ Marking(p, e)
    BY <2>1, <2>4, <2>5 DEF Zombies, Marking
  <2>7. QED
    BY <2>1, <2>3, <2>6, CalmStep
<1>3. CASE MarkPublished(p)
  <2>1. /\ pc[p] = "mark" /\ tx[p] # NULL
        /\ tx' = [tx EXCEPT ![p].stamp[cur[p]] = now[p]]
        /\ UNCHANGED <<delivered, faults>>
    BY <1>3 DEF MarkPublished
  <2>2. PICK l : /\ pc' = [pc EXCEPT ![p] = l]
                 /\ todo' = [todo EXCEPT ![p] = todo[p] \ {cur[p]}]
                 /\ cur' = [cur EXCEPT ![p] = NULL]
    BY <1>3 DEF MarkPublished, Loop, Forget, Goto
  <2>3. PICK e \in Events, t \in Times : e = cur[p] /\ t = now[p]
    BY <2>1 DEF Inv, ProcInv, ProcOK, TypeOK
  <2>4. /\ \A q \in Processors \ {p} : /\ pc'[q] = pc[q] /\ tx'[q] = tx[q]
                                       /\ todo'[q] = todo[q] /\ cur'[q] = cur[q]
        /\ tx'[p] = [tx[p] EXCEPT !.stamp = [tx[p].stamp EXCEPT ![e] = t]]
        /\ tx[p] \in Tx
    BY <2>1, <2>2, <2>3 DEF Inv, TypeOK
  <2>5. /\ tx'[p] \in Tx /\ tx'[p] # NULL /\ tx'[p].stamp[e] = t
        /\ \A f \in Events \ {e} : tx'[p].stamp[f] = tx[p].stamp[f]
    BY <2>4, NullAssumption DEF Tx, Stamps
  <2>6. \A f \in Events : Marking(p, f) => Settled(f)'
    <3>1. \A f \in Events : Marking(p, f) => f = e \/ f \in Stamped(tx[p])
      BY <2>3 DEF Marking
    <3>2. \A f \in Events : Marking(p, f) => f \in Stamped(tx[p])'
      BY <2>5, <3>1, OutboxAssumption DEF Stamped
    <3>3. QED
      BY <2>5, <3>2 DEF Settled, Marking
  <2>7. \A f \in Events : p \notin Zombies(f)'
    BY <2>5 DEF Zombies
  <2>8. QED
    BY <2>1, <2>4, <2>6, <2>7, CalmStep
<1>4. CASE Commit(p)
  <2>1. /\ pc[p] = "commit" /\ tx[p] # NULL /\ outbox_events' = Apply(tx[p])
        /\ tx' = [tx EXCEPT ![p] = NULL] /\ pc' = [pc EXCEPT ![p] = "ack"]
        /\ UNCHANGED <<todo, cur, delivered, faults>>
    BY <1>4 DEF Commit, Goto, locals
  <2>2. /\ pc'[p] = "ack"
        /\ \A q \in Processors \ {p} : tx'[q] = tx[q] /\ pc'[q] = pc[q]
    BY <2>1 DEF Inv, TypeOK
  <2>3. PICK t : t = tx[p]
    OBVIOUS
  <2>4. TxSound(t) /\ t.stamp \in Stamps /\ outbox_events' = Apply(t)
    BY <2>1, <2>3 DEF Inv, ClaimInv, TypeOK, Tx
  <2>5. \A e \in Stamped(t) : outbox_events'[e] # NULL /\ ~ Pending(e)'
    <3>1. \A e \in Stamped(t) : /\ outbox_events'[e] # NULL
                                 /\ outbox_events'[e].published_at = t.stamp[e]
      BY <2>4, ApplyRows DEF Inv, TypeOK, TxSound, Pending
    <3>2. QED
      BY <3>1 DEF Pending, Stamped
  <2>6. \A e \in Events : p \notin Zombies(e)' /\ (Marking(p, e) => Settled(e)')
    BY <2>1, <2>2, <2>3, <2>5 DEF Zombies, Marking, Settled
  <2>7. QED
    BY <2>1, <2>2, <2>6, CalmStep
<1>5. CASE Ack(p)
  <2>1. /\ pc[p] = "ack" /\ pc' = [pc EXCEPT ![p] = "idle"]
        /\ UNCHANGED <<todo, cur, tx, delivered, faults>>
    BY <1>5 DEF Ack, Goto, locals
  <2>2. pc'[p] = "idle" /\ \A q \in Processors \ {p} : pc'[q] = pc[q]
    BY <2>1 DEF Inv, TypeOK
  <2>3. tx[p] = NULL
    BY <2>1 DEF Inv, ProcInv, ProcOK
  <2>4. \A e \in Events : p \notin Zombies(e)' /\ ~ Marking(p, e)
    BY <2>2, <2>3 DEF Zombies, Marking
  <2>5. QED
    BY <2>1, <2>2, <2>4, CalmStep
<1>6. CASE FindSessionLost(p)
  <2>1. /\ tx[p] = NULL /\ pc' = [pc EXCEPT ![p] = "idle"]
        /\ todo' = [todo EXCEPT ![p] = {}] /\ cur' = [cur EXCEPT ![p] = NULL]
        /\ UNCHANGED <<tx, delivered, faults>>
    BY <1>6 DEF FindSessionLost, GiveUp, Goto, Forget
  <2>2. /\ pc'[p] = "idle"
        /\ \A q \in Processors \ {p} : /\ pc'[q] = pc[q] /\ tx'[q] = tx[q]
                                      /\ todo'[q] = todo[q] /\ cur'[q] = cur[q]
    BY <2>1 DEF Inv, TypeOK
  <2>3. \A e \in Events : p \notin Zombies(e)' /\ ~ Marking(p, e)
    BY <2>1, <2>2 DEF Zombies, Marking
  <2>4. QED
    BY <2>1, <2>2, <2>3, CalmStep
<1>7. QED
  BY <1>1, <1>2, <1>3, <1>4, <1>5, <1>6

\* Every step pays for the message it sends.
LEMMA NextPaid ==
  ASSUME Inv, DuplicateInv, [Next]_vars
  PROVE  DuplicateInv'
<1>1. CASE UNCHANGED vars
  <2>1. UNCHANGED <<outbox_events, pc, todo, cur, now, tx, ghosts, delivered, faults>>
    BY <1>1 DEF vars, locals
  <2>2. \A e \in Events : Zombies(e)' = Zombies(e) /\ (Settled(e)' <=> Settled(e))
    BY <2>1 DEF Zombies, Settled, Marking, Stamped, Pending
  <2>3. QED
    BY <2>1, <2>2 DEF DuplicateInv, Paid
<1>2. CASE Next
  <2>1. ASSUME NEW e \in Events, Add(e) PROVE DuplicateInv'
    BY <1>2, <2>1, TablePaid DEF Add, locals
  <2>2. ASSUME NEW p \in Processors, Work(p) PROVE DuplicateInv'
    BY <1>2, <2>2, CalmPaid, PublishPaid DEF Work
  <2>3. ASSUME NEW p \in Processors, Fail(p) \/ LoseSession(p) PROVE DuplicateInv'
    BY <1>2, <2>3, FailPaid, LoseSessionPaid
  <2>4. ASSUME NEW g \in ghosts, Reap(g) PROVE DuplicateInv'
    BY <1>2, <2>4, TablePaid DEF Reap, locals
  <2>5. QED
    BY <1>2, <2>1, <2>2, <2>3, <2>4 DEF Next
<1>3. QED
  BY <1>1, <1>2

\* Nothing is delivered at the start.
LEMMA InitPaid ==
  ASSUME Init
  PROVE  DuplicateInv
<1>1. \A e \in Events : /\ Zombies(e) = {} /\ Len(delivered[e]) = 0 /\ faults = 0
  BY DEF Init, Zombies
<1>2. QED
  BY <1>1, FS_EmptySet DEF DuplicateInv, Paid

\* What the failures have paid for bounds the messages.
LEMMA PaidBound ==
  ASSUME Inv, DuplicateInv
  PROVE  DuplicatesOnlyFromFaults
<1>1. ASSUME NEW e \in Events
      PROVE  Len(delivered[e]) <= 1 + faults
  <2>1. /\ Len(delivered[e]) \in Nat /\ faults \in Nat
        /\ Cardinality(Zombies(e)) \in Nat /\ Paid(e)
    BY FewProcessors, LenProperties, OutboxAssumption
       DEF Inv, TypeOK, DuplicateInv, Zombies
  <2>2. QED
    BY <2>1 DEF Paid
<1>2. QED
  BY <1>1 DEF DuplicatesOnlyFromFaults

\* However many processors poll, an event is delivered at most once more than
\* the number of failed calls, crashes and lost sessions.
THEOREM DuplicatesOnlyFromFaultsAlways == Spec => []DuplicatesOnlyFromFaults
<1>1. Inv /\ DuplicateInv => DuplicatesOnlyFromFaults
  BY PaidBound
<1>2. Init => DuplicateInv
  BY InitPaid
<1>3. Inv /\ DuplicateInv /\ [Next]_vars => DuplicateInv'
  BY NextPaid
<1>4. QED
  BY <1>1, <1>2, <1>3, Invariance, PTL DEF Spec
=============================================================================
