------------------------------ MODULE MCLibrary ------------------------------
(* A small instance of Sends over Library for TLC. *)
EXTENDS Sends, TLC

CONSTANTS u1, u2, b1, b2, b3, i1, i2, i3, i4, i5, n1, n2, l1, l2

\* Two buckets, of one user or of two, and three images; u2 reads b1.
Row(u, b, l) == [owner |-> u, bucket |-> b, url |-> l,
                 words |-> [notes |-> None, tags |-> {}, enabled |-> TRUE]]
Tables(u) ==
    [buckets |-> (b1 :> [owner |-> u1, name |-> n1]) @@ (b2 :> [owner |-> u, name |-> n2])
                 @@ (b3 :> None),
     images  |-> (i1 :> Row(u1, b1, l1)) @@ (i3 :> Row(u, b2, l1)) @@ (i4 :> None) @@ (i5 :> None)
                 @@ (i2 :> [Row(u1, b1, l2) EXCEPT !.words.notes = "own", !.words.tags = {"own"}]),
     readers |-> {<<u2, b1>>}]
\* Or one image alone.
OneImage ==
    [buckets |-> (b1 :> [owner |-> u1, name |-> n1]) @@ (b2 :> [owner |-> u1, name |-> n2]) @@ (b3 :> Gone),
     images  |-> (i1 :> Row(u1, b1, l1)) @@ (i2 :> None) @@ [i \in {i3, i4, i5} |-> Gone],
     readers |-> {}]
SomeTables == {Tables(u1), Tables(u2), OneImage}

Post(l, notes, tags) == [url |-> l, notes |-> notes, tags |-> tags]
SomePosts == {Post(l1, None, {}), Post(l2, "auto", {"social"}), Post(l2, "auto", {})}
NoChange == [media |-> None, notes |-> Keep, tags |-> Keep, enabled |-> Keep]
SomePatches == {[NoChange EXCEPT !.notes = "own"], [NoChange EXCEPT !.notes = None, !.enabled = FALSE],
  [NoChange EXCEPT !.tags = {"own"}, !.enabled = TRUE]}
  \cup {[NoChange EXCEPT !.media = m] : m \in SomePosts}
Of(requests, n) == [kinds |-> requests, most |-> n, over |-> {Tables(u1), Tables(u2)}]
\* More requests, on the one image.
On(requests, n) == [kinds |-> requests, most |-> n, over |-> {OneImage}]
Mixes == {Of({"export", "move_images", "delete_bucket", "import"}, 4),
          Of({"export", "rename_bucket", "delete_images", "import"}, 3),
          Of({"create_image", "upload_image", "bulk_update_images"}, 2),
          Of({"add_to_inbox", "delete_bucket", "rename_bucket"}, 3),
          Of({"add_to_inbox", "create_bucket", "move_images"}, 3),
          Of({"pick"}, 4), Of({"pick", "draw"}, 2), Of({"pick", "delete_images", "admit"}, 3),
          Of({"draw"}, 3), Of({"draw", "move_images"}, 3), Of({"draw", "admit", "update_image"}, 2),
          On({"create_image", "update_image"}, 3), On({"add_to_bucket", "update_image"}, 3),
          On({"bulk_update_images", "update_image"}, 3), On({"move_images", "update_image"}, 5)}

NamesDrawn == {<<n1>>, <<n1, n2>>, <<n1, n1>>}

Symmetric == Permutations(Worker) \cup Permutations(Sender) \cup Permutations({i4, i5})
=============================================================================
