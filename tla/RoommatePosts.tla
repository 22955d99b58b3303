--------------------------- MODULE RoommatePosts ----------------------------
(***************************************************************************)
(* A tenant publishes, edits, opens, closes and removes posts for people   *)
(* to share a room: RoommateSeekingPostService.                            *)
(***************************************************************************)
EXTENDS RoommateStore

(* create: a room on the platform has to be rented by the poster; the      *)
(* rental is whatever the client names.                                    *)
CreatePost_Check(h, u, i, x, n) ==
    /\ i # Null => \E y \in ActiveOf(u) : rentals[y].inst = i
    /\ x # Null => Live(rentals[x])
    /\ Begin(h, "createPost", [Idle EXCEPT !.at = "createPost:insert", !.who = u,
                                           !.room = i, !.rental = x, !.count = n])
    /\ NoWrites

CreatePost_Insert(h) ==
    LET f == call[h] IN
    /\ At(h, "createPost:insert")
    /\ InsertPost(NewPost(f.who, f.room, f.rental, f.count, "draft"))
    /\ ReturnWritten(h)
    /\ OnlyPosts /\ UNCHANGED <<rerouted, recounted>>

(* update: e names the fields the client sends, n, i and x are their values. *)
UpdatePost_Read(h, p, e, n, i, x) ==
    /\ Live(posts[p])
    /\ "rental" \in e /\ x # Null => Live(rentals[x])
    /\ Begin(h, "updatePost",
             [Idle EXCEPT !.at = "updatePost:write", !.post = p, !.copy = posts[p],
                          !.edits = e, !.count = n, !.room = i, !.rental = x])
    /\ NoWrites

(* Mutant: the slots stay as they are when the number of people changes. *)
NewRemaining_Kept(copy, e, n) == copy.remaining

(* remainingSlots after an edit, from what was read. *)
NewRemaining(copy, e, n) ==
    LET changed == copy.remaining + (n - copy.seeking) IN
    IF "seeking" \notin e THEN copy.remaining
    ELSE IF changed < 0 THEN 0 ELSE changed

UpdatePost_Write(h) ==
    LET f == call[h]
        p == f.post
        new == [posts[p] EXCEPT
                   !.remaining = NewRemaining(f.copy, f.edits, f.count),
                   !.seeking = IF "seeking" \in f.edits THEN f.count ELSE @,
                   !.room = IF "room" \in f.edits THEN f.room ELSE @,
                   !.rental = IF "rental" \in f.edits THEN f.rental ELSE @]
        exact == /\ f.copy.remaining = posts[p].remaining
                 /\ f.copy.seeking = posts[p].seeking
                 /\ "seeking" \in f.edits =>
                       f.copy.remaining + (f.count - f.copy.seeking) >= 0
    IN
    /\ At(h, "updatePost:write")
    /\ IF Live(posts[p])
       THEN /\ posts' = [posts EXCEPT ![p] = new]
            /\ recounted' = recounted \cup (IF exact THEN {} ELSE {p})
            /\ rerouted' = rerouted \cup (IF new.room = posts[p].room THEN {} ELSE {p})
            /\ ReturnWritten(h)
       ELSE Return(h) /\ UNCHANGED <<posts, recounted, rerouted>>
    /\ OnlyPosts

RemovePost_Read(h, p) ==
    /\ Live(posts[p])
    /\ Begin(h, "removePost", [Idle EXCEPT !.at = "removePost:delete", !.post = p])
    /\ NoWrites

(* Applications go with their post. *)
RemovePost_Delete(h) ==
    LET p == call[h].post IN
    /\ At(h, "removePost:delete")
    /\ posts' = [posts EXCEPT ![p] = Gone]
    /\ apps' = [a \in AppIds |-> IF Live(apps[a]) /\ apps[a].post = p THEN Gone
                                                                      ELSE apps[a]]
    /\ ReturnWritten(h)
    /\ UNCHANGED <<rentals, instances, invites, history>>

UpdatePostStatus_Read(h, p, s) ==
    /\ Live(posts[p])
    /\ Begin(h, "updatePostStatus",
             [Idle EXCEPT !.at = "postStatus:write", !.post = p, !.status = s])
    /\ NoWrites

UpdatePostStatus_Write(h) ==
    LET p == call[h].post IN
    /\ At(h, "postStatus:write")
    /\ IF Live(posts[p])
       THEN posts' = [posts EXCEPT ![p].status = call[h].status] /\ ReturnWritten(h)
       ELSE Return(h) /\ UNCHANGED posts
    /\ OnlyPosts /\ UNCHANGED <<rerouted, recounted>>
=============================================================================
