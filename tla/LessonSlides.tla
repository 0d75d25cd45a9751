---------------------------- MODULE LessonSlides ----------------------------
(***************************************************************************)
(* The slides of a lesson while they are written: the rail of slides, the  *)
(* blocks of the one on screen, the pictures that upload meanwhile, and    *)
(* what is sent to content-service of all that and read back.              *)
(*                                                                         *)
(* What is written in a block is whether it has content; a list and a      *)
(* table keep how many items they have.                                    *)
(***************************************************************************)
EXTENDS EditorLists, FiniteSets, SequencesExt

CONSTANTS
    Kind,     \* the types of block in use, of "titulo", "texto", "lista", "tabla", "imagen"
    LIMITS,   \* lessonLimits.ts
    MaxKeys,  \* the bound on the keys given
    MaxUploads, \* the bound on the pictures on their way
    MaxMounts \* the bound on the times the slides come on the page

SlidesAssumption ==
    /\ Kind \subseteq {"titulo", "texto", "lista", "tabla", "imagen"}
    /\ MaxKeys \in Nat /\ MaxUploads \in Nat /\ MaxMounts \in Nat

VARIABLES
    pages,     \* the slides: [key, blocks]
    deck,      \* the slide picked, the question about removing it, the tab, the mount of the tab
    uploads,   \* the pictures being uploaded, and where they were asked for
    uploading, \* the place that shows "Subiendo…"
    keys       \* newKey

vars == <<pages, deck, uploads, uploading, keys>>

\* n: the items of a list, the rows of a table, the picture of an image.
Block(k, kind, n, filled) == [key |-> k, kind |-> kind, n |-> n, filled |-> filled]
emptyBlock(k, kind) == Block(k, kind, CASE kind = "lista" -> 1 [] kind = "tabla" -> 2 [] OTHER -> 0, FALSE)
emptyPage(k) == [key |-> k, blocks |-> <<emptyBlock(k + 1, "titulo"), emptyBlock(k + 2, "texto")>>]

Init ==
    /\ pages = <<>>
    /\ deck = [current |-> 1, confirming |-> FALSE, tab |-> "content", mount |-> 1]
    /\ uploads = {}
    /\ uploading = <<>>
    /\ keys = 1

index == Least(deck.current, Most(Len(pages), 1))
page == pages[index]
OnSlides == deck.tab = "content" /\ ~deck.confirming
OnSlide == OnSlides /\ pages # <<>>
full == Len(page.blocks) >= LIMITS.blocksPerPage
hasContent(p) == \E i \in DOMAIN p.blocks : p.blocks[i].kind = "imagen" \/ p.blocks[i].filled
newKeys(n) == keys + n <= MaxKeys /\ keys' = keys + n

-----------------------------------------------------------------------------
(* The slides.                                                             *)

addSlide ==
    /\ OnSlides /\ Len(pages) < LIMITS.pages
    /\ pages' = IF pages = <<>> THEN <<emptyPage(keys)>> ELSE InsertAt(pages, index + 1, emptyPage(keys))
    /\ deck' = [deck EXCEPT !.current = IF pages = <<>> THEN 1 ELSE index + 1]
    /\ newKeys(3)
    /\ UNCHANGED <<uploads, uploading>>
moveSlide(step) ==
    /\ OnSlide /\ index + step \in DOMAIN pages
    /\ pages' = move(pages, index, step)
    /\ deck' = [deck EXCEPT !.current = index + step]
    /\ UNCHANGED <<uploads, uploading, keys>>

\* A copy of a slide with new keys, so both can change on their own.
duplicate(p, k) == [key |-> k, blocks |-> [i \in DOMAIN p.blocks |-> [p.blocks[i] EXCEPT !.key = k + i]]]
duplicateSlide ==
    /\ OnSlide /\ Len(pages) < LIMITS.pages
    /\ pages' = InsertAt(pages, index + 1, duplicate(page, keys))
    /\ deck' = [deck EXCEPT !.current = index + 1]
    /\ newKeys(1 + Len(page.blocks))
    /\ UNCHANGED <<uploads, uploading>>

\* A slide with something written asks first.
Removed == pages' = removeAt(pages, index) /\ UNCHANGED <<uploads, uploading, keys>>
askRemove ==
    /\ OnSlide
    /\ IF hasContent(page)
       THEN deck' = [deck EXCEPT !.confirming = TRUE] /\ UNCHANGED <<pages, uploads, uploading, keys>>
       ELSE deck' = [deck EXCEPT !.current = Most(1, index - 1)] /\ Removed
removeSlide ==
    /\ deck.confirming
    /\ deck' = [deck EXCEPT !.confirming = FALSE, !.current = Most(1, index - 1)]
    /\ Removed
keepSlide ==
    /\ deck.confirming
    /\ deck' = [deck EXCEPT !.confirming = FALSE]
    /\ UNCHANGED <<pages, uploads, uploading, keys>>
setCurrent(i) ==
    /\ OnSlide /\ i \in DOMAIN pages /\ i # index
    /\ deck' = [deck EXCEPT !.current = i]
    /\ UNCHANGED <<pages, uploads, uploading, keys>>

-----------------------------------------------------------------------------
(* The blocks of the slide on screen.                                      *)

setBlocks(blocks) ==
    /\ OnSlide
    /\ pages' = replaceAt(pages, index, [page EXCEPT !.blocks = blocks])
    /\ UNCHANGED <<deck, uploads, uploading>>
addBlock(kind) ==
    /\ OnSlide /\ ~full /\ kind # "imagen"
    /\ setBlocks(Append(page.blocks, emptyBlock(keys, kind)))
    /\ newKeys(1)
\* Typing in a block, or adding and taking out an item of a list or a row of
\* a table, within the limits; columns are left out.
SlideBlock(i) ==
    /\ OnSlide /\ i \in DOMAIN page.blocks /\ UNCHANGED keys
    /\ LET b == page.blocks[i]
           onChange(block) == setBlocks(replaceAt(page.blocks, i, block))
           least == IF b.kind = "lista" THEN 1 ELSE 2
           most == IF b.kind = "lista" THEN LIMITS.listItems ELSE LIMITS.tableRows
       IN  \/ onChange([b EXCEPT !.filled = ~@])
           \/ b.kind \in {"lista", "tabla"} /\ b.n < most /\ onChange([b EXCEPT !.n = @ + 1])
           \/ b.kind \in {"lista", "tabla"} /\ b.n > least /\ onChange([b EXCEPT !.n = @ - 1])
BlockTools(i) ==
    /\ OnSlide /\ i \in DOMAIN page.blocks /\ UNCHANGED keys
    /\ \/ i > 1 /\ setBlocks(move(page.blocks, i, -1))
       \/ i < Len(page.blocks) /\ setBlocks(move(page.blocks, i, 1))
       \/ setBlocks(removeAt(page.blocks, i))

-----------------------------------------------------------------------------
(* The pictures.                                                           *)

\* An upload remembers the place it was asked for, a slide and a block (0 is
\* a new one at the end), and the mount of the tab, whose pages stay as they
\* were when it went; "left" has those of the asking until then, and "of" the
\* key of what stood there, which the code doesn't look at.
place(i, b) ==
    [page |-> i, block |-> b, mount |-> deck.mount, left |-> pages,
     of |-> IF b = 0 THEN pages[i].key ELSE pages[i].blocks[b].key]
pickNewImage ==
    /\ OnSlide /\ uploading = <<>> /\ ~full /\ Cardinality(uploads) < MaxUploads
    /\ uploads' = uploads \cup {place(index, 0)}
    /\ uploading' = <<index, 0>>
    /\ UNCHANGED <<pages, deck, keys>>
pickImage(b) ==
    /\ OnSlide /\ b \in DOMAIN page.blocks /\ page.blocks[b].kind = "imagen"
    /\ uploading # <<index, b>> /\ Cardinality(uploads) < MaxUploads
    /\ uploads' = uploads \cup {place(index, b)}
    /\ uploading' = <<index, b>>
    /\ UNCHANGED <<pages, deck, keys>>

\* latest: the newest pages of the mount that asked, for an upload that ends
\* after more edits.
latestMutant(u) == u.left
latest(u) == IF u.mount = deck.mount /\ deck.tab = "content" THEN pages ELSE u.left
IsImage(slide, b) == b \in DOMAIN slide.blocks /\ slide.blocks[b].kind = "imagen"
placed(now, u, k) ==
    LET slide == now[u.page]
        blocks == slide.blocks
    IN  replaceAt(now, u.page, [slide EXCEPT !.blocks =
            IF u.block = 0 THEN Append(blocks, Block(k, "imagen", 1, FALSE))
            ELSE IF IsImage(slide, u.block) THEN [blocks EXCEPT ![u.block].n = 1 - @]
            ELSE blocks])
placeImage(u, ok) ==
    /\ uploads' = uploads \ {u}
    /\ uploading' = IF u.mount = deck.mount THEN <<>> ELSE uploading
    /\ IF ok /\ u.page \in DOMAIN latest(u)
       THEN pages' = placed(latest(u), u, keys) /\ newKeys(1)
       ELSE UNCHANGED <<pages, keys>>
    /\ UNCHANGED <<deck>>

\* Another tab takes the slides off the page, with what they knew.
setTab(tab) ==
    /\ ~deck.confirming /\ tab # deck.tab /\ (tab = "content" => deck.mount < MaxMounts)
    /\ deck' = IF tab = "content"
               THEN [deck EXCEPT !.tab = tab, !.current = 1, !.mount = @ + 1]
               ELSE [deck EXCEPT !.tab = tab]
    /\ uploads' = IF deck.tab = "content"
                  THEN {[u EXCEPT !.left = IF u.mount = deck.mount THEN pages ELSE @] : u \in uploads}
                  ELSE uploads
    /\ uploading' = IF tab = "content" THEN <<>> ELSE uploading
    /\ UNCHANGED <<pages, keys>>

Next ==
    \/ addSlide
    \/ \E step \in {-1, 1} : moveSlide(step)
    \/ duplicateSlide
    \/ askRemove
    \/ removeSlide
    \/ keepSlide
    \/ \E i \in 1..LIMITS.pages : setCurrent(i)
    \/ \E kind \in Kind : addBlock(kind)
    \/ \E i \in 1..LIMITS.blocksPerPage + 1 : SlideBlock(i)
    \/ \E i \in 1..LIMITS.blocksPerPage + 1 : BlockTools(i)
    \/ pickNewImage
    \/ \E b \in 1..LIMITS.blocksPerPage + 1 : pickImage(b)
    \/ \E u \in uploads, ok \in BOOLEAN : placeImage(u, ok)
    \/ \E tab \in {"content", "activity"} : setTab(tab)

Spec == Init /\ [][Next]_vars

-----------------------------------------------------------------------------
(* What goes to content-service and comes back.                            *)

\* Each block with its page and its place: content-service keeps them as rows,
\* in no order of their own, and takes no two for one place.
toBlocks(ps) == UNION {
    {[page_index |-> p, order_index |-> b, kind |-> ps[p].blocks[b].kind, n |-> ps[p].blocks[b].n] :
        b \in DOMAIN ps[p].blocks} : p \in DOMAIN ps}
\* The rows by page and place; a page is the rows with its number, in their
\* order. The i-th page number and the i-th row are the ones that so many do not
\* come after.
toPagesMutant(blocks) ==
    LET numbers == {r.page_index : r \in blocks}
        number(i) == CHOOSE p \in numbers : Cardinality({q \in numbers : q <= p}) = i
        on(p) == {r \in blocks : r.page_index = p}
        row(p, i) == CHOOSE r \in on(p) : Cardinality({q \in on(p) : r.order_index <= q.order_index}) = i
    IN  [i \in 1..Cardinality(numbers) |-> [j \in 1..Cardinality(on(number(i))) |-> row(number(i), j)]]
toPages(blocks) ==
    LET numbers == {r.page_index : r \in blocks}
        number(i) == CHOOSE p \in numbers : Cardinality({q \in numbers : q <= p}) = i
        on(p) == {r \in blocks : r.page_index = p}
        row(p, i) == CHOOSE r \in on(p) : Cardinality({q \in on(p) : q.order_index <= r.order_index}) = i
    IN  [i \in 1..Cardinality(numbers) |-> [j \in 1..Cardinality(on(number(i))) |-> row(number(i), j)]]

-----------------------------------------------------------------------------
(* Properties.                                                             *)

BlockKeys(ps) == {x \in (1..LIMITS.pages) \X (1..2 * LIMITS.blocksPerPage) :
                    x[1] \in DOMAIN ps /\ x[2] \in DOMAIN ps[x[1]].blocks}

\* Every slide and every block has a key of its own, also the copies of
\* duplicateSlide: with a key twice, what is typed in one shows in the other.
KeysAreUnique ==
    /\ \A p, q \in DOMAIN pages : p # q => pages[p].key # pages[q].key
    /\ \A x, y \in BlockKeys(pages) :
         x # y => pages[x[1]].blocks[x[2]].key # pages[y[1]].blocks[y[2]].key

\* SlidesEditor.tsx:61 keeps the newest pages "for when an upload ends after
\* more edits": a picture that arrives undoes none of them.
UploadUndoesNothing ==
    [][\A u \in uploads : u \notin uploads' /\ u.mount = deck.mount /\ deck.tab = "content" =>
         /\ Len(pages') = Len(pages)
         /\ \A x \in BlockKeys(pages) :
              /\ x \in BlockKeys(pages')
              /\ LET was == pages[x[1]].blocks[x[2]]
                     is == pages'[x[1]].blocks[x[2]]
                 IN  is.key = was.key /\ is.filled = was.filled /\ (was.kind = "imagen" \/ is = was)]_vars

\* SlidesEditor.tsx:94: the picture goes "in a new block (at the end of the
\* slide) or in place of the old picture", those it was asked for. The
\* code does not hold it: the slides may have moved meanwhile.
ImageGoesWhereAsked ==
    [][\A u \in uploads : u \notin uploads' /\ u.page \in DOMAIN latest(u) /\ pages' # pages =>
         IF u.block = 0 THEN latest(u)[u.page].key = u.of
         ELSE u.block \in DOMAIN latest(u)[u.page].blocks /\ latest(u)[u.page].blocks[u.block].key = u.of]_vars

\* An edit of the slides is not lost because an upload ends: the mount that
\* is gone does not bring its old pages back. The code does not hold it when the
\* teacher left the tab and came back.
OldPagesStayGone ==
    [][\A u \in uploads : u \notin uploads' /\ u.mount # deck.mount => Len(pages') >= Len(pages)]_vars

\* What is saved is read back the same: the slides with something on them, in
\* their order, each with its blocks in theirs.
ComesBackTheSame ==
    LET back == toPages(toBlocks(pages))
        sent == {p \in DOMAIN pages : pages[p].blocks # <<>>}
    IN  /\ Len(back) = Cardinality(sent)
        /\ \A p \in sent :
             LET slide == back[Cardinality({q \in sent : q <= p})]
             IN  /\ Len(slide) = Len(pages[p].blocks)
                 /\ \A b \in DOMAIN slide :
                      slide[b].kind = pages[p].blocks[b].kind /\ slide[b].n = pages[p].blocks[b].n
=============================================================================
