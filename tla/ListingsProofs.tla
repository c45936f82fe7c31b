--------------------------- MODULE ListingsProofs ---------------------------
(***************************************************************************)
(* Theorems about Listings, for any number of listings and edits.          *)
(***************************************************************************)
EXTENDS Listings, TLAPS

\* What is under way concerns a listing there is.
UnderWayIsListed ==
    \A h \in HotelIds : edits[h] > 0 \/ h \in resets \/ h \in jobs => h \in Listed

\* The ids are given out in order.
MadeInOrder == \A h \in Listed : h < nextHotel

IInv == /\ TypeOK
        /\ UnderWayIsListed
        /\ MadeInOrder
        /\ ChangesAreReviewed
        /\ SuspendedStayHidden

USE DEF HotelIds

-----------------------------------------------------------------------------

\* What IInv says of one row.
RowInv(h, row, edited, resetting) ==
    /\ row \in Hotel
    /\ row.status = "published" /\ row.content = "edited" => edited > 0 \/ resetting
    /\ row.kept => row.status # "published"

LEMMA ListedRow ==
    ASSUME IInv, NEW h \in Listed
    PROVE  /\ h \in HotelIds /\ h < nextHotel
           /\ RowInv(h, hotels[h], edits[h], h \in resets)
    BY DEF IInv, TypeOK, ChangesAreReviewed, SuspendedStayHidden, MadeInOrder, RowInv, Listed

LEMMA ListedIsHotel ==
    ASSUME TypeOK, NEW h \in HotelIds
    PROVE  h \in Listed <=> hotels[h] \in Hotel
    BY DEF TypeOK, Listed, Hotel, NoHotel

\* A step that changes one row, and the edits and resets of that row only,
\* keeps the invariant if the new row does.
LEMMA RowStep ==
    ASSUME IInv, NEW h \in HotelIds, NEW row,
           hotels' = [hotels EXCEPT ![h] = row],
           RowInv(h, row, edits'[h], h \in resets'),
           edits' \in [HotelIds -> 0..MaxEdits],
           resets' \subseteq HotelIds,
           \A g \in HotelIds : g # h => /\ edits'[g] = edits[g]
                                        /\ g \in resets' <=> g \in resets
                                        /\ g \in jobs' => g \in jobs,
           jobs' \subseteq HotelIds, org' \in PartnerStatus, hiding' \in BOOLEAN,
           nextHotel' \in 1..(MaxHotels + 1), h < nextHotel', nextHotel <= nextHotel'
    PROVE  IInv'
<1>1. TypeOK'
    BY DEF IInv, TypeOK, RowInv
<1>2. \A g \in HotelIds : g # h => hotels'[g] = hotels[g]
    BY DEF IInv, TypeOK
<1>3. hotels'[h] = row /\ h \in Listed'
    BY ListedIsHotel DEF IInv, TypeOK, RowInv, Listed, Hotel, NoHotel
<1>4. \A g \in HotelIds : g # h => (g \in Listed' <=> g \in Listed)
    BY <1>2 DEF Listed
<1>5. UnderWayIsListed'
    BY <1>3, <1>4 DEF IInv, UnderWayIsListed
<1>6. ChangesAreReviewed'
    BY <1>2, <1>3, <1>4 DEF IInv, ChangesAreReviewed, RowInv, Listed
<1>7. SuspendedStayHidden'
    BY <1>2, <1>3, <1>4 DEF IInv, SuspendedStayHidden, RowInv, Listed
<1>8. MadeInOrder'
    BY <1>1, <1>4, ListingsAssumption DEF IInv, TypeOK, MadeInOrder, Listed
<1> QED
    BY <1>1, <1>5, <1>6, <1>7, <1>8 DEF IInv

\* The same when the row was there and nothing is said of the partner.
LEMMA OneRow ==
    ASSUME IInv, NEW h \in Listed, NEW row,
           hotels' = [hotels EXCEPT ![h] = row],
           RowInv(h, row, edits'[h], h \in resets'),
           edits' \in [HotelIds -> 0..MaxEdits],
           resets' \subseteq HotelIds,
           \A g \in HotelIds : g # h => /\ edits'[g] = edits[g]
                                        /\ g \in resets' <=> g \in resets
                                        /\ g \in jobs' => g \in jobs,
           jobs' \subseteq HotelIds,
           UNCHANGED <<org, nextHotel, hiding>>
    PROVE  IInv'
<1>1. h \in HotelIds /\ h < nextHotel
    BY ListedRow
<1>2. /\ nextHotel' \in 1..(MaxHotels + 1) /\ h < nextHotel' /\ nextHotel <= nextHotel'
      /\ org' \in PartnerStatus /\ hiding' \in BOOLEAN
    BY <1>1, ListingsAssumption DEF IInv, TypeOK
<1> QED
    BY <1>1, <1>2, RowStep

-----------------------------------------------------------------------------
(* The partner *)

LEMMA InitIInv == Init => IInv
<1> SUFFICES ASSUME Init PROVE IInv
    OBVIOUS
<1>1. Listed = {}
    BY DEF Init, Listed
<1>2. TypeOK
    <2>1. hotels \in [HotelIds -> Hotel \union {NoHotel}]
        BY DEF Init
    <2>2. edits \in [HotelIds -> 0..MaxEdits]
        BY ListingsAssumption DEF Init
    <2>3. nextHotel \in 1..(MaxHotels + 1)
        BY ListingsAssumption DEF Init
    <2> QED
        BY <2>1, <2>2, <2>3 DEF Init, TypeOK, PartnerStatus
<1>3. UnderWayIsListed
    BY DEF Init, UnderWayIsListed
<1> QED
    BY <1>1, <1>2, <1>3 DEF IInv, ChangesAreReviewed, SuspendedStayHidden, MadeInOrder

\* A step that leaves the rows alone and takes no edit or reset off them.
LEMMA RowsStay ==
    ASSUME IInv, UNCHANGED <<hotels, nextHotel, edits, resets>>,
           jobs' \subseteq jobs, org' \in PartnerStatus, hiding' \in BOOLEAN
    PROVE  IInv'
    BY DEF IInv, TypeOK, UnderWayIsListed, ChangesAreReviewed, SuspendedStayHidden, Listed,
           MadeInOrder

LEMMA HideKeepsIInv ==
    ASSUME IInv, HideListings
    PROVE  IInv'
<1>1. \A h \in Listed : /\ hotels'[h] \in Hotel
                         /\ hotels'[h].status = "hidden"
    BY ListedRow DEF HideListings, RowInv, Hotel, HotelStatus
<1>2. \A h \in HotelIds : h \notin Listed => hotels'[h] = NoHotel
    BY DEF HideListings, Listed
<1>3. TypeOK'
    BY <1>1, <1>2 DEF HideListings, IInv, TypeOK
<1>4. Listed' = Listed
    BY <1>1, <1>2 DEF Listed, Hotel, NoHotel
<1> QED
    BY <1>1, <1>3, <1>4
       DEF HideListings, IInv, UnderWayIsListed, MadeInOrder, ChangesAreReviewed,
           SuspendedStayHidden

LEMMA PartnerKeepsIInv ==
    ASSUME IInv, PartnerStep
    PROVE  IInv'
<1>1. CASE SubmitApplication \/ ResubmitApplication
    BY <1>1, RowsStay DEF SubmitApplication, ResubmitApplication, PartnerStatus, IInv, TypeOK
<1>2. ASSUME NEW status \in Decisions, PartnerDecision(status) \/ PartnerStatusWrite(status)
      PROVE  IInv'
    BY <1>2, RowsStay, ListingsAssumption
       DEF PartnerDecision, PartnerStatusWrite, PartnerStatus, IInv, TypeOK
<1>3. CASE AbandonHiding
    BY <1>3, RowsStay DEF AbandonHiding, IInv, TypeOK
<1> QED
    BY <1>1, <1>2, <1>3, HideKeepsIInv DEF PartnerStep

-----------------------------------------------------------------------------
(* The listings *)

LEMMA CreateKeepsIInv ==
    ASSUME IInv, NEW translate \in BOOLEAN, CreateHotel(translate)
    PROVE  IInv'
<1>1. RowInv(nextHotel, NewHotel, edits'[nextHotel], nextHotel \in resets')
    BY DEF RowInv, NewHotel, Hotel, HotelStatus, Content
<1>2. /\ nextHotel \in HotelIds /\ nextHotel' = nextHotel + 1
      /\ nextHotel' \in 1..(MaxHotels + 1) /\ nextHotel < nextHotel'
      /\ nextHotel <= nextHotel'
    BY ListingsAssumption DEF CreateHotel, IInv, TypeOK
<1>3. jobs' \subseteq jobs \union {nextHotel}
    BY DEF CreateHotel
<1> QED
    BY <1>1, <1>2, <1>3, RowStep DEF CreateHotel, IInv, TypeOK

\* The steps that write one listing, by the row they leave.
LEMMA EditKeepsIInv ==
    ASSUME IInv, NEW h \in HotelIds,
           \/ \E translate \in BOOLEAN : BeginEdit(h, translate)
           \/ FinishEdit(h) \/ AbandonEdit(h) \/ EditRules(h)
    PROVE  IInv'
<1>1. h \in Listed /\ h < nextHotel /\ RowInv(h, hotels[h], edits[h], h \in resets)
    BY ListedRow DEF BeginEdit, FinishEdit, AbandonEdit, EditRules, IInv, UnderWayIsListed
<1>2. ASSUME NEW translate \in BOOLEAN, BeginEdit(h, translate)
      PROVE  IInv'
    <2> DEFINE row == [hotels[h] EXCEPT !.content = "edited"]
    <2>1. edits'[h] = edits[h] + 1 /\ edits' \in [HotelIds -> 0..MaxEdits]
        BY <1>2, ListingsAssumption DEF BeginEdit, IInv, TypeOK
    <2>2. RowInv(h, row, edits'[h], h \in resets')
        BY <1>1, <2>1 DEF RowInv, Hotel, Content, IInv, TypeOK
    <2> QED
        BY <1>1, <1>2, <2>1, <2>2, OneRow DEF BeginEdit, IInv, TypeOK
<1>3. CASE FinishEdit(h)
    <2> DEFINE row == [hotels[h] EXCEPT !.status = Touched(h)]
    <2>1. edits'[h] = edits[h] - 1 /\ edits' \in [HotelIds -> 0..MaxEdits]
        BY <1>3, ListingsAssumption DEF FinishEdit, IInv, TypeOK
    <2>2. RowInv(h, row, edits'[h], h \in resets')
        BY <1>1 DEF RowInv, Hotel, HotelStatus, Touched
    <2> QED
        BY <1>1, <1>3, <2>1, <2>2, OneRow DEF FinishEdit, Set, IInv, TypeOK
<1>4. CASE AbandonEdit(h)
    <2> DEFINE row == [hotels[h] EXCEPT !.content = "loose"]
    <2>1. edits'[h] = edits[h] - 1 /\ edits' \in [HotelIds -> 0..MaxEdits]
        BY <1>4, ListingsAssumption DEF AbandonEdit, IInv, TypeOK
    <2>2. RowInv(h, row, edits'[h], h \in resets')
        BY <1>1 DEF RowInv, Hotel, Content
    <2> QED
        BY <1>1, <1>4, <2>1, <2>2, OneRow DEF AbandonEdit, IInv, TypeOK
<1>5. CASE EditRules(h)
    <2> DEFINE row == [hotels[h] EXCEPT !.content = "edited", !.status = Touched(h)]
    <2>1. RowInv(h, row, edits'[h], h \in resets')
        BY <1>1 DEF RowInv, Hotel, HotelStatus, Content, Touched
    <2>2. hotels' = [hotels EXCEPT ![h] = row]
        BY <1>5 DEF EditRules, IInv, TypeOK
    <2> QED
        BY <1>1, <1>5, <2>1, <2>2, OneRow DEF EditRules, IInv, TypeOK
<1> QED
    BY <1>2, <1>3, <1>4, <1>5

LEMMA ChangeKeepsIInv ==
    ASSUME IInv, NEW h \in HotelIds, NEW status \in HotelStatus,
           UpdateHotel(h, status) \/ ChangeRooms(h) \/ SetListingStatus(h, status)
    PROVE  IInv'
<1>1. h \in Listed /\ h < nextHotel /\ RowInv(h, hotels[h], edits[h], h \in resets)
    BY ListedRow DEF UpdateHotel, ChangeRooms, SetListingStatus
<1>2. CASE UpdateHotel(h, status)
    <2> DEFINE row == [hotels[h] EXCEPT !.content = "loose",
                                        !.status  = status,
                                        !.kept    = @ /\ status # "published"]
    <2>1. RowInv(h, row, edits'[h], h \in resets')
        BY <1>1 DEF RowInv, Hotel, Content
    <2>2. hotels' = [hotels EXCEPT ![h] = row]
        BY <1>2 DEF UpdateHotel, IInv, TypeOK
    <2> QED
        BY <1>1, <1>2, <2>1, <2>2, OneRow DEF UpdateHotel, IInv, TypeOK
<1>3. CASE ChangeRooms(h)
    <2> DEFINE row == [hotels[h] EXCEPT !.content = "loose"]
    <2>1. RowInv(h, row, edits'[h], h \in resets')
        BY <1>1 DEF RowInv, Hotel, Content
    <2> QED
        BY <1>1, <1>3, <2>1, OneRow DEF ChangeRooms, IInv, TypeOK
<1>4. CASE SetListingStatus(h, status)
    <2> DEFINE row == [hotels[h] EXCEPT !.status = status]
    <2>1. RowInv(h, row, edits'[h], h \in resets')
        BY <1>1, <1>4 DEF SetListingStatus, RowInv, Hotel
    <2> QED
        BY <1>1, <1>4, <2>1, OneRow DEF SetListingStatus, Set, IInv, TypeOK
<1> QED
    BY <1>2, <1>3, <1>4

LEMMA ResetKeepsIInv ==
    ASSUME IInv, NEW h \in HotelIds, BeginReset(h) \/ FinishReset(h) \/ AbandonReset(h)
    PROVE  IInv'
<1>1. h \in Listed /\ h < nextHotel /\ RowInv(h, hotels[h], edits[h], h \in resets)
    BY ListedRow DEF BeginReset, FinishReset, AbandonReset, IInv, UnderWayIsListed
<1>2. CASE BeginReset(h)
    <2> DEFINE row == [hotels[h] EXCEPT !.content = "edited"]
    <2>1. RowInv(h, row, edits'[h], h \in resets')
        BY <1>1, <1>2 DEF BeginReset, RowInv, Hotel, Content
    <2> QED
        BY <1>1, <1>2, <2>1, OneRow DEF BeginReset, IInv, TypeOK
<1>3. CASE FinishReset(h)
    <2> DEFINE row == [hotels[h] EXCEPT !.status = "draft", !.prepared = FALSE]
    <2>1. RowInv(h, row, edits'[h], h \in resets')
        BY <1>1 DEF RowInv, Hotel, HotelStatus
    <2>2. hotels' = [hotels EXCEPT ![h] = row]
        BY <1>3 DEF FinishReset, IInv, TypeOK
    <2> QED
        BY <1>1, <1>3, <2>1, <2>2, OneRow DEF FinishReset, IInv, TypeOK
<1>4. CASE AbandonReset(h)
    <2> DEFINE row == [hotels[h] EXCEPT !.content = "loose"]
    <2>1. RowInv(h, row, edits'[h], h \in resets')
        BY <1>1 DEF RowInv, Hotel, Content
    <2> QED
        BY <1>1, <1>4, <2>1, OneRow DEF AbandonReset, IInv, TypeOK
<1> QED
    BY <1>2, <1>3, <1>4

LEMMA JobKeepsIInv ==
    ASSUME IInv, NEW h \in HotelIds, Translate(h) \/ DropJob(h)
    PROVE  IInv'
<1>1. h \in Listed /\ h < nextHotel /\ RowInv(h, hotels[h], edits[h], h \in resets)
    BY ListedRow DEF Translate, DropJob, IInv, UnderWayIsListed
<1>2. CASE Translate(h)
    <2> DEFINE row == [hotels[h] EXCEPT !.content = "loose"]
    <2>1. RowInv(h, row, edits'[h], h \in resets')
        BY <1>1 DEF RowInv, Hotel, Content
    <2> QED
        BY <1>1, <1>2, <2>1, OneRow DEF Translate, IInv, TypeOK
<1>3. CASE DropJob(h)
    BY <1>3, RowsStay DEF DropJob, IInv, TypeOK
<1> QED
    BY <1>2, <1>3

LEMMA ListingKeepsIInv ==
    ASSUME IInv, ListingStep
    PROVE  IInv'
<1>1. ASSUME NEW translate \in BOOLEAN, CreateHotel(translate)
      PROVE  IInv'
    BY <1>1, CreateKeepsIInv
<1>2. ASSUME NEW h \in HotelIds,
             \/ \E translate \in BOOLEAN : BeginEdit(h, translate)
             \/ FinishEdit(h) \/ AbandonEdit(h) \/ EditRules(h)
      PROVE  IInv'
    BY <1>2, EditKeepsIInv
<1>3. ASSUME NEW h \in HotelIds, NEW status \in HotelStatus,
             UpdateHotel(h, status) \/ ChangeRooms(h) \/ SetListingStatus(h, status)
      PROVE  IInv'
    BY <1>3, ChangeKeepsIInv
<1>4. ASSUME NEW h \in HotelIds,
             \/ BeginReset(h) \/ FinishReset(h) \/ AbandonReset(h)
             \/ Translate(h) \/ DropJob(h)
      PROVE  IInv'
    BY <1>4, ResetKeepsIInv, JobKeepsIInv
<1>5. "draft" \in HotelStatus
    BY DEF HotelStatus
<1> QED
    BY <1>1, <1>2, <1>3, <1>4, <1>5 DEF ListingStep

-----------------------------------------------------------------------------
(* The verdicts *)

\* The row the administrator leaves of the listing.
VerdictRow(h, status) ==
    [hotels[h] EXCEPT !.status   = status,
                      !.prepared = @ \/ status # "hidden",
                      !.content  = IF status = "published" THEN "judged" ELSE @,
                      !.kept     = @ /\ status # "published"]

LEMMA VerdictIsRow ==
    ASSUME IInv, NEW h \in Listed, NEW status \in {"published", "hidden", "rejected"}
    PROVE  /\ h \in HotelIds /\ h < nextHotel
           /\ Verdict(h, status) = [hotels EXCEPT ![h] = VerdictRow(h, status)]
           /\ RowInv(h, VerdictRow(h, status), edits[h], h \in resets)
<1>1. /\ h \in HotelIds /\ h < nextHotel
      /\ RowInv(h, hotels[h], edits[h], h \in resets)
    BY ListedRow
<1>2. Verdict(h, status) = [hotels EXCEPT ![h] = VerdictRow(h, status)]
    BY <1>1 DEF Verdict, VerdictRow, IInv, TypeOK
<1>3. RowInv(h, VerdictRow(h, status), edits[h], h \in resets)
    BY <1>1 DEF RowInv, VerdictRow, Hotel, HotelStatus, Content
<1> QED
    BY <1>1, <1>2, <1>3

\* A decision with the making or wiping of a next draft: two rows change.
LEMMA TwoRows ==
    ASSUME IInv, NEW h \in Listed, NEW status \in {"published", "rejected"},
           NEW d \in HotelIds, d # h, NEW row \in Hotel,
           row.status = "draft",
           hotels' = [Verdict(h, status) EXCEPT ![d] = row],
           nextHotel' \in 1..(MaxHotels + 1), d < nextHotel', nextHotel <= nextHotel',
           UNCHANGED <<org, edits, resets, jobs, hiding>>
    PROVE  IInv'
<1>1. /\ h \in HotelIds /\ h < nextHotel
      /\ Verdict(h, status) = [hotels EXCEPT ![h] = VerdictRow(h, status)]
      /\ RowInv(h, VerdictRow(h, status), edits[h], h \in resets)
    BY VerdictIsRow
<1>2. /\ hotels'[h] = VerdictRow(h, status)
      /\ hotels'[d] = row
      /\ \A g \in HotelIds \ {h, d} : hotels'[g] = hotels[g]
    BY <1>1 DEF IInv, TypeOK
<1>3. TypeOK'
    BY <1>1 DEF IInv, TypeOK, RowInv
<1>4. \A g \in HotelIds : g \in Listed => g \in Listed'
    <2>1. h \in Listed' /\ d \in Listed'
        BY <1>1, <1>2, <1>3, ListedIsHotel DEF RowInv, Listed, Hotel, NoHotel
    <2> QED
        BY <1>2, <2>1 DEF Listed
<1>5. UnderWayIsListed'
    BY <1>4 DEF IInv, UnderWayIsListed
<1>6. ChangesAreReviewed'
    BY <1>1, <1>2 DEF IInv, ChangesAreReviewed, RowInv, Listed
<1>7. SuspendedStayHidden'
    BY <1>1, <1>2 DEF IInv, SuspendedStayHidden, RowInv, Listed
<1>8. MadeInOrder'
    BY <1>1, <1>2, <1>3, ListingsAssumption DEF IInv, TypeOK, MadeInOrder, Listed
<1> QED
    BY <1>3, <1>5, <1>6, <1>7, <1>8 DEF IInv

LEMMA VerdictKeepsIInv ==
    ASSUME IInv, VerdictStep
    PROVE  IInv'
<1>1. ASSUME NEW h \in HotelIds, NEW status \in HotelStatus, HotelStatusWrite(h, status)
      PROVE  IInv'
    <2>1. /\ h < nextHotel
          /\ hotels' = [hotels EXCEPT ![h] = VerdictRow(h, status)]
          /\ RowInv(h, VerdictRow(h, status), edits[h], h \in resets)
        BY <1>1, VerdictIsRow DEF HotelStatusWrite
    <2> QED
        BY <1>1, <2>1, OneRow DEF HotelStatusWrite, IInv, TypeOK
<1>2. ASSUME NEW h \in HotelIds, NEW status \in HotelStatus, NEW d \in HotelIds,
             HotelStatusReuse(h, status, d)
      PROVE  IInv'
    <2> DEFINE row == [hotels[d] EXCEPT !.prepared = FALSE, !.content = "edited"]
    <2>1. d # h /\ d \in Listed /\ d < nextHotel /\ hotels[d].status = "draft"
        BY <1>2, ListedRow DEF HotelStatusReuse, Drafts
    <2>2. row \in Hotel /\ row.status = "draft"
        BY <2>1, ListedRow DEF RowInv, Hotel, Content
    <2>3. Verdict(h, status) = [hotels EXCEPT ![h] = VerdictRow(h, status)]
        BY <1>2, VerdictIsRow DEF HotelStatusReuse
    <2>4. hotels' = [Verdict(h, status) EXCEPT ![d] = row]
        BY <1>2, <2>1, <2>3 DEF HotelStatusReuse, IInv, TypeOK
    <2> QED
        <3>1. /\ h \in Listed /\ status \in {"published", "rejected"}
              /\ UNCHANGED <<org, nextHotel, edits, resets, jobs, hiding>>
            BY <1>2 DEF HotelStatusReuse
        <3>2. nextHotel' \in 1..(MaxHotels + 1) /\ d < nextHotel' /\ nextHotel <= nextHotel'
            BY <2>1, <3>1 DEF IInv, TypeOK
        <3> QED
            BY <2>1, <2>2, <2>4, <3>1, <3>2, TwoRows
<1>3. ASSUME NEW h \in HotelIds, NEW status \in HotelStatus, HotelStatusInsert(h, status)
      PROVE  IInv'
    <2>1. NewHotel \in Hotel /\ NewHotel.status = "draft"
        BY DEF NewHotel, Hotel, HotelStatus, Content
    <2>2. nextHotel # h /\ nextHotel' = nextHotel + 1
        BY <1>3, ListedRow DEF HotelStatusInsert, IInv, TypeOK
    <2> QED
        <3>1. /\ h \in Listed /\ status \in {"published", "rejected"}
              /\ nextHotel \in HotelIds
              /\ hotels' = [Verdict(h, status) EXCEPT ![nextHotel] = NewHotel]
              /\ UNCHANGED <<org, edits, resets, jobs, hiding>>
            BY <1>3 DEF HotelStatusInsert
        <3>2. /\ nextHotel' \in 1..(MaxHotels + 1)
              /\ nextHotel < nextHotel' /\ nextHotel <= nextHotel'
            BY <2>2, <3>1, ListingsAssumption
        <3> QED
            BY <2>1, <2>2, <3>1, <3>2, TwoRows
<1> QED
    BY <1>1, <1>2, <1>3 DEF VerdictStep

-----------------------------------------------------------------------------
(* The theorems *)

LEMMA NextKeepsIInv == IInv /\ [Next]_vars => IInv'
<1>1. ASSUME IInv, UNCHANGED vars
      PROVE  IInv'
    BY <1>1, RowsStay DEF vars, IInv, TypeOK
<1> QED
    BY <1>1, PartnerKeepsIInv, ListingKeepsIInv, VerdictKeepsIInv DEF Next

LEMMA IInvAlways == Spec => []IInv
    BY InitIInv, NextKeepsIInv, PTL DEF Spec

\* The partner's row, its listings and what is under way keep their types.
THEOREM ListingsTypeCorrect == Spec => []TypeOK
    BY IInvAlways, PTL DEF IInv

\* For any number of listings and of edits that overlap, content that changes
\* after its publication goes back to the review (touchHotel and its callers).
THEOREM ChangesGoToReview == Spec => []ChangesAreReviewed
    BY IInvAlways, PTL DEF IInv

\* Nothing a suspension has hidden is published but by an administrator's
\* decision on that listing or by updateHotel (partnerStatus).
THEOREM SuspensionIsNotUndone == Spec => []SuspendedStayHidden
    BY IInvAlways, PTL DEF IInv

=============================================================================
