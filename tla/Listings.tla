------------------------------ MODULE Listings ------------------------------
(***************************************************************************)
(* The hotel listings of one partner organisation and who decides what     *)
(* guests see of them: the partner edits and submits (partners.service),   *)
(* administrators decide on listings and on the partner (admin.service), a *)
(* background job translates (jobs.processor).  Guests see the published   *)
(* listings of an approved partner (hotels.service).                       *)
(*                                                                         *)
(* The text, pictures, location and rules of a listing are its content.    *)
(* Most edits write it in one statement and take a published listing back  *)
(* to the review in another, with no transaction around them.              *)
(***************************************************************************)
EXTENDS Naturals

CONSTANTS
    Decisions,   \* statuses administrators give the partner, see PartnerStatus
    MaxHotels,   \* bound: listings ever made
    MaxEdits     \* bound: edits of a listing between their two statements

PartnerStatus == {"draft", "submitted", "under_review", "more_information_required",
                  "approved", "suspended", "rejected", "blocked"}

ASSUME ListingsAssumption ==
    /\ Decisions \subseteq PartnerStatus
    /\ MaxHotels \in Nat
    /\ MaxEdits \in Nat

HotelIds == 1..MaxHotels

VARIABLES
    org,        \* partner_organizations.status
    hotels,     \* the rows of hotels, by id
    nextHotel,  \* the id the next row takes
    edits,      \* per listing, the edits between their two statements
    resets,     \* listings whose reset has wiped the content so far
    jobs,       \* listings with a translation under way
    hiding      \* partnerStatus has yet to hide the listings

vars == <<org, hotels, nextHotel, edits, resets, jobs, hiding>>

-----------------------------------------------------------------------------

HotelStatus == {"draft", "pending_review", "published", "hidden", "rejected"}

\* History: who has changed the content since an administrator last published
\* the listing - nobody, an edit that also takes the listing back to the review,
\* or something that does not.
Content == {"judged", "edited", "loose"}

\* prepared is next_draft_prepared_at, set or not.  kept is history: the listing
\* has not been published, by an administrator or by updateHotel, since a
\* suspension hid it.
Hotel == [status   : HotelStatus,
          prepared : BOOLEAN,
          content  : Content,
          kept     : BOOLEAN]

NoHotel  == [status |-> "none"]
NewHotel == [status |-> "draft", prepared |-> FALSE, content |-> "edited", kept |-> FALSE]

TypeOK ==
    /\ org \in PartnerStatus
    /\ hotels \in [HotelIds -> Hotel \union {NoHotel}]
    /\ nextHotel \in 1..(MaxHotels + 1)
    /\ edits \in [HotelIds -> 0..MaxEdits]
    /\ resets \subseteq HotelIds
    /\ jobs \subseteq HotelIds
    /\ hiding \in BOOLEAN

Init ==
    /\ org = "submitted"
    /\ hotels = [h \in HotelIds |-> NoHotel]
    /\ nextHotel = 1
    /\ edits = [h \in HotelIds |-> 0]
    /\ resets = {}
    /\ jobs = {}
    /\ hiding = FALSE

Listed == {h \in HotelIds : hotels[h] # NoHotel}

-----------------------------------------------------------------------------
(* The partner organisation *)

\* submitApplication asks for no status.
SubmitApplication ==
    /\ org' = "submitted"
    /\ UNCHANGED <<hotels, nextHotel, edits, resets, jobs, hiding>>

ResubmitApplication ==
    /\ org \in {"rejected", "more_information_required"}
    /\ org' = "submitted"
    /\ UNCHANGED <<hotels, nextHotel, edits, resets, jobs, hiding>>

\* The decision on the application leaves the listings alone.
PartnerDecision(status) ==
    /\ status \in {"approved", "rejected", "more_information_required"}
    /\ org' = status
    /\ UNCHANGED <<hotels, nextHotel, edits, resets, jobs, hiding>>

\* Faulty variants, used by no action: each is what a plausible mistake would
\* make of the definition it is named for.

\* for PartnerStatusWrite: approval brings the listings back.
PartnerStatusRestoring(status) ==
    /\ org' = status
    /\ hiding' = (hiding \/ status # "approved")
    /\ hotels' = [h \in HotelIds |->
                     IF status = "approved" /\ h \in Listed
                     THEN [hotels[h] EXCEPT !.status = "published"] ELSE hotels[h]]
    /\ UNCHANGED <<nextHotel, edits, resets, jobs>>

\* for PartnerStatusWrite: the "active" of the admin panel is written as it is.
PartnerStatusAsAsked(status) ==
    /\ org' = IF status = "approved" THEN "active" ELSE status
    /\ hiding' = (hiding \/ status # "approved")
    /\ UNCHANGED <<hotels, nextHotel, edits, resets, jobs>>

\* partnerStatus writes the partner's row first, "active" as approved ...
PartnerStatusWrite(status) ==
    /\ org' = status
    /\ hiding' = (hiding \/ status # "approved")
    /\ UNCHANGED <<hotels, nextHotel, edits, resets, jobs>>

\* ... and then hides every listing, drafts too (syncPartnerPublicVisibility).
HideListings ==
    /\ hiding
    /\ hiding' = FALSE
    /\ hotels' = [h \in HotelIds |->
                     IF h \in Listed
                     THEN [hotels[h] EXCEPT !.status = "hidden", !.kept = TRUE]
                     ELSE hotels[h]]
    /\ UNCHANGED <<org, nextHotel, edits, resets, jobs>>

\* The request dies in between.
AbandonHiding ==
    /\ hiding
    /\ hiding' = FALSE
    /\ UNCHANGED <<org, hotels, nextHotel, edits, resets, jobs>>

-----------------------------------------------------------------------------
(* The partner's listings *)

\* roles.guard: what is left to a partner in these statuses is the profile,
\* the application and the support chat.
Admitted == org \notin {"blocked", "suspended", "rejected"}

Set(h, status) == [hotels EXCEPT ![h].status = status]

\* A missing translation is left to the job.
CreateHotel(translate) ==
    /\ Admitted
    /\ nextHotel \in HotelIds
    /\ hotels' = [hotels EXCEPT ![nextHotel] = NewHotel]
    /\ nextHotel' = nextHotel + 1
    /\ jobs' = IF translate THEN jobs \union {nextHotel} ELSE jobs
    /\ UNCHANGED <<org, edits, resets, hiding>>

\* The general data, the location, the amenities or a picture of the listing
\* or of its rooms: first the content.  Only the general data are translated.
BeginEdit(h, translate) ==
    /\ Admitted
    /\ h \in Listed
    /\ edits[h] < MaxEdits
    /\ hotels' = [hotels EXCEPT ![h].content = "edited"]
    /\ edits' = [edits EXCEPT ![h] = @ + 1]
    /\ jobs' = IF translate THEN jobs \union {h} ELSE jobs
    /\ UNCHANGED <<org, nextHotel, resets, hiding>>

\* for Touched: a published listing stays so.
TouchedOnly(h) == hotels[h].status

\* touchHotel.
Touched(h) ==
    IF hotels[h].status = "published" THEN "pending_review" ELSE hotels[h].status

FinishEdit(h) ==
    /\ edits[h] > 0
    /\ edits' = [edits EXCEPT ![h] = @ - 1]
    /\ hotels' = Set(h, Touched(h))
    /\ UNCHANGED <<org, nextHotel, resets, jobs, hiding>>

AbandonEdit(h) ==
    /\ edits[h] > 0
    /\ edits' = [edits EXCEPT ![h] = @ - 1]
    /\ hotels' = [hotels EXCEPT ![h].content = "loose"]
    /\ UNCHANGED <<org, nextHotel, resets, jobs, hiding>>

\* updateListingRules does both in one statement.
EditRules(h) ==
    /\ Admitted
    /\ h \in Listed
    /\ hotels' = [hotels EXCEPT ![h].content = "edited", ![h].status = Touched(h)]
    /\ UNCHANGED <<org, nextHotel, edits, resets, jobs, hiding>>

\* updateHotel: content, and the status if the request has one.  Rooms, beds,
\* prices and amenities of rooms change without a touch, too, see ChangeRooms.
UpdateHotel(h, status) ==
    /\ Admitted
    /\ h \in Listed
    /\ hotels' = [hotels EXCEPT ![h].content = "loose",
                                ![h].status  = status,
                                ![h].kept    = @ /\ status # "published"]
    /\ UNCHANGED <<org, nextHotel, edits, resets, jobs, hiding>>

ChangeRooms(h) ==
    /\ Admitted
    /\ h \in Listed
    /\ hotels' = [hotels EXCEPT ![h].content = "loose"]
    /\ UNCHANGED <<org, nextHotel, edits, resets, jobs, hiding>>

\* submitHotelReview, publishListing, updateListingStatus: the partner's
\* statuses are written whatever the listing's was.
SetListingStatus(h, status) ==
    /\ Admitted
    /\ h \in Listed
    /\ status \in {"pending_review", "hidden", "draft"}
    /\ hotels' = Set(h, status)
    /\ UNCHANGED <<org, nextHotel, edits, resets, jobs, hiding>>

\* resetHotel wipes the content table by table, and then the row.
BeginReset(h) ==
    /\ Admitted
    /\ h \in Listed
    /\ hotels' = [hotels EXCEPT ![h].content = "edited"]
    /\ resets' = resets \union {h}
    /\ UNCHANGED <<org, nextHotel, edits, jobs, hiding>>

FinishReset(h) ==
    /\ h \in resets
    /\ resets' = resets \ {h}
    /\ hotels' = [hotels EXCEPT ![h].status = "draft", ![h].prepared = FALSE]
    /\ UNCHANGED <<org, nextHotel, edits, jobs, hiding>>

AbandonReset(h) ==
    /\ h \in resets
    /\ resets' = resets \ {h}
    /\ hotels' = [hotels EXCEPT ![h].content = "loose"]
    /\ UNCHANGED <<org, nextHotel, edits, jobs, hiding>>

\* The job writes the missing translations, or is lost or fails.
Translate(h) ==
    /\ h \in jobs
    /\ jobs' = jobs \ {h}
    /\ hotels' = [hotels EXCEPT ![h].content = "loose"]
    /\ UNCHANGED <<org, nextHotel, edits, resets, hiding>>

DropJob(h) ==
    /\ h \in jobs
    /\ jobs' = jobs \ {h}
    /\ UNCHANGED <<org, hotels, nextHotel, edits, resets, hiding>>

-----------------------------------------------------------------------------
(* The administrator decides on a listing *)

Drafts(h) == {d \in Listed \ {h} : hotels[d].status = "draft"}

\* The transaction of hotelStatus, under the lock of the row.  Whether a
\* listing is complete enough to be published is a matter of its content.
Verdict(h, status) ==
    [hotels EXCEPT ![h].status   = status,
                   ![h].prepared = @ \/ status # "hidden",
                   ![h].content  = IF status = "published" THEN "judged" ELSE @,
                   ![h].kept     = @ /\ status # "published"]

\* The first decision on the listing has a next draft made for the partner.
NeedsDraft(h, status) == status # "hidden" /\ ~hotels[h].prepared

HotelStatusWrite(h, status) ==
    /\ h \in Listed
    /\ status \in {"published", "hidden", "rejected"}
    /\ ~NeedsDraft(h, status)
    /\ hotels' = Verdict(h, status)
    /\ UNCHANGED <<org, nextHotel, edits, resets, jobs, hiding>>

\* prepareNextHotelDraft wipes the latest other draft, if it has no bookings.
HotelStatusReuse(h, status, d) ==
    /\ h \in Listed
    /\ status \in {"published", "rejected"}
    /\ NeedsDraft(h, status)
    /\ d \in Drafts(h)
    /\ hotels' = [Verdict(h, status) EXCEPT ![d].prepared = FALSE, ![d].content = "edited"]
    /\ UNCHANGED <<org, nextHotel, edits, resets, jobs, hiding>>

\* Else it makes one.
HotelStatusInsert(h, status) ==
    /\ h \in Listed
    /\ status \in {"published", "rejected"}
    /\ NeedsDraft(h, status)
    /\ nextHotel \in HotelIds
    /\ hotels' = [Verdict(h, status) EXCEPT ![nextHotel] = NewHotel]
    /\ nextHotel' = nextHotel + 1
    /\ UNCHANGED <<org, edits, resets, jobs, hiding>>

-----------------------------------------------------------------------------

PartnerStep ==
    \/ SubmitApplication
    \/ ResubmitApplication
    \/ \E status \in Decisions : PartnerDecision(status) \/ PartnerStatusWrite(status)
    \/ HideListings
    \/ AbandonHiding

ListingStep ==
    \/ \E translate \in BOOLEAN : CreateHotel(translate)
    \/ \E h \in HotelIds :
          \/ \E translate \in BOOLEAN : BeginEdit(h, translate)
          \/ FinishEdit(h) \/ AbandonEdit(h) \/ EditRules(h)
          \/ ChangeRooms(h)
          \/ \E status \in HotelStatus : UpdateHotel(h, status) \/ SetListingStatus(h, status)
          \/ BeginReset(h) \/ FinishReset(h) \/ AbandonReset(h)
          \/ Translate(h) \/ DropJob(h)

VerdictStep ==
    \E h \in HotelIds, status \in HotelStatus :
        \/ HotelStatusWrite(h, status)
        \/ \E d \in HotelIds : HotelStatusReuse(h, status, d)
        \/ HotelStatusInsert(h, status)

Next == PartnerStep \/ ListingStep \/ VerdictStep

Spec == Init /\ [][Next]_vars

-----------------------------------------------------------------------------
(* Properties *)

\* However edits, resets, decisions and translations of a listing overlap,
\* content that changes after its publication goes back to the review: when
\* nothing is under way, guests see what an administrator has published, but for
\* what updateHotel, the room routes and the translation job change, and for
\* edits and resets that died between their statements (touchHotel and its
\* callers, resetHotel, hotelStatus).
ChangesAreReviewed ==
    \A h \in Listed :
        hotels[h].status = "published" /\ hotels[h].content = "edited"
            => edits[h] > 0 \/ h \in resets

\* What a suspension has hidden comes back only listing by listing: neither a
\* later approval of the partner nor an edit or reset that was under way shows
\* it to guests (partnerStatus: "Partner approval is intentionally separate
\* from listing moderation").
SuspendedStayHidden ==
    \A h \in Listed : hotels[h].kept => hotels[h].status # "published"

=============================================================================
