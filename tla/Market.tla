-------------------------------- MODULE Market --------------------------------
(***************************************************************************)
(* Marketplace and jobs: a listing, who has looked at it, reviews of its   *)
(* seller, applications for a job and views of a book.  Offers and         *)
(* bookings are not here: no route reaches the first, and the routes of    *)
(* the others have no guard that would give them a user.                   *)
(***************************************************************************)
EXTENDS SocialState

CONSTANTS
  Seller,  \* the user who posts the listing and is reviewed
  Ratings  \* of a review

ASSUME MarketAssumption == Seller \in Users /\ Ratings \subseteq 1..5

VARIABLES
  listing,
  engagement,   \* ListingEngagement of a user
  reports,      \* number of Report documents
  review,       \* rating by reviewer, 0 without: {reviewer, listing} is unique
  profile,      \* the MarketUser of the seller
  saved,        \* who has saved the listing
  application,  \* number of applications for the job, by user
  views,        \* of a book, or of the listing: impressions
  opened        \* history: how often the book or the listing was opened

marketVars == <<listing, engagement, reports, review, profile, saved, application, views, opened>>
others == <<engagement, reports, review, profile, saved, application>>

ListingStatus == {"none", "draft", "active", "inactive", "expired", "removed"}
Opened == {"listing", "book"}

\* due: expiryDate, 30 days after the creation or the renewal, is over.
NoListing == [status |-> "none", hide |-> FALSE, isExpired |-> FALSE, due |-> FALSE,
              edited |-> FALSE]
NoEngagement == [here |-> FALSE, isLiked |-> FALSE, contacted |-> FALSE]
NoProfile == [here |-> FALSE, average |-> <<0, 0>>, blockedUsers |-> {},
              licence |-> "none", badge |-> FALSE]

MarketInit ==
  /\ listing = NoListing /\ engagement = [u \in Users |-> NoEngagement]
  /\ reports = 0 /\ review = [u \in Users |-> 0] /\ profile = NoProfile /\ saved = {}
  /\ application = [u \in Users |-> 0]
  /\ views = [o \in Opened |-> 0] /\ opened = [o \in Opened |-> 0]

Posted == listing.status \notin {"none", "removed"}

-----------------------------------------------------------------------------
(* The listing: read, checked, and saved as far as it was changed *)

\* postListing and saveDraft.
Post(status) ==
  /\ AtOnce("post") /\ listing.status = "none"
  /\ listing' = [NoListing EXCEPT !.status = status]
  /\ UNCHANGED <<others, views, opened>>

\* Whatever the status was; isExpired stays.
PublishDraft ==
  /\ AtOnce("publish") /\ Posted
  /\ listing' = [listing EXCEPT !.status = "active"]
  /\ UNCHANGED <<others, views, opened>>

\* A handler that has found the listing.
WithListing(s, request, h) ==
  /\ Free(s, request) /\ Posted
  /\ Begin(s, h)
  /\ UNCHANGED marketVars

UpdateDraft(s) ==
  listing.status = "draft" /\ WithListing(s, "edit", Call("saveEdit", Seller))
UpdateListing(s) == WithListing(s, "edit", Call("saveEdit", Seller))
SetListingVisibility(s, hide) ==
  WithListing(s, "hide", [Call("saveVisibility", Seller) EXCEPT
    !.flag = hide, !.word = listing.status, !.seen = listing.hide])
RenewListing(s) ==
  WithListing(s, "renew", [Call("saveRenewal", Seller) EXCEPT
    !.flag = listing.isExpired, !.word = listing.status])
DeleteDraft(s) == WithListing(s, "delete", Call("removeListing", Seller))

\* A save of a document that is gone fails.
SaveListing(s, pc, doc) ==
  /\ At(s, pc)
  /\ listing' = IF Posted THEN doc ELSE listing
  /\ Return(s)
  /\ UNCHANGED <<others, views, opened>>

SaveEdit(s) == SaveListing(s, "saveEdit", [listing EXCEPT !.edited = TRUE])

SaveVisibility(s) ==
  LET status == IF req[s].flag THEN "inactive" ELSE "active"
  IN SaveListing(s, "saveVisibility", [listing EXCEPT
       !.hide = IF req[s].flag = req[s].seen THEN @ ELSE req[s].flag,
       !.status = IF status = req[s].word THEN @ ELSE status])

\* Mutant: the status is renewed, the mark of the expiration stays.
SaveRenewalMarked(s) ==
  SaveListing(s, "saveRenewal", [listing EXCEPT
    !.due = FALSE, !.status = IF req[s].word = "expired" THEN "active" ELSE @])

SaveRenewal(s) ==
  SaveListing(s, "saveRenewal", [listing EXCEPT
    !.due = FALSE, !.isExpired = IF req[s].flag THEN FALSE ELSE @,
    !.status = IF req[s].word = "expired" THEN "active" ELSE @])

RemoveListing(s) ==
  /\ At(s, "removeListing")
  /\ listing' = [NoListing EXCEPT !.status = "removed"]
  /\ Return(s)
  /\ UNCHANGED <<others, views, opened>>

\* The 30 days pass.
ListingDue ==
  /\ Posted /\ ~listing.due
  /\ listing' = [listing EXCEPT !.due = TRUE]
  /\ UNCHANGED <<social, others, views, opened>>

\* handleExpiration, every midnight: of any status, drafts too.
HandleExpiration ==
  /\ listing.due /\ ~listing.isExpired
  /\ listing' = [listing EXCEPT !.isExpired = TRUE, !.status = "expired"]
  /\ UNCHANGED <<social, others, views, opened>>

-----------------------------------------------------------------------------
(* Views and engagement *)

\* getListingById, getBookDetails: the number is read, counted up and saved.
Open(s, o) ==
  /\ Free(s, "open") /\ (o = "listing" => Posted)
  /\ opened' = [opened EXCEPT ![o] = @ + 1]
  /\ Begin(s, [Call("saveViews", NoUser) EXCEPT !.word = o, !.number = views[o]])
  /\ UNCHANGED <<listing, others, views>>

SaveViews(s) ==
  LET o == req[s].word IN
  /\ At(s, "saveViews")
  /\ views' = IF o = "listing" /\ ~Posted THEN views
              ELSE [views EXCEPT ![o] = req[s].number + 1]
  /\ Return(s)
  /\ UNCHANGED <<listing, others, opened>>

\* An upsert: recordView and recordInquiry.
Engage(u, contacted) ==
  /\ AtOnce("engage") /\ Posted
  /\ engagement' = [engagement EXCEPT ![u] =
       [@ EXCEPT !.here = TRUE, !.contacted = engagement[u].contacted \/ contacted]]
  /\ UNCHANGED <<listing, reports, review, profile, saved, application, views, opened>>

ToggleEngagement(s, u) ==
  WithListing(s, "likeListing", [Call("saveLike", u) EXCEPT !.flag = ~engagement[u].isLiked])

SaveLike(s) ==
  /\ At(s, "saveLike")
  /\ engagement' = [engagement EXCEPT ![req[s].user] =
       [@ EXCEPT !.here = TRUE, !.isLiked = req[s].flag]]
  /\ Return(s)
  /\ UNCHANGED <<listing, reports, review, profile, saved, application, views, opened>>

ReportListing(s, u) == WithListing(s, "report", Call("insertReport", u))

InsertReport(s) ==
  /\ At(s, "insertReport")
  /\ reports' = reports + 1
  /\ Return(s)
  /\ UNCHANGED <<listing, engagement, review, profile, saved, application, views, opened>>

\* Upserts: the way to a profile.  createProfile lacks the user and is refused.
\* A licence is pending by default, one that was not applied for too.
Upserted ==
  [profile EXCEPT !.here = TRUE, !.licence = IF @ = "none" THEN "pending" ELSE @]

\* addUserListing, removeSavedListing: in the profile of u.
SaveForLater(u) ==
  /\ AtOnce("save") /\ listing.status # "none"
  /\ saved' = IF u \in saved THEN saved \ {u} ELSE saved \cup {u}
  /\ profile' = IF u = Seller /\ u \notin saved THEN Upserted ELSE profile
  /\ UNCHANGED <<listing, engagement, reports, review, application, views, opened>>

-----------------------------------------------------------------------------
(* The profile of the seller and its reviews *)

SetProfile(doc) ==
  /\ profile' = doc
  /\ UNCHANGED <<listing, engagement, reports, review, saved, application, views, opened>>

BlockUser(u) ==
  AtOnce("profile") /\ SetProfile([Upserted EXCEPT !.blockedUsers = @ \cup {u}])
SubmitBreederLicense ==
  AtOnce("profile") /\ SetProfile([profile EXCEPT !.here = TRUE, !.licence = "pending"])

ApproveBreeder(s) ==
  /\ Free(s, "approve") /\ profile.here
  /\ Begin(s, [Call("saveApproval", NoUser) EXCEPT !.flag = profile.licence # "approved"])
  /\ UNCHANGED marketVars

SaveApproval(s) ==
  /\ At(s, "saveApproval")
  /\ SetProfile([profile EXCEPT !.licence = IF req[s].flag THEN "approved" ELSE @,
                                !.badge = TRUE])
  /\ Return(s)

AddReview(s, u, r) ==
  /\ Free(s, "review") /\ u # Seller /\ review[u] = 0
  /\ Begin(s, [Call("insertReview", u) EXCEPT !.number = r])
  /\ UNCHANGED marketVars

\* The index refuses a second review of one reviewer.
InsertReview(s) ==
  LET u == req[s].user IN
  /\ At(s, "insertReview")
  /\ review' = IF review[u] = 0 THEN [review EXCEPT ![u] = req[s].number] ELSE review
  /\ IF review[u] = 0 THEN Goto(s, "readRatings") ELSE Return(s)
  /\ UNCHANGED <<listing, engagement, reports, profile, saved, application, views, opened>>

Reviewers == {u \in Users : review[u] # 0}

\* The average as a sum and a count.
Average ==
  LET of[us \in SUBSET Users] ==
        IF us = {} THEN 0 ELSE LET u == CHOOSE v \in us : TRUE IN review[u] + of[us \ {u}]
  IN <<of[Reviewers], Cardinality(Reviewers)>>

ReadRatings(s) ==
  /\ At(s, "readRatings")
  /\ Resume(s, [req[s] EXCEPT !.pc = "saveRating", !.seen = Average])
  /\ UNCHANGED marketVars

\* A seller without a profile is not given one.
SaveRating(s) ==
  /\ At(s, "saveRating")
  /\ SetProfile(IF profile.here THEN [profile EXCEPT !.average = req[s].seen] ELSE profile)
  /\ Return(s)

-----------------------------------------------------------------------------
(* Jobs *)

\* Mutant: nobody looks for an earlier application.
ApplyAgain(s, u) ==
  /\ Free(s, "apply")
  /\ Begin(s, Call("insertApplication", u))
  /\ UNCHANGED marketVars

\* The file is uploaded before the application is stored; no index is unique.
ApplyForJob(s, u) ==
  /\ Free(s, "apply") /\ application[u] = 0
  /\ Begin(s, Call("insertApplication", u))
  /\ UNCHANGED marketVars

InsertApplication(s) ==
  /\ At(s, "insertApplication")
  /\ application' = [application EXCEPT ![req[s].user] = @ + 1]
  /\ Return(s)
  /\ UNCHANGED <<listing, engagement, reports, review, profile, saved, views, opened>>

MarketContinue(s) ==
  \/ SaveEdit(s) \/ SaveVisibility(s) \/ SaveRenewal(s) \/ RemoveListing(s) \/ SaveViews(s)
  \/ SaveLike(s) \/ InsertReport(s) \/ SaveApproval(s)
  \/ InsertReview(s) \/ ReadRatings(s) \/ SaveRating(s) \/ InsertApplication(s)

MarketStart(s) ==
  \/ UpdateDraft(s) \/ UpdateListing(s) \/ RenewListing(s) \/ DeleteDraft(s)
  \/ ApproveBreeder(s)
  \/ \E hide \in BOOLEAN : SetListingVisibility(s, hide)
  \/ \E o \in Opened : Open(s, o)
  \/ \E u \in Users : \/ ToggleEngagement(s, u) \/ ReportListing(s, u) \/ ApplyForJob(s, u)
                      \/ \E r \in Ratings : AddReview(s, u, r)

MarketAtOnce ==
  \/ \E status \in {"active", "draft"} : Post(status)
  \/ PublishDraft \/ SubmitBreederLicense
  \/ \E u \in Users : \/ SaveForLater(u) \/ BlockUser(u)
                      \/ \E contacted \in BOOLEAN : Engage(u, contacted)
=============================================================================
