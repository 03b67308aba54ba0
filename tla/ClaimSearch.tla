------------------------------- MODULE ClaimSearch -------------------------------
(***************************************************************************)
(* What the proxy does to claim_search and resolve before and after the    *)
(* SDK: preflightHookClaimSearch (hidden tags, release time, order), and   *)
(* the replacement of thumbnail URLs by those of the Arfleet CDN           *)
(* (app/query/processors.go, app/arweave).                                 *)
(***************************************************************************)
EXTENDS Integers, Sequences

CONSTANTS
    Tags,           \* tags a client may name, those of the code included
    Window,         \* releaseTimeRoundDownSec
    SearchTime,     \* bound
    Urls,           \* thumbnail URLs
    MaxItems,       \* bound: claims in a response
    Substitute(_)   \* what the Arfleet resolver gives for a URL

PrivateTag == "c:private"
Unlisted == "c:unlisted"
ScheduledShow == "c:scheduled:show"

ASSUME SearchAssumption ==
    /\ Window \in Nat \ {0} /\ SearchTime \in Nat /\ MaxItems \in Nat
    /\ {PrivateTag, Unlisted, ScheduledShow} \subseteq Tags

SearchClient == [hasSource : {"nil", "false", "true"}, anyTags : SUBSET Tags, notTags : SUBSET Tags,
           releaseTime : {{}, {-1}}, orderBy : {"", "theirs"}, text : BOOLEAN]

VARIABLES
    searchNow, searchClient,  \* what the client asks
    searchQuery,    \* what is sent, and
    askedAt,        \* when
    items,          \* thumbnails of the claims of the response
    thumbs,         \* what the client gets
    copies,         \* URLs the resolver has a copy of
    todo            \* and those not replaced yet

searchVars == <<searchNow, searchClient, searchQuery, askedAt, items, thumbs, copies, todo>>
ItemSeqs == UNION {[1..n -> Urls] : n \in 0..MaxItems}

SearchInit ==
    /\ searchNow = 0
    /\ searchClient \in SearchClient
    /\ searchQuery = searchClient /\ askedAt = -1
    /\ items \in ItemSeqs
    /\ thumbs = items
    /\ copies \in SUBSET Urls /\ todo = copies

SearchTypeOK ==
    /\ searchNow \in 0..SearchTime /\ askedAt \in -1..SearchTime
    /\ searchClient \in SearchClient
    /\ searchQuery.notTags \subseteq Tags /\ searchQuery.orderBy \in {"", "theirs", "default"}
    /\ Len(thumbs) = Len(items)

roundUp(n, s) == IF n % s = 0 THEN n ELSE n + s - (n % s)

\* AnyTagsContains, NotTagsContains: one of the two asked for turns both off.
HiddenTags(p) ==
    IF p.anyTags \cap {PrivateTag, Unlisted} # {} THEN p.notTags ELSE p.notTags \cup {PrivateTag, Unlisted}

\* Mutant of ReleasedBefore: the limit is the moment itself.
ReleasedNow(p, t) ==
    IF ScheduledShow \in p.anyTags THEN p.releaseTime ELSE p.releaseTime \cup {t}

ReleasedBefore(p, t) ==
    IF ScheduledShow \in p.anyTags THEN p.releaseTime ELSE p.releaseTime \cup {roundUp(t, Window)}

OrderBy(p) == IF p.orderBy = "" /\ ~p.text THEN "default" ELSE p.orderBy

\* The parameters that are sent, and that make the key of the cache.
Patched(p, t) ==
    [p EXCEPT !.notTags = IF p.hasSource = "true" THEN HiddenTags(p) ELSE @,
              !.releaseTime = IF p.hasSource = "true" THEN ReleasedBefore(p, t) ELSE @,
              !.orderBy = OrderBy(p)]

preflightHookClaimSearch ==
    /\ searchQuery' = Patched(searchClient, searchNow)
    /\ askedAt' = searchNow
    /\ UNCHANGED <<searchNow, searchClient, items, thumbs, copies, todo>>

-----------------------------------------------------------------------------
(* Thumbnails                                                              *)

\* The paths of a URL are those of the response as it came.
SetPaths(url) == [i \in DOMAIN items |-> IF items[i] = url THEN Substitute(url) ELSE thumbs[i]]

\* ReplaceAssetUrls: one URL after the other, in the order of a Go map.
ReplaceAssetUrls ==
    /\ askedAt >= 0
    /\ \E url \in todo : thumbs' = SetPaths(url) /\ todo' = todo \ {url}
    /\ UNCHANGED <<searchNow, searchClient, searchQuery, askedAt, items, copies>>

\* The resolver does not answer: the response stays as it is.
ResolverFails ==
    /\ askedAt >= 0 /\ todo = copies
    /\ copies' = {} /\ todo' = {}
    /\ UNCHANGED <<searchNow, searchClient, searchQuery, askedAt, items, thumbs>>

SearchTick ==
    /\ searchNow < SearchTime
    /\ searchNow' = searchNow + 1
    /\ UNCHANGED <<searchClient, searchQuery, askedAt, items, thumbs, copies, todo>>

SearchNext == preflightHookClaimSearch \/ ReplaceAssetUrls \/ ResolverFails \/ SearchTick

SearchSpec == SearchInit /\ [][SearchNext]_searchVars

-----------------------------------------------------------------------------
(* Properties                                                              *)

\* Private and unlisted claims are left out unless the client asks for either, and
\* what the client excludes stays excluded (preflightHookClaimSearch).
HiddenStaysHidden ==
    askedAt >= 0 =>
        /\ searchClient.notTags \subseteq searchQuery.notTags
        /\ searchClient.hasSource = "true" /\ searchClient.anyTags \cap {PrivateTag, Unlisted} = {} =>
              {PrivateTag, Unlisted} \subseteq searchQuery.notTags

\* The limit on the release time is less than a window away from the moment of the
\* query and not before it, so that nothing already released is hidden and nothing
\* is shown a whole window early (roundUp).
ReleaseLimit ==
    \A t \in searchQuery.releaseTime \ searchClient.releaseTime : askedAt <= t /\ t < askedAt + Window

\* The same search within a window sends the same query, so that it finds the
\* cached answer (GetCacheKey is made of the patched parameters).
SameWindowSameQuery ==
    searchQuery # searchQuery' /\ askedAt >= 0 => roundUp(askedAt, Window) # roundUp(askedAt', Window)

\* Replacing URL by URL, in whatever order, gives what replacing claim by claim
\* would, also when claims share a thumbnail or a copy's URL is a thumbnail itself
\* (ReplaceAssetUrls).
ThumbsReplaced ==
    todo = {} => \A i \in DOMAIN items :
        thumbs[i] = IF items[i] \in copies THEN Substitute(items[i]) ELSE items[i]

\* What the hooks of claim_search promise: each line is stated above.
SearchSafe ==
    [][ /\ (SearchTypeOK /\ HiddenStaysHidden /\ ReleaseLimit /\ ThumbsReplaced)'
        /\ SameWindowSameQuery ]_searchVars
=================================================================================
