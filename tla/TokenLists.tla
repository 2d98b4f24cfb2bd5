----------------------------- MODULE TokenLists -----------------------------
(***************************************************************************)
(* The icon of a token with an issuer: the cache of fetched icons          *)
(* (background/assetIcons.ts) and, behind it, the token lists of the       *)
(* network, in memory and in storage (background/assetTokenLists.ts).      *)
(* Requests overlap, the network changes and the worker stops while lists  *)
(* and icons are on their way.  A unit of time is some hours: requests end *)
(* within it.                                                              *)
(***************************************************************************)
EXTENDS Naturals

CONSTANTS IconAsks,     \* numbers the concurrent requests for the icon
          ListTtl,      \* units a list is kept for
          MaxListTime, MaxListMoves, MaxListStops

ASSUME TokenListsAssumption ==
    /\ ListTtl \in Nat \ {0}
    /\ {MaxListTime, MaxListMoves, MaxListStops} \subseteq Nat

VARIABLES
    listNet,      \* the active network
    clearing,     \* a change of network has still to clear the memory
    listMemory,   \* the list in memory: its network, since when, the list
    listStored,   \* network -> the list in storage and when it was written
    iconStored,   \* network -> the network the kept icon was found on
    iconAsk,      \* IconAsks -> what the request does, for which network, with which list
    listNow, listMoves, listStops

listVars == <<listNet, clearing, listMemory, listStored, iconStored, iconAsk, listNow, listMoves,
              listStops>>

ListNets == {"mainnet", "testnet"}
NoneKept == [net |-> "none"]
NoIcon == "none"
Unasked == [at |-> "idle"]

(* A list: the network it was fetched for and when.  It may lack the token:*)
(* a source that fails, or is of the other network, adds nothing.          *)
TokenList(net) == [net |-> net, time |-> listNow]

ListInit ==
    /\ listNet = "mainnet" /\ clearing = FALSE
    /\ listMemory = NoneKept
    /\ listStored = [n \in ListNets |-> NoneKept]
    /\ iconStored = [n \in ListNets |-> NoIcon]
    /\ iconAsk = [k \in IconAsks |-> Unasked]
    /\ listNow = 0 /\ listMoves = 0 /\ listStops = 0

listBounds == <<listNow, listMoves, listStops>>
netVars == <<listNet, clearing>>

-----------------------------------------------------------------------------
Goes(k, ask) == iconAsk' = [iconAsk EXCEPT ![k] = ask]
AskAt(k, at) == iconAsk[k].at = at

(* getAssetIconDataUrlsBatch: the network is read once.                    *)
AskIcon(k) ==
    /\ AskAt(k, "idle")
    /\ Goes(k, [at |-> "kept?", net |-> listNet])
    /\ UNCHANGED <<netVars, listMemory, listStored, iconStored, listBounds>>

(* Variant: the list in memory serves whoever asks. *)
ServesAnyNetwork(n) == listMemory # NoneKept /\ listNow - listMemory.since < ListTtl

(* The list in memory is of the network and recent.                        *)
MemoryServes(n) ==
    /\ listMemory # NoneKept
    /\ listMemory.net = n
    /\ listNow - listMemory.since < ListTtl

(* The icon kept for the network answers; without one the lists are asked: *)
(* those in memory, or else those in storage.                              *)
KeptIconRead(k) ==
    /\ AskAt(k, "kept?")
    /\ LET n == iconAsk[k].net IN
         \/ iconStored[n] # NoIcon /\ Goes(k, Unasked)
         \/ iconStored[n] = NoIcon /\ MemoryServes(n)
            /\ Goes(k, [at |-> "listed", net |-> n, list |-> listMemory.list])
         \/ iconStored[n] = NoIcon /\ ~MemoryServes(n)
            /\ Goes(k, [at |-> "stored?", net |-> n])
    /\ UNCHANGED <<netVars, listMemory, listStored, iconStored, listBounds>>

StoredServes(n) == listStored[n] # NoneKept /\ listNow - listStored[n].since < ListTtl

Keeps(n, list) == listMemory' = [net |-> n, since |-> listNow, list |-> list]

(* readPersistedMap: a recent list is kept in memory from now on, whatever *)
(* its age; otherwise the sources are fetched.                             *)
StoredListRead(k) ==
    /\ AskAt(k, "stored?")
    /\ LET n == iconAsk[k].net IN
         \/ /\ StoredServes(n)
            /\ Keeps(n, listStored[n].list)
            /\ Goes(k, [at |-> "listed", net |-> n, list |-> listStored[n].list])
         \/ /\ ~StoredServes(n)
            /\ Goes(k, [at |-> "fetching", net |-> n])
            /\ UNCHANGED listMemory
    /\ UNCHANGED <<netVars, listStored, iconStored, listBounds>>

(* fetchTokenListFromNetwork never fails: what did not arrive is missing.  *)
ListsArrive(k) ==
    /\ AskAt(k, "fetching")
    /\ LET n == iconAsk[k].net
           list == TokenList(n)
       IN  Keeps(n, list) /\ Goes(k, [at |-> "saving", net |-> n, list |-> list])
    /\ UNCHANGED <<netVars, listStored, iconStored, listBounds>>

(* persistMap.                                                             *)
ListSaved(k) ==
    /\ AskAt(k, "saving")
    /\ LET ask == iconAsk[k] IN
         /\ listStored' = [listStored EXCEPT ![ask.net] =
                              [net |-> ask.net, since |-> listNow, list |-> ask.list]]
         /\ Goes(k, [ask EXCEPT !.at = "listed"])
    /\ UNCHANGED <<netVars, listMemory, iconStored, listBounds>>

(* The icon is that of the list, else of the issuer's domain (on the       *)
(* network of the request) or of a service that knows no network.          *)
IconFoundOn(ask) == {ask.list.net, ask.net}

(* The icon itself: it arrives and is kept, or it does not.                *)
IconEnds(k) ==
    /\ AskAt(k, "listed")
    /\ \/ \E n \in IconFoundOn(iconAsk[k]) :
             iconStored' = [iconStored EXCEPT ![iconAsk[k].net] = n]
       \/ UNCHANGED iconStored
    /\ Goes(k, Unasked)
    /\ UNCHANGED <<netVars, listMemory, listStored, listBounds>>

-----------------------------------------------------------------------------
(* applyDeveloperMode: the network is written, and after another write the *)
(* memory is cleared.                                                      *)
MoveNetwork ==
    /\ listMoves < MaxListMoves /\ ~clearing
    /\ listMoves' = listMoves + 1
    /\ listNet' = IF listNet = "mainnet" THEN "testnet" ELSE "mainnet"
    /\ clearing' = TRUE
    /\ UNCHANGED <<listMemory, listStored, iconStored, iconAsk, listNow, listStops>>

(* clearTokenListMemoryCache.                                              *)
ClearListMemory ==
    /\ clearing
    /\ clearing' = FALSE /\ listMemory' = NoneKept
    /\ UNCHANGED <<listNet, listStored, iconStored, iconAsk, listBounds>>

HoursPass ==
    /\ listNow < MaxListTime
    /\ \A k \in IconAsks : AskAt(k, "idle")
    /\ ~clearing
    /\ listNow' = listNow + 1
    /\ UNCHANGED <<netVars, listMemory, listStored, iconStored, iconAsk, listMoves, listStops>>

(* The service worker stops: the memory and every request are gone.  With  *)
(* nothing in it the stop would change nothing.                            *)
ListStop ==
    /\ listStops < MaxListStops
    /\ listMemory # NoneKept \/ \E k \in IconAsks : ~AskAt(k, "idle")
    /\ listStops' = listStops + 1
    /\ listMemory' = NoneKept /\ clearing' = FALSE
    /\ iconAsk' = [k \in IconAsks |-> Unasked]
    /\ UNCHANGED <<listNet, listStored, iconStored, listNow, listMoves>>

ListNext ==
    \/ \E k \in IconAsks : \/ AskIcon(k) \/ KeptIconRead(k) \/ StoredListRead(k)
                           \/ ListsArrive(k) \/ ListSaved(k) \/ IconEnds(k)
    \/ MoveNetwork \/ ClearListMemory \/ HoursPass \/ ListStop

-----------------------------------------------------------------------------
ListTypeOK ==
    /\ listNet \in ListNets /\ clearing \in BOOLEAN
    /\ listMemory.net \in ListNets \cup {"none"}
    /\ \A n \in ListNets : listStored[n] = NoneKept \/ listStored[n].net = n
    /\ iconStored \in [ListNets -> ListNets \cup {NoIcon}]
    /\ \A k \in IconAsks :
         iconAsk[k].at \in {"idle", "kept?", "stored?", "fetching", "saving", "listed"}

(* An icon kept for a network comes from that network: a request that      *)
(* began before the network changed puts its list in memory after the      *)
(* memory was cleared, where a request of the new network finds it.        *)
IconIsOfItsNetwork == \A n \in ListNets : iconStored[n] \in {NoIcon, n}

(* A list that answers was fetched less than twice its time ago, although  *)
(* its time begins anew when it is read from storage.                      *)
ListIsRecent ==
    \A n \in ListNets :
        /\ MemoryServes(n) => listNow - listMemory.list.time < 2 * ListTtl
        /\ StoredServes(n) => listNow - listStored[n].list.time < ListTtl
=============================================================================
