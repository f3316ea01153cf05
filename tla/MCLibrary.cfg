SPECIFICATION SendsSpec
CONSTANTS
 u1=u1 u2=u2 b1=b1 b2=b2 b3=b3 i1=i1 i2=i2 i3=i3 i4=i4 i5=i5 n1=n1 n2=n2 l1=l1 l2=l2
 User={u1,u2} Bucket={b1,b2,b3} Image={i1,i2,i3,i4,i5} Name={n1,n2} Inbox=n2 Link={l1,l2} Worker={w1,w2}
 None=None Gone=Gone Keep=Keep
 Stocks <- SomeTables
 Posts <- SomePosts
 Patches <- SomePatches
 Traffics <- Mixes Draws <- NamesDrawn Sender={s1,s2} PickerMax=2 PickerWindow=2 DebounceWindow=1 RecentMax=2 MaxTime=2
INVARIANTS TypeOK ImageInOwnersBucket ReadersAgree StaleReadingsExplained  PicksWithinLimits
PROPERTIES OwnWordsKept InboxAddLands ImportRestores DrawAvoidsRecent
SYMMETRY Symmetric
CHECK_DEADLOCK FALSE
