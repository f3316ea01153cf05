SPECIFICATION Spec
CONSTANTS
 near=near far=far bad=bad
 Url={near,far,bad} Origin <- OriginOf
 Shortcut={k0,k1,k2} DefaultKey=k0
 Link={l1,l2} Check={c1,c2} Paste={p1}
 None=None Torn=Torn MostSteps=5
INVARIANTS TypeOK GrantsFollowConfig ShortcutsAccountedFor OfferIsBacked PasteHitsItsTarget
SYMMETRY Symmetric
CHECK_DEADLOCK FALSE
