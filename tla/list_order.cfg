CONSTANTS
  Messages <- PairAndCrowd
  AlbumMessages <- SpreadAlbum
  Replaces <- ChainAndImage
  DeletedForMe <- Replacement
SPECIFICATION Spec
INVARIANTS
  TypeOK
  NewestFirst
  AlbumIsOneRow
  MarkerSeparatesNew
  LoadedPageIsShown
PROPERTY ImplementsOrderedRows
