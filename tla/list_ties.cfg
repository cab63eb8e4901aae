CONSTANTS
  Messages <- PairAndCrowd
  AlbumMessages <- SpreadAlbum
  Replaces <- ChainAndImage
  DeletedForMe <- Replacement
SPECIFICATION Spec
INVARIANT TiesBrokenById
